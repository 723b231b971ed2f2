--------------------------- MODULE GovernorProofs ----------------------------
(***************************************************************************)
(* Proofs about the governor, for every set of peers, attempts and leases  *)
(* and every value of the limits.                                          *)
(***************************************************************************)
EXTENDS Governor, FiniteSums

\* The peer records, as TypeOK types them.
PeerStates == [state : {"free", "open", "closed"}, id : PeerIDs \cup {None},
               attempts : SUBSET Leases]

\* Cardinalities of sets of leases are integers.
LEMMA LeaseCount ==
    ASSUME NEW S \in SUBSET Leases
    PROVE  Cardinality(S) \in Int
<1>1. IsFiniteSet(S) BY GovernorObjects, FS_Subset
<1>2. QED BY <1>1, FS_CardinalityType

\* None is no lease.
LEMMA NoneIsNoLease == None \notin Leases
BY GovernorObjects

\* The record updates the actions make keep a lease well formed.
LEMMA LeaseUpdates ==
    ASSUME NEW r \in LeaseStates, NEW q \in BOOLEAN, NEW n \in Nat
    PROVE  /\ [r EXCEPT !.stopping = TRUE, !.drained = q] \in LeaseStates
           /\ [r EXCEPT !.state = "closed", !.stopping = TRUE] \in LeaseStates
           /\ [r EXCEPT !.net = n] \in LeaseStates
           /\ r.net \in Nat /\ r.acct \in BOOLEAN /\ r.loopback \in BOOLEAN
           /\ r.stopping \in BOOLEAN /\ r.drained \in BOOLEAN
BY DEF LeaseStates

\* So do those they make to a terminal.
LEMMA TermUpdates ==
    ASSUME NEW r \in TermStates, NEW p \in BOOLEAN, NEW q \in BOOLEAN
    PROVE  [r EXCEPT !.manager = "network", !.netClosed = p, !.acctClosed = q]
              \in TermStates
BY DEF TermStates

\* beginAttemptStoppingLocked keeps the lease objects well formed.
LEMMA BeginStoppingType ==
    ASSUME TypeOK, NEW S \in SUBSET Leases, NEW t \in [Leases -> TermStates],
           BeginStopping(S, t)
    PROVE  /\ lease' \in [Leases -> LeaseStates]
           /\ term' \in [Leases -> TermStates]
           /\ finalizing' \in Int
<1>1. Phased(Stoppable(S)) \in SUBSET Leases
    BY DEF Phased, Stoppable
<1>2. finalizing' \in Int
  <2>1. Cardinality(Phased(Stoppable(S))) \in Int BY <1>1, LeaseCount
  <2>2. finalizing' = finalizing + Cardinality(Phased(Stoppable(S)))
    BY Zenon DEF BeginStopping
  <2>3. finalizing \in Int BY DEF TypeOK
  <2>4. QED BY <2>1, <2>2, <2>3
<1>3. lease' \in [Leases -> LeaseStates]
  <2>1. ASSUME NEW l \in Leases
        PROVE  [lease[l] EXCEPT !.stopping = TRUE, !.drained = (Pending(l) = 0)]
                  \in LeaseStates
    <3>1. (Pending(l) = 0) \in BOOLEAN OBVIOUS
    <3>2. lease[l] \in LeaseStates BY DEF TypeOK
    <3>3. QED BY <3>1, <3>2, LeaseUpdates
  <2>2. QED BY <2>1 DEF BeginStopping, TypeOK
<1>4. term' \in [Leases -> TermStates]
  <2>1. ASSUME NEW l \in Leases
        PROVE  [t[l] EXCEPT !.manager = "network",
                            !.netClosed = (lease[l].net = 0),
                            !.acctClosed = ~lease[l].acct] \in TermStates
    <3>1. /\ (lease[l].net = 0) \in BOOLEAN /\ (~lease[l].acct) \in BOOLEAN
          /\ t[l] \in TermStates
        OBVIOUS
    <3>2. QED BY <3>1, TermUpdates
  <2>2. QED BY <2>1 DEF BeginStopping, TypeOK
<1>5. QED BY <1>2, <1>3, <1>4

\* What beginAttemptStoppingLocked changes of a lease.
LEMMA BeginStoppingEffect ==
    ASSUME TypeOK, NEW S \in SUBSET Leases, NEW t, BeginStopping(S, t),
           NEW l \in Leases
    PROVE  /\ lease'[l].state = lease[l].state
           /\ lease'[l].id = lease[l].id
           /\ lease[l].stopping => lease'[l].stopping
           /\ l \in S /\ lease[l].state = "active" => lease'[l].stopping
BY DEF BeginStopping, TypeOK, LeaseStates, Stoppable

\* tripLocked keeps everything it touches well formed.
LEMMA TripLockedType ==
    ASSUME TypeOK, NEW d \in [Drainers -> DrainerStates],
           NEW t \in [Leases -> TermStates], TripLocked(d, t)
    PROVE  /\ lease' \in [Leases -> LeaseStates]
           /\ term' \in [Leases -> TermStates]
           /\ finalizing' \in Int
           /\ drainer' \in [Drainers -> DrainerStates]
           /\ trip' \in BOOLEAN /\ tripDraining' \in BOOLEAN
<1>1. Registered \in SUBSET Leases
    BY DEF Registered
<1>2. CASE closed
    BY <1>2 DEF TripLocked, TypeOK
<1>3. CASE ~closed
  <2>1. BeginStopping(Registered, t)
    BY <1>3 DEF TripLocked
  <2>2. drainer' \in [Drainers -> DrainerStates]
    BY <1>1, <1>3 DEF TripLocked, Draining, DrainerStates
  <2>3. trip' \in BOOLEAN /\ tripDraining' \in BOOLEAN
    BY <1>3 DEF TripLocked, TypeOK
  <2>4. QED BY <1>1, <2>1, <2>2, <2>3, BeginStoppingType
<1>4. QED BY <1>2, <1>3

\* releaseAttemptLocked keeps everything it touches well formed.
LEMMA ReleaseType ==
    ASSUME TypeOK, NEW S \in SUBSET Leases, Release(S)
    PROVE  /\ lease' \in [Leases -> LeaseStates]
           /\ attempts' \in [AttemptIDs -> Leases \cup {None}]
           /\ peer' \in [PeerLeases -> [state : {"free", "open", "closed"},
                                        id : PeerIDs \cup {None},
                                        attempts : SUBSET Leases]]
           /\ heavyweight' \in Int
<1> DEFINE now == {l \in S : lease[l].state = "active"}
<1>1. HeavyOf(now) \in Int
    BY LeaseCount DEF HeavyOf
<1>2. heavyweight' \in Int
  <2>1. heavyweight' = heavyweight - HeavyOf(now) BY DEF Release
  <2>2. QED BY <1>1, <2>1 DEF TypeOK
<1>3. lease' \in [Leases -> LeaseStates]
  <2>1. ASSUME NEW l \in Leases
        PROVE  [lease[l] EXCEPT !.state = "closed", !.stopping = TRUE]
                  \in LeaseStates
    BY LeaseUpdates DEF TypeOK
  <2>2. QED BY <2>1 DEF Release, TypeOK
<1>4. attempts' \in [AttemptIDs -> Leases \cup {None}]
    BY DEF Release, TypeOK
<1>5. peer' \in [PeerLeases -> [state : {"free", "open", "closed"},
                                id : PeerIDs \cup {None},
                                attempts : SUBSET Leases]]
    BY DEF Release, TypeOK
<1>6. QED BY <1>2, <1>3, <1>4, <1>5

\* The record updates the drainers make.
LEMMA DrainerUpdates ==
    ASSUME NEW r \in DrainerStates, NEW S \in SUBSET Leases, NEW v \in Leases \cup {None}
    PROVE  /\ Idle \in DrainerStates /\ Draining(S) \in DrainerStates
           /\ [r EXCEPT !.pc = "expired", !.victim = v] \in DrainerStates
           /\ [r EXCEPT !.pc = "release", !.victim = v] \in DrainerStates
           /\ [r EXCEPT !.pc = "phased"] \in DrainerStates
           /\ r.batch \in SUBSET Leases
BY DEF DrainerStates, Idle, Draining

\* newGovernor builds a well-typed state.
LEMMA InitTypeOK == Init => TypeOK
<1> SUFFICES ASSUME Init PROVE TypeOK
    OBVIOUS
<1>1. lease \in [Leases -> LeaseStates]
    BY DEF Init, LeaseStates
<1>2. term \in [Leases -> TermStates]
    BY DEF Init, TermStates
<1>3. drainer \in [Drainers -> DrainerStates]
    BY DEF Init, DrainerStates, Idle
<1>4. peer \in [PeerLeases -> [state : {"free", "open", "closed"},
                                id : PeerIDs \cup {None},
                                attempts : SUBSET Leases]]
    BY DEF Init
<1>5. /\ trip \in BOOLEAN /\ closing \in BOOLEAN /\ closed \in BOOLEAN
      /\ tripDraining \in BOOLEAN /\ fault \in BOOLEAN
    BY Zenon DEF Init
<1>6. /\ finalizing \in Int /\ heavyweight \in Int
      /\ peers \in [PeerIDs -> PeerLeases \cup {None}]
      /\ attempts \in [AttemptIDs -> Leases \cup {None}]
    BY DEF Init
<1>7. QED
    BY <1>1, <1>2, <1>3, <1>4, <1>5, <1>6 DEF TypeOK

\* Admission keeps the types.
LEMMA AdmitType ==
    ASSUME TypeOK, Admit
    PROVE  TypeOK'
<1>1. ASSUME NEW p \in PeerLeases, NEW id \in PeerIDs, AcquirePeer(p, id)
      PROVE  TypeOK'
  <2>1. peer' \in [PeerLeases -> PeerStates]
    <3>1. [peer[p] EXCEPT !.state = "open", !.id = id] \in PeerStates
        BY DEF TypeOK, PeerStates
    <3>2. peer' = [peer EXCEPT ![p] = [@ EXCEPT !.state = "open", !.id = id]]
        BY <1>1 DEF AcquirePeer, TypeOK
    <3>3. QED BY <3>1, <3>2 DEF TypeOK, PeerStates
  <2>2. peers' \in [PeerIDs -> PeerLeases \cup {None}]
    BY <1>1 DEF AcquirePeer, TypeOK
  <2>3. QED BY <1>1, <2>1, <2>2 DEF AcquirePeer, TypeOK, PeerStates, flags
<1>2. ASSUME NEW l \in Leases, NEW p \in PeerLeases, NEW id \in AttemptIDs,
             NEW cost \in Costs, NEW heavy \in BOOLEAN, NEW loopback \in BOOLEAN,
             AcquireAttempt(l, p, id, cost, heavy, loopback)
      PROVE  TypeOK'
  <2>1. lease' \in [Leases -> LeaseStates]
    <3>1. cost \in Nat BY GovernorConstants
    <3>2. ASSUME NEW r \in LeaseStates
          PROVE  [r EXCEPT !.state = "active", !.peer = p, !.id = id,
                           !.cost = cost, !.heavy = heavy,
                           !.loopback = loopback] \in LeaseStates
        BY <3>1 DEF LeaseStates
    <3>3. [lease[l] EXCEPT !.state = "active", !.peer = p, !.id = id,
                           !.cost = cost, !.heavy = heavy,
                           !.loopback = loopback] \in LeaseStates
        BY <3>2 DEF TypeOK
    <3>4. lease' = [lease EXCEPT ![l] =
                      [@ EXCEPT !.state = "active", !.peer = p, !.id = id,
                                !.cost = cost, !.heavy = heavy,
                                !.loopback = loopback]]
        BY <1>2 DEF AcquireAttempt, TypeOK, LeaseStates
    <3>5. QED BY <3>3, <3>4 DEF TypeOK
  <2>2. heavyweight' \in Int
    BY <1>2 DEF AcquireAttempt, TypeOK
  <2>3. QED BY <1>2, <2>1, <2>2 DEF AcquireAttempt, TypeOK, flags
<1>3. ASSUME NEW p \in PeerLeases, NEW id \in AttemptIDs, NEW cost \in Costs,
             NEW heavy \in BOOLEAN, NEW loopback \in BOOLEAN,
             RefuseOverLimit(p, id, cost, heavy, loopback)
      PROVE  TypeOK'
  <2>1. TripLocked(drainer, term) BY <1>3 DEF RefuseOverLimit
  <2>2. drainer \in [Drainers -> DrainerStates] /\ term \in [Leases -> TermStates]
    BY DEF TypeOK
  <2>3. QED BY <1>3, <2>1, <2>2, TripLockedType
            DEF RefuseOverLimit, TypeOK, registry
<1>4. QED BY <1>1, <1>2, <1>3 DEF Admit

\* So does registering a drain.
LEMMA DrainRegistrationType ==
    ASSUME TypeOK, NEW l \in Leases,
           RegisterDrain(l) \/ RegisterAccounting(l)
    PROVE  TypeOK'
<1>0. lease[l] \in LeaseStates BY DEF TypeOK
<1>1. CASE RegisterDrain(l)
  <2>1. [lease[l] EXCEPT !.net = lease[l].net + 1] \in LeaseStates
    BY <1>0 DEF LeaseStates
  <2>2. lease' = [lease EXCEPT ![l] = [@ EXCEPT !.net = lease[l].net + 1]]
    BY <1>1 DEF RegisterDrain, TypeOK
  <2>3. lease' \in [Leases -> LeaseStates]
    BY <2>1, <2>2 DEF TypeOK
  <2>4. QED BY <1>1, <2>3 DEF RegisterDrain, TypeOK, flags, registry
<1>2. CASE RegisterAccounting(l)
  <2>1. [lease[l] EXCEPT !.acct = TRUE, !.acctUsed = TRUE] \in LeaseStates
    BY <1>0 DEF LeaseStates
  <2>2. lease' = [lease EXCEPT ![l] = [@ EXCEPT !.acct = TRUE, !.acctUsed = TRUE]]
    BY <1>2 DEF RegisterAccounting, TypeOK
  <2>3. lease' \in [Leases -> LeaseStates]
    BY <2>1, <2>2 DEF TypeOK
  <2>4. QED BY <1>2, <2>3 DEF RegisterAccounting, TypeOK, flags, registry
<1>3. QED BY <1>1, <1>2

\* attemptDrain.Complete keeps the types, with n drains left.
LEMMA CompletedType ==
    ASSUME TypeOK, NEW l \in Leases, NEW n \in Nat, NEW a \in BOOLEAN,
           NEW t \in [Leases -> TermStates], Completed(l, n, a, t)
    PROVE  lease' \in [Leases -> LeaseStates] /\ term' \in [Leases -> TermStates]
<1>0. lease[l] \in LeaseStates /\ t[l] \in TermStates BY DEF TypeOK
<1>1. lease' \in [Leases -> LeaseStates]
  <2> DEFINE q == lease[l].drained \/ (lease[l].stopping /\ n = 0 /\ ~a)
  <2>1. q \in BOOLEAN OBVIOUS
  <2>2. ASSUME NEW r \in LeaseStates, NEW z \in BOOLEAN
        PROVE  [r EXCEPT !.net = n, !.acct = a, !.drained = z] \in LeaseStates
    BY DEF LeaseStates
  <2>3. [lease[l] EXCEPT !.net = n, !.acct = a, !.drained = q] \in LeaseStates
    BY <1>0, <2>1, <2>2
  <2>4. lease' = [lease EXCEPT ![l] =
                    [@ EXCEPT !.net = n, !.acct = a, !.drained = q]]
    BY <1>0 DEF Completed, TypeOK, LeaseStates
  <2>5. QED BY <2>3, <2>4 DEF TypeOK
<1>2. term' \in [Leases -> TermStates]
  <2> DEFINE p == t[l].netClosed \/ n = 0
             q == t[l].acctClosed \/ ~a
  <2>1. p \in BOOLEAN /\ q \in BOOLEAN OBVIOUS
  <2>2. ASSUME NEW r \in TermStates, NEW y \in BOOLEAN, NEW z \in BOOLEAN
        PROVE  [r EXCEPT !.netClosed = y, !.acctClosed = z] \in TermStates
    BY DEF TermStates
  <2>3. [t[l] EXCEPT !.netClosed = p, !.acctClosed = q] \in TermStates
    BY <1>0, <2>1, <2>2
  <2>4. \/ term' = t
        \/ term' = [t EXCEPT ![l] = [@ EXCEPT !.netClosed = p, !.acctClosed = q]]
    BY <1>0 DEF Completed, TermStates
  <2>5. QED BY <2>3, <2>4
<1>3. QED BY <1>1, <1>2

\* The same, for one network drain.
LEMMA CompleteDrainType ==
    ASSUME TypeOK, NEW l \in Leases, CompleteDrain(l)
    PROVE  TypeOK'
<1>1. lease[l].net - 1 \in Nat /\ lease[l].acct \in BOOLEAN
    BY DEF CompleteDrain, TypeOK, LeaseStates
<1>2. term \in [Leases -> TermStates] BY DEF TypeOK
<1>3. lease' \in [Leases -> LeaseStates] /\ term' \in [Leases -> TermStates]
    BY <1>1, <1>2, CompletedType DEF CompleteDrain
<1>4. QED BY <1>3 DEF CompleteDrain, TypeOK, flags, registry

\* Governor.Trip keeps the types.
LEMMA TripType == ASSUME TypeOK, Trip PROVE TypeOK'
<1>1. drainer \in [Drainers -> DrainerStates] /\ term \in [Leases -> TermStates]
    BY DEF TypeOK
<1>2. QED BY <1>1, TripLockedType DEF Trip, TypeOK, registry

\* So do the callers that begin a close.
LEMMA CloseTypes ==
    ASSUME TypeOK,
           \/ \E l \in Leases : CloseAttempt(l) \/ CloseLoopback(l)
           \/ \E p \in PeerLeases : ClosePeer(p)
           \/ CloseGovernor
    PROVE  TypeOK'
<1>0. drainer \in [Drainers -> DrainerStates] /\ term \in [Leases -> TermStates]
    BY DEF TypeOK
<1>d. ASSUME NEW S \in SUBSET Leases, NEW d,
             drainer' = [drainer EXCEPT ![d] = Draining(S)]
      PROVE  drainer' \in [Drainers -> DrainerStates]
  <2>1. Draining(S) \in DrainerStates BY DEF Draining, DrainerStates
  <2>2. QED BY <1>0, <1>d, <2>1
<1>1. ASSUME NEW l \in Leases, CloseAttempt(l) PROVE TypeOK'
  <2>1. {l} \in SUBSET Leases OBVIOUS
  <2>2. drainer' \in [Drainers -> DrainerStates]
    BY <1>1, <1>d, <2>1 DEF CloseAttempt
  <2>3. QED BY <1>0, <1>1, <2>1, <2>2, BeginStoppingType
            DEF CloseAttempt, TypeOK, flags, registry
<1>2. ASSUME NEW l \in Leases, CloseLoopback(l) PROVE TypeOK'
  <2>1. {l} \in SUBSET Leases OBVIOUS
  <2>2. QED BY <1>0, <1>2, <2>1, BeginStoppingType
            DEF CloseLoopback, TypeOK, flags, registry
<1>3. ASSUME NEW p \in PeerLeases, ClosePeer(p) PROVE TypeOK'
  <2>1. peer[p].attempts \in SUBSET Leases BY DEF TypeOK
  <2>2. drainer' \in [Drainers -> DrainerStates]
    BY <1>3, <1>d, <2>1 DEF ClosePeer
  <2>3. peer' \in [PeerLeases -> PeerStates]
    <3>1. [peer[p] EXCEPT !.state = "closed"] \in PeerStates
        BY DEF TypeOK, PeerStates
    <3>2. peer' = [peer EXCEPT ![p] = [@ EXCEPT !.state = "closed"]]
        BY <1>3 DEF ClosePeer
    <3>3. QED BY <3>1, <3>2 DEF TypeOK, PeerStates
  <2>4. QED BY <1>0, <1>3, <2>1, <2>2, <2>3, BeginStoppingType
            DEF ClosePeer, TypeOK, PeerStates, flags
<1>4. ASSUME CloseGovernor PROVE TypeOK'
  <2>1. Registered \in SUBSET Leases BY DEF Registered
  <2>2. drainer' \in [Drainers -> DrainerStates]
    BY <1>4, <1>d, <2>1 DEF CloseGovernor
  <2>3. QED BY <1>0, <1>4, <2>1, <2>2, BeginStoppingType
            DEF CloseGovernor, TypeOK, registry
<1>5. QED BY <1>1, <1>2, <1>3, <1>4

\* So does a caller inside drainAttempts.
LEMMA DrainType ==
    ASSUME TypeOK, NEW d \in Drainers, Drain(d)
    PROVE  TypeOK'
<1>0. /\ drainer \in [Drainers -> DrainerStates] /\ term \in [Leases -> TermStates]
      /\ drainer[d] \in DrainerStates
    BY DEF TypeOK
<1>1. CASE DrainExpires(d)
  <2>1. PICK v \in Undrained(d) :
           drainer' = [drainer EXCEPT ![d].pc = "expired", ![d].victim = v]
    BY <1>1 DEF DrainExpires
  <2>2. v \in Leases
    BY <1>0 DEF Undrained, Ordinary, DrainerStates
  <2>3. [drainer[d] EXCEPT !.pc = "expired", !.victim = v] \in DrainerStates
    BY <1>0, <2>2 DEF DrainerStates
  <2>4. drainer' = [drainer EXCEPT ![d] = [@ EXCEPT !.pc = "expired", !.victim = v]]
    BY <1>0, <2>1 DEF DrainerStates
  <2>5. drainer' \in [Drainers -> DrainerStates]
    BY <1>0, <2>3, <2>4
  <2>6. QED BY <1>1, <2>5 DEF DrainExpires, TypeOK, flags, registry
<1>2. CASE DrainTrips(d)
  <2> DEFINE next == [drainer EXCEPT ![d].pc = "release", ![d].victim = None]
  <2>1. [drainer[d] EXCEPT !.pc = "release", !.victim = None] \in DrainerStates
    BY <1>0 DEF DrainerStates
  <2>2. next = [drainer EXCEPT ![d] = [@ EXCEPT !.pc = "release", !.victim = None]]
    BY <1>0 DEF DrainerStates
  <2>3. next \in [Drainers -> DrainerStates]
    BY <1>0, <2>1, <2>2
  <2>4. CASE TripLocked(next, term)
    BY <1>0, <1>2, <2>3, <2>4, TripLockedType DEF DrainTrips, TypeOK, registry
  <2>5. CASE drainer' = next /\ UNCHANGED <<trip, tripDraining, finalizing, lease, term>>
    BY <1>2, <2>3, <2>5 DEF DrainTrips, TypeOK, registry
  <2>6. QED BY <1>2, <2>4, <2>5 DEF DrainTrips
<1>3. CASE DrainReleases(d)
  <2>1. Ordinary(drainer[d].batch) \in SUBSET Leases
    BY <1>0 DEF Ordinary, DrainerStates
  <2>2. Idle \in DrainerStates /\ [drainer[d] EXCEPT !.pc = "phased"] \in DrainerStates
    BY <1>0 DEF Idle, DrainerStates
  <2>3. drainer' \in [Drainers -> DrainerStates]
    BY <1>0, <1>3, <2>2 DEF DrainReleases
  <2>4. Release(Ordinary(drainer[d].batch))
    BY <1>3 DEF DrainReleases
  <2>5. QED BY <1>3, <2>1, <2>3, <2>4, ReleaseType DEF DrainReleases, TypeOK, flags
<1>4. QED BY <1>1, <1>2, <1>3 DEF Drain

\* So do the ends of the three closes and of a trip.
LEMMA FinishTypes ==
    ASSUME TypeOK,
           \/ \E p \in PeerLeases : FinishPeerClose(p)
           \/ FinishTripDrain \/ CloseRefused \/ CloseCompletes
    PROVE  TypeOK'
<1>d. ASSUME NEW d, drainer' = [drainer EXCEPT ![d] = Idle]
      PROVE  drainer' \in [Drainers -> DrainerStates]
  <2>1. Idle \in DrainerStates BY DEF Idle, DrainerStates
  <2>2. QED BY <1>d, <2>1 DEF TypeOK
<1>p. ASSUME NEW p \in PeerLeases
      PROVE  /\ [peer[p] EXCEPT !.state = "closed"] \in PeerStates
             /\ [peer[p] EXCEPT !.state = "closed", !.attempts = {}] \in PeerStates
    BY DEF TypeOK, PeerStates
<1>1. ASSUME NEW p \in PeerLeases, FinishPeerClose(p) PROVE TypeOK'
  <2>1. peers' \in [PeerIDs -> PeerLeases \cup {None}]
    BY <1>1 DEF FinishPeerClose, TypeOK
  <2>2. drainer' \in [Drainers -> DrainerStates]
    BY <1>1, <1>d DEF FinishPeerClose
  <2>3. QED BY <1>1, <2>1, <2>2 DEF FinishPeerClose, TypeOK, flags
<1>2. ASSUME FinishTripDrain PROVE TypeOK'
  <2>1. peers' \in [PeerIDs -> PeerLeases \cup {None}]
    BY <1>2 DEF FinishTripDrain, TypeOK
  <2>2. drainer' \in [Drainers -> DrainerStates]
    BY <1>2, <1>d DEF FinishTripDrain
  <2>3. peer' \in [PeerLeases -> PeerStates]
    BY <1>2, <1>p DEF FinishTripDrain, TypeOK, PeerStates
  <2>4. tripDraining' \in BOOLEAN
    BY <1>2 DEF FinishTripDrain
  <2>5. QED BY <1>2, <2>1, <2>2, <2>3, <2>4 DEF FinishTripDrain, TypeOK, PeerStates
<1>3. ASSUME CloseRefused PROVE TypeOK'
  <2>1. drainer' \in [Drainers -> DrainerStates]
    BY <1>3, <1>d DEF CloseRefused
  <2>2. closing' \in BOOLEAN BY <1>3 DEF CloseRefused
  <2>3. QED BY <1>3, <2>1, <2>2 DEF CloseRefused, TypeOK, registry
<1>4. ASSUME CloseCompletes PROVE TypeOK'
  <2>1. peers' \in [PeerIDs -> PeerLeases \cup {None}]
        /\ attempts' \in [AttemptIDs -> Leases \cup {None}]
    BY <1>4 DEF CloseCompletes
  <2>2. drainer' \in [Drainers -> DrainerStates]
    BY <1>4, <1>d DEF CloseCompletes
  <2>3. peer' \in [PeerLeases -> PeerStates]
    BY <1>4, <1>p DEF CloseCompletes, TypeOK, PeerStates
  <2>4. lease' \in [Leases -> LeaseStates]
    <3>1. ASSUME NEW l \in Leases
          PROVE  [lease[l] EXCEPT !.state = "closed", !.stopping = TRUE]
                    \in LeaseStates
        BY LeaseUpdates DEF TypeOK
    <3>2. QED BY <1>4, <3>1 DEF CloseCompletes, TypeOK
  <2>5. closed' \in BOOLEAN BY <1>4 DEF CloseCompletes
  <2>6. heavyweight' \in Int
    <3>1. heavyweight' = 0 BY <1>4, Zenon DEF CloseCompletes
    <3>2. QED BY <3>1
  <2>7. QED BY <1>4, <2>1, <2>2, <2>3, <2>4, <2>5, <2>6
            DEF CloseCompletes, TypeOK, PeerStates
<1>5. QED BY <1>1, <1>2, <1>3, <1>4

\* So does the journal writer.
LEMMA WriterTypes ==
    ASSUME TypeOK, NEW l \in Leases,
           WriterStarts(l) \/ WriterFinishes(l) \/ WriterCompletes(l)
    PROVE  TypeOK'
<1>0. term \in [Leases -> TermStates] /\ term[l] \in TermStates BY DEF TypeOK
<1>1. CASE WriterStarts(l)
  <2> DEFINE t == [term EXCEPT ![l].writer = "started"]
  <2>1. [term[l] EXCEPT !.writer = "started"] \in TermStates
    BY <1>0 DEF TermStates
  <2>2. t \in [Leases -> TermStates] BY <1>0, <2>1
  <2>3. {l} \in SUBSET Leases OBVIOUS
  <2>4. BeginStopping({l}, t) BY <1>1 DEF WriterStarts
  <2>5. QED BY <1>1, <2>2, <2>3, <2>4, BeginStoppingType
            DEF WriterStarts, TypeOK, flags, registry
<1>2. CASE WriterFinishes(l)
  <2>1. PICK ok \in BOOLEAN :
           /\ term' = [term EXCEPT ![l].writer = "recorded",
                                   ![l].finishErr = @ \/ ~ok]
           /\ fault' = (fault \/ ~ok)
    BY <1>2 DEF WriterFinishes
  <2> DEFINE e == term[l].finishErr \/ ~ok
  <2>2. e \in BOOLEAN OBVIOUS
  <2>3. [term[l] EXCEPT !.writer = "recorded", !.finishErr = e] \in TermStates
    BY <1>0, <2>2 DEF TermStates
  <2>4. term' = [term EXCEPT ![l] = [@ EXCEPT !.writer = "recorded", !.finishErr = e]]
    BY <1>0, <2>1 DEF TermStates
  <2>5. term' \in [Leases -> TermStates] BY <1>0, <2>3, <2>4
  <2>6. fault' \in BOOLEAN BY <2>1
  <2>7. QED BY <1>2, <2>5, <2>6 DEF WriterFinishes, TypeOK, flags, registry
<1>3. CASE WriterCompletes(l)
  <2> DEFINE t == [term EXCEPT ![l].writer = "done"]
  <2>1. [term[l] EXCEPT !.writer = "done"] \in TermStates
    BY <1>0 DEF TermStates
  <2>2. t \in [Leases -> TermStates] BY <1>0, <2>1
  <2>3. lease[l].net \in Nat /\ FALSE \in BOOLEAN BY DEF TypeOK, LeaseStates
  <2>4. Completed(l, lease[l].net, FALSE, t) BY <1>3 DEF WriterCompletes
  <2>5. lease' \in [Leases -> LeaseStates] /\ term' \in [Leases -> TermStates]
    BY <2>2, <2>3, <2>4, CompletedType
  <2>6. QED BY <1>3, <2>5 DEF WriterCompletes, TypeOK, flags, registry
<1>4. QED BY <1>1, <1>2, <1>3

\* So does the manager of a loopback attempt.
LEMMA ManageType ==
    ASSUME TypeOK, NEW l \in Leases, Manage(l)
    PROVE  TypeOK'
<1>0. term \in [Leases -> TermStates] /\ term[l] \in TermStates BY DEF TypeOK
<1>r. /\ [term[l] EXCEPT !.manager = "accounting"] \in TermStates
      /\ [term[l] EXCEPT !.manager = "late"] \in TermStates
      /\ [term[l] EXCEPT !.manager = "settled"] \in TermStates
      /\ [term[l] EXCEPT !.manager = "accounting", !.netErr = TRUE] \in TermStates
      /\ [term[l] EXCEPT !.manager = "settled", !.verdict = "ok"] \in TermStates
      /\ [term[l] EXCEPT !.manager = "draining", !.verdict = "failed"] \in TermStates
    BY <1>0 DEF TermStates
<1>1. CASE ManagerNetworkDrained(l)
  <2>1. term' \in [Leases -> TermStates]
    BY <1>0, <1>1, <1>r DEF ManagerNetworkDrained
  <2>2. QED BY <1>1, <2>1 DEF ManagerNetworkDrained, TypeOK, flags, registry
<1>2. CASE ManagerNetworkExpires(l)
  <2> DEFINE t == [term EXCEPT ![l].manager = "accounting", ![l].netErr = TRUE]
  <2>1. t = [term EXCEPT ![l] = [@ EXCEPT !.manager = "accounting", !.netErr = TRUE]]
    BY <1>0 DEF TermStates
  <2>2. t \in [Leases -> TermStates] BY <1>0, <1>r, <2>1
  <2>3. drainer \in [Drainers -> DrainerStates] BY DEF TypeOK
  <2>4. TripLocked(drainer, t) BY <1>2 DEF ManagerNetworkExpires
  <2>5. QED BY <1>2, <2>2, <2>3, <2>4, TripLockedType
            DEF ManagerNetworkExpires, TypeOK, registry
<1>3. CASE ManagerSucceeds(l)
  <2>1. term' = [term EXCEPT ![l] = [@ EXCEPT !.manager = "settled", !.verdict = "ok"]]
    BY <1>0, <1>3 DEF ManagerSucceeds, TermStates
  <2>2. term' \in [Leases -> TermStates] BY <1>0, <1>r, <2>1
  <2>3. {l} \in SUBSET Leases OBVIOUS
  <2>4. Release({l}) BY <1>3 DEF ManagerSucceeds
  <2>5. finalizing' \in Int BY <1>3 DEF ManagerSucceeds, TypeOK
  <2>6. QED BY <1>3, <2>2, <2>3, <2>4, <2>5, ReleaseType
            DEF ManagerSucceeds, TypeOK, flags
<1>4. CASE ManagerFails(l)
  <2>1. term' = [term EXCEPT ![l] = [@ EXCEPT !.manager = "draining", !.verdict = "failed"]]
    BY <1>0, <1>4 DEF ManagerFails, TermStates
  <2>2. term' \in [Leases -> TermStates] BY <1>0, <1>r, <2>1
  <2>3. fault' \in BOOLEAN BY <1>4 DEF ManagerFails, TypeOK
  <2>4. QED BY <1>4, <2>2, <2>3 DEF ManagerFails, TypeOK, flags, registry
<1>5. CASE ManagerSettles(l)
  <2>1. term' \in [Leases -> TermStates]
    BY <1>0, <1>5, <1>r DEF ManagerSettles
  <2>2. QED BY <1>5, <2>1 DEF ManagerSettles, TypeOK, flags, registry
<1>6. CASE ManagerTimesOut(l)
  <2>1. term' \in [Leases -> TermStates]
    BY <1>0, <1>6, <1>r DEF ManagerTimesOut
  <2>2. QED BY <1>6, <2>1 DEF ManagerTimesOut, TypeOK, flags, registry
<1>7. QED BY <1>1, <1>2, <1>3, <1>4, <1>5, <1>6 DEF Manage

\* Every step keeps the types.
LEMMA StepTypeOK == TypeOK /\ [Next]_vars => TypeOK'
<1> SUFFICES ASSUME TypeOK, [Next]_vars PROVE TypeOK'
    OBVIOUS
<1>1. CASE UNCHANGED vars
    BY <1>1 DEF vars, flags, registry, TypeOK
<1>2. CASE Next
    BY <1>2, AdmitType, TripType, CloseTypes, FinishTypes, DrainType,
       DrainRegistrationType, CompleteDrainType, WriterTypes, ManageType DEF Next, Close, PeerClose, finishLoopback
<1>3. QED BY <1>1, <1>2

-----------------------------------------------------------------------------
(* TripStopsEverything rests on RegistryHoldsActive: a trip stops the       *)
(* registered attempts that are active, so a registered attempt that is not *)
(* active would be missed.                                                  *)

\* The facts about the leases that a step must preserve.
Guarded == RegistryHoldsActive /\ TripStopsEverything

\* A step that leaves g.attempts alone and only adds to what is stopping keeps
\* the invariant, if it trips only together with stopping what is registered.
LEMMA QuietStep ==
    ASSUME TypeOK, Guarded, attempts' = attempts,
           \A l \in Leases : /\ lease'[l].state = lease[l].state
                             /\ lease'[l].id = lease[l].id
                             /\ lease[l].stopping => lease'[l].stopping,
           trip' => trip \/ \A l \in Registered : lease'[l].stopping
    PROVE  Guarded'
<1>1. RegistryHoldsActive'
    BY DEF Guarded, RegistryHoldsActive, TypeOK
<1>2. TripStopsEverything'
    BY DEF Guarded, TripStopsEverything, Registered
<1>3. QED BY <1>1, <1>2 DEF Guarded

\* beginAttemptStoppingLocked is such a step.
LEMMA StoppingStep ==
    ASSUME TypeOK, Guarded, NEW S \in SUBSET Leases, NEW t, BeginStopping(S, t),
           UNCHANGED <<attempts, trip>>
    PROVE  Guarded'
BY BeginStoppingEffect, QuietStep

\* So is tripLocked, whatever else its caller changes.
LEMMA TripLockedStep ==
    ASSUME TypeOK, Guarded, NEW d, NEW t, TripLocked(d, t), attempts' = attempts
    PROVE  Guarded'
<1>1. CASE closed
    BY <1>1, QuietStep DEF TripLocked
<1>2. CASE ~closed
  <2>1. BeginStopping(Registered, t) BY <1>2 DEF TripLocked
  <2>2. Registered \in SUBSET Leases BY DEF Registered
  <2>3. \A l \in Registered : l \in Leases /\ lease[l].state = "active"
    BY NoneIsNoLease DEF Registered, Guarded, RegistryHoldsActive
  <2>4. \A l \in Registered : lease'[l].stopping
    BY <2>1, <2>2, <2>3, BeginStoppingEffect
  <2>5. QED BY <2>1, <2>2, <2>4, BeginStoppingEffect, QuietStep
<1>3. QED BY <1>1, <1>2

\* releaseAttemptLocked frees the id of every attempt it closes.
LEMMA ReleaseStep ==
    ASSUME TypeOK, Guarded, NEW S \in SUBSET Leases, Release(S), UNCHANGED trip
    PROVE  Guarded'
<1> DEFINE now == {l \in S : lease[l].state = "active"}
<1>1. /\ \A l \in Leases : l \notin now => lease'[l] = lease[l]
      /\ \A id \in AttemptIDs :
            attempts'[id] = IF \E l \in now : lease[l].id = id
                            THEN None ELSE attempts[id]
    BY DEF Release
<1>2. ASSUME NEW id \in AttemptIDs, attempts'[id] # None
      PROVE  /\ attempts'[id] = attempts[id]
             /\ attempts[id] \in Leases
             /\ lease'[attempts[id]] = lease[attempts[id]]
  <2>1. attempts'[id] = attempts[id] /\ ~\E l \in now : lease[l].id = id
    BY <1>1, <1>2
  <2>2. attempts[id] \in Leases /\ lease[attempts[id]].id = id
    BY <1>2, <2>1 DEF TypeOK, Guarded, RegistryHoldsActive
  <2>3. QED BY <1>1, <2>1, <2>2
<1>3. RegistryHoldsActive'
    BY <1>2 DEF Guarded, RegistryHoldsActive
<1>4. TripStopsEverything'
    BY <1>2, NoneIsNoLease DEF Guarded, TripStopsEverything, Registered
<1>5. QED BY <1>3, <1>4 DEF Guarded

\* acquireAttempt registers an attempt under its own id, and only untripped.
LEMMA AcquireStep ==
    ASSUME TypeOK, Guarded, NEW l \in Leases, NEW p \in PeerLeases,
           NEW id \in AttemptIDs, NEW cost, NEW heavy, NEW loopback,
           AcquireAttempt(l, p, id, cost, heavy, loopback)
    PROVE  Guarded'
<1>1. /\ \A k \in Leases : k # l => lease'[k] = lease[k]
      /\ lease'[l].state = "active" /\ lease'[l].id = id
      /\ lease[l].state = "free"
    BY DEF AcquireAttempt, TypeOK, LeaseStates
<1>2. attempts' = [attempts EXCEPT ![id] = l] /\ ~trip /\ trip' = trip
    BY DEF AcquireAttempt, MayAcquire, flags
<1>3. RegistryHoldsActive'
  <2> SUFFICES ASSUME NEW i \in AttemptIDs, attempts'[i] # None
               PROVE  /\ lease'[attempts'[i]].state = "active"
                      /\ lease'[attempts'[i]].id = i
      BY DEF RegistryHoldsActive
  <2>1. CASE i = id BY <1>1, <1>2, <2>1 DEF TypeOK
  <2>2. CASE i # id
    <3>1. attempts'[i] = attempts[i] /\ attempts[i] \in Leases
      BY <1>2, <2>2 DEF TypeOK
    <3>2. /\ lease[attempts[i]].state = "active"
          /\ lease[attempts[i]].id = i
      BY <3>1 DEF Guarded, RegistryHoldsActive
    <3>3. QED BY <1>1, <3>1, <3>2
  <2>3. QED BY <2>1, <2>2
<1>4. TripStopsEverything' BY <1>2 DEF TripStopsEverything
<1>5. QED BY <1>3, <1>4 DEF Guarded

\* attemptDrain.Complete touches no registration and stops nothing.
LEMMA CompletedStep ==
    ASSUME TypeOK, Guarded, NEW l \in Leases, NEW n, NEW a, NEW t,
           Completed(l, n, a, t), UNCHANGED <<attempts, trip>>
    PROVE  Guarded'
<1>1. \A k \in Leases : /\ lease'[k].state = lease[k].state
                        /\ lease'[k].id = lease[k].id
                        /\ lease'[k].stopping = lease[k].stopping
    BY DEF Completed, TypeOK, LeaseStates
<1>2. QED BY <1>1, QuietStep

\* A step that touches neither a lease, nor g.attempts, nor the trip.
LEMMA IdleStep ==
    ASSUME TypeOK, Guarded, UNCHANGED <<lease, attempts, trip>>
    PROVE  Guarded'
BY QuietStep

\* Every step keeps the registry active and stopping after a trip.
LEMMA StepGuarded ==
    ASSUME TypeOK, Guarded, [Next]_vars
    PROVE  Guarded'
<1>1. CASE UNCHANGED vars
    BY <1>1, IdleStep DEF vars, flags, registry
<1>2. CASE Admit
  <2>1. CASE \E p \in PeerLeases, id \in PeerIDs : AcquirePeer(p, id)
    BY <2>1, IdleStep DEF AcquirePeer, flags
  <2>2. CASE \E p \in PeerLeases, id \in AttemptIDs, cost \in Costs,
                heavy, loopback \in BOOLEAN, l \in Leases :
                AcquireAttempt(l, p, id, cost, heavy, loopback)
    BY <2>2, AcquireStep
  <2>3. CASE \E p \in PeerLeases, id \in AttemptIDs, cost \in Costs,
                heavy, loopback \in BOOLEAN :
                RefuseOverLimit(p, id, cost, heavy, loopback)
    BY <2>3, TripLockedStep DEF RefuseOverLimit, registry
  <2>4. QED BY <1>2, <2>1, <2>2, <2>3 DEF Admit
<1>3. CASE Trip
    BY <1>3, TripLockedStep DEF Trip, registry
<1>4. CASE CloseGovernor
  <2>1. Registered \in SUBSET Leases BY DEF Registered
  <2>2. QED BY <1>4, <2>1, StoppingStep DEF CloseGovernor, registry
<1>5. CASE CloseRefused \/ FinishTripDrain
    BY <1>5, IdleStep DEF CloseRefused, FinishTripDrain, registry
<1>6. CASE CloseCompletes
  <2>1. \A id \in AttemptIDs : attempts'[id] = None
    BY <1>6 DEF CloseCompletes
  <2>2. RegistryHoldsActive' BY <2>1 DEF RegistryHoldsActive
  <2>3. TripStopsEverything'
    BY <2>1, NoneIsNoLease DEF TripStopsEverything, Registered
  <2>4. QED BY <2>2, <2>3 DEF Guarded
<1>7. ASSUME NEW p \in PeerLeases, ClosePeer(p) \/ FinishPeerClose(p)
      PROVE  Guarded'
  <2>1. CASE ClosePeer(p)
    <3>1. peer[p].attempts \in SUBSET Leases BY DEF TypeOK
    <3>2. QED BY <2>1, <3>1, StoppingStep DEF ClosePeer, flags
  <2>2. CASE FinishPeerClose(p)
    BY <2>2, IdleStep DEF FinishPeerClose, flags
  <2>3. QED BY <1>7, <2>1, <2>2
<1>8. ASSUME NEW d \in Drainers, Drain(d) PROVE Guarded'
  <2>1. CASE DrainExpires(d)
    BY <2>1, IdleStep DEF DrainExpires, flags, registry
  <2>2. CASE DrainTrips(d)
    BY <2>2, TripLockedStep, IdleStep DEF DrainTrips, registry
  <2>3. CASE DrainReleases(d)
    <3>1. Ordinary(drainer[d].batch) \in SUBSET Leases
      BY DEF TypeOK, DrainerStates, Ordinary
    <3>2. QED BY <2>3, <3>1, ReleaseStep DEF DrainReleases, flags
  <2>4. QED BY <1>8, <2>1, <2>2, <2>3 DEF Drain
<1>9. ASSUME NEW l \in Leases,
             RegisterDrain(l) \/ RegisterAccounting(l) \/ CompleteDrain(l)
      PROVE  Guarded'
  <2>1. CASE RegisterDrain(l) \/ RegisterAccounting(l)
    <3>1. \A k \in Leases : /\ lease'[k].state = lease[k].state
                            /\ lease'[k].id = lease[k].id
                            /\ lease'[k].stopping = lease[k].stopping
      BY <2>1 DEF RegisterDrain, RegisterAccounting, TypeOK, LeaseStates
    <3>2. attempts' = attempts /\ trip' = trip
      BY <2>1 DEF RegisterDrain, RegisterAccounting, flags, registry
    <3>3. QED BY <3>1, <3>2, QuietStep
  <2>2. CASE CompleteDrain(l)
    BY <2>2, CompletedStep DEF CompleteDrain, flags, registry
  <2>3. QED BY <1>9, <2>1, <2>2
<1>10. ASSUME NEW l \in Leases,
              CloseAttempt(l) \/ CloseLoopback(l) \/ WriterStarts(l)
       PROVE  Guarded'
  <2>1. {l} \in SUBSET Leases OBVIOUS
  <2>2. QED BY <1>10, <2>1, StoppingStep
            DEF CloseAttempt, CloseLoopback, WriterStarts, flags, registry
<1>11. ASSUME NEW l \in Leases, WriterFinishes(l) \/ WriterCompletes(l)
       PROVE  Guarded'
  <2>1. CASE WriterFinishes(l)
    BY <2>1, IdleStep DEF WriterFinishes, flags, registry
  <2>2. CASE WriterCompletes(l)
    BY <2>2, CompletedStep DEF WriterCompletes, flags, registry
  <2>3. QED BY <1>11, <2>1, <2>2
<1>12. ASSUME NEW l \in Leases, Manage(l) PROVE Guarded'
  <2>1. CASE \/ ManagerNetworkDrained(l) \/ ManagerTimesOut(l)
             \/ ManagerFails(l) \/ ManagerSettles(l)
    BY <2>1, IdleStep DEF ManagerNetworkDrained, ManagerTimesOut, ManagerFails,
                          ManagerSettles, flags, registry
  <2>2. CASE ManagerNetworkExpires(l)
    BY <2>2, TripLockedStep DEF ManagerNetworkExpires, registry
  <2>3. CASE ManagerSucceeds(l)
    <3>1. {l} \in SUBSET Leases OBVIOUS
    <3>2. QED BY <2>3, <3>1, ReleaseStep DEF ManagerSucceeds, flags
  <2>4. QED BY <1>12, <2>1, <2>2, <2>3 DEF Manage
<1>13. QED
    BY <1>1, <1>2, <1>3, <1>4, <1>5, <1>6, <1>7, <1>8, <1>9, <1>10, <1>11, <1>12
       DEF Next, Close, PeerClose, finishLoopback

\* Initially nothing is registered.
LEMMA InitGuarded == Init => Guarded
BY NoneIsNoLease DEF Init, Guarded, RegistryHoldsActive, TripStopsEverything

-----------------------------------------------------------------------------
(* Lease objects and their terminals *)

\* beginAttemptStoppingLocked on one attempt.
LEMMA SoundStop ==
    ASSUME NEW r \in LeaseStates, NEW t \in TermStates, Sound(r, t),
           r.state = "active", ~r.stopping, NEW q \in BOOLEAN,
           q <=> r.net = 0 /\ ~r.acct
    PROVE  LET s == [r EXCEPT !.stopping = TRUE, !.drained = q]
           IN  /\ ~r.loopback => Sound(s, t)
               /\ r.loopback =>
                    Sound(s, [t EXCEPT !.manager = "network", !.netClosed = (r.net = 0),
                                       !.acctClosed = ~r.acct])
BY DEF Sound, LeaseStates, TermStates

\* beginAttemptStoppingLocked starts the manager of what it stops.
LEMMA BeginStoppingSound ==
    ASSUME TypeOK, NEW S \in SUBSET Leases, NEW t \in [Leases -> TermStates],
           \A l \in Leases : Sound(lease[l], t[l]), BeginStopping(S, t)
    PROVE  TermsSound'
<1> SUFFICES ASSUME NEW l \in Leases PROVE Sound(lease'[l], term'[l])
    BY DEF TermsSound
<1>0. lease[l] \in LeaseStates /\ t[l] \in TermStates /\ Sound(lease[l], t[l]) BY DEF TypeOK
<1>1. CASE l \notin Stoppable(S)
  <2>1. lease'[l] = lease[l] /\ term'[l] = t[l] BY <1>1 DEF BeginStopping, Phased
  <2>2. QED BY <1>0, <2>1
<1>2. CASE l \in Stoppable(S)
  <2>1. lease[l].state = "active" /\ ~lease[l].stopping BY <1>2 DEF Stoppable
  <2> DEFINE q == (Pending(l) = 0)
  <2>2. q \in BOOLEAN /\ (q <=> lease[l].net = 0 /\ ~lease[l].acct)
    BY <1>0 DEF Pending, LeaseStates
  <2>3. lease'[l] = [lease[l] EXCEPT !.stopping = TRUE, !.drained = q]
    BY <1>2 DEF BeginStopping
  <2>4. term'[l] = IF lease[l].loopback
                   THEN [t[l] EXCEPT !.manager = "network", !.netClosed = (lease[l].net = 0),
                                     !.acctClosed = ~lease[l].acct]
                   ELSE t[l]
    BY <1>2 DEF BeginStopping, Phased
  <2> HIDE DEF q
  <2> DEFINE w == [t[l] EXCEPT !.manager = "network", !.netClosed = (lease[l].net = 0),
                               !.acctClosed = ~lease[l].acct]
  <2>5. /\ ~lease[l].loopback => Sound([lease[l] EXCEPT !.stopping = TRUE, !.drained = q], t[l])
        /\ lease[l].loopback => Sound([lease[l] EXCEPT !.stopping = TRUE, !.drained = q], w)
    BY <1>0, <2>1, <2>2, SoundStop
  <2>6. term'[l] = IF lease[l].loopback THEN w ELSE t[l] BY <2>4
  <2> HIDE DEF w
  <2>7. QED BY <2>3, <2>5, <2>6
<1>3. QED BY <1>1, <1>2

\* So does tripLocked, through it.
LEMMA TripLockedSound ==
    ASSUME TypeOK, NEW d, NEW t \in [Leases -> TermStates],
           \A l \in Leases : Sound(lease[l], t[l]), TripLocked(d, t)
    PROVE  TermsSound'
<1>1. CASE closed
    BY <1>1 DEF TripLocked, TermsSound
<1>2. CASE ~closed
  <2>1. BeginStopping(Registered, t) BY <1>2 DEF TripLocked
  <2>2. Registered \in SUBSET Leases BY DEF Registered
  <2>3. QED BY <2>1, <2>2, BeginStoppingSound
<1>3. QED BY <1>1, <1>2

\* The other steps of one attempt: admission, drains, release, writer, manager.
LEMMA SoundAcquire ==
    ASSUME NEW r \in LeaseStates, NEW t \in TermStates, Sound(r, t), r.state = "free",
           NEW p, NEW id, NEW cost, NEW heavy, NEW loopback \in BOOLEAN
    PROVE  Sound([r EXCEPT !.state = "active", !.peer = p, !.id = id, !.cost = cost,
                           !.heavy = heavy, !.loopback = loopback], t)
BY DEF Sound, LeaseStates, TermStates

\* Registering a drain.
LEMMA SoundRegister ==
    ASSUME NEW r \in LeaseStates, NEW t \in TermStates, Sound(r, t), r.state = "active",
           ~r.stopping
    PROVE  /\ Sound([r EXCEPT !.net = r.net + 1], t)
           /\ r.loopback /\ ~r.acctUsed => Sound([r EXCEPT !.acct = TRUE, !.acctUsed = TRUE], t)
BY DEF Sound, LeaseStates, TermStates

\* Completing one, the last one included.
LEMMA SoundComplete ==
    ASSUME NEW r \in LeaseStates, NEW t \in TermStates, Sound(r, t),
           NEW n \in Nat, n <= r.net, NEW a \in BOOLEAN, a => r.acct,
           NEW w \in TermStates, a <=> r.acctUsed /\ w.writer # "done",
           w.writer # "none" => r.acctUsed,
           w.manager = t.manager, w.verdict = t.verdict, w.netErr = t.netErr,
           w.finishErr = t.finishErr, w.netClosed = t.netClosed, w.acctClosed = t.acctClosed,
           NEW q \in BOOLEAN, q <=> r.drained \/ (r.stopping /\ n = 0 /\ ~a),
           NEW y \in BOOLEAN, y <=> t.netClosed \/ n = 0,
           NEW z \in BOOLEAN, z <=> t.acctClosed \/ ~a
    PROVE  LET s == [r EXCEPT !.net = n, !.acct = a, !.drained = q]
           IN  /\ r.loopback /\ r.stopping =>
                     Sound(s, [w EXCEPT !.netClosed = y, !.acctClosed = z])
               /\ ~(r.loopback /\ r.stopping) => Sound(s, w)
BY DEF Sound, LeaseStates, TermStates

\* Releasing an attempt whose drains are done, or an ordinary one.
LEMMA SoundRelease ==
    ASSUME NEW r \in LeaseStates, NEW t \in TermStates, Sound(r, t), r.state = "active",
           r.loopback => t.manager = "settled"
    PROVE  Sound([r EXCEPT !.state = "closed", !.stopping = TRUE], t)
BY DEF Sound, LeaseStates, TermStates

\* A step of the journal writer.
LEMMA SoundWriter ==
    ASSUME NEW r \in LeaseStates, NEW t \in TermStates, Sound(r, t), NEW e \in BOOLEAN
    PROVE  /\ r.acct => Sound(r, [t EXCEPT !.writer = "started"])
           /\ t.writer = "started" /\ t.manager \in {"accounting", "late", "draining"} =>
                 Sound(r, [t EXCEPT !.writer = "recorded", !.finishErr = e])
BY DEF Sound, LeaseStates, TermStates

\* A step of the manager.
LEMMA SoundManager ==
    ASSUME NEW r \in LeaseStates, NEW t \in TermStates, Sound(r, t)
    PROVE  /\ t.manager = "network" /\ t.netClosed => Sound(r, [t EXCEPT !.manager = "accounting"])
           /\ t.manager = "network" =>
                 Sound(r, [t EXCEPT !.manager = "accounting", !.netErr = TRUE])
           /\ t.manager = "accounting" => Sound(r, [t EXCEPT !.manager = "late"])
           /\ t.manager \in {"accounting", "late"} =>
                 Sound(r, [t EXCEPT !.manager = "draining", !.verdict = "failed"])
           /\ t.manager = "draining" /\ r.drained => Sound(r, [t EXCEPT !.manager = "settled"])
           /\ /\ t.manager = "accounting" /\ t.acctClosed /\ ~t.netErr /\ ~t.finishErr
              => LET w == [t EXCEPT !.manager = "settled", !.verdict = "ok"]
                 IN  /\ Sound(r, w)
                     /\ Sound([r EXCEPT !.state = "closed", !.stopping = TRUE], w)
BY DEF Sound, LeaseStates, TermStates

\* A step that leaves leases and terminals alone.
LEMMA SameSound == ASSUME TermsSound, UNCHANGED <<lease, term>> PROVE TermsSound'
BY DEF TermsSound

\* A step that changes one lease and its terminal.
LEMMA OneSound ==
    ASSUME TermsSound, NEW l \in Leases,
           \A k \in Leases : k # l => lease'[k] = lease[k] /\ term'[k] = term[k],
           Sound(lease'[l], term'[l])
    PROVE  TermsSound'
BY DEF TermsSound

\* acquireAttempt starts from an unused lease object.
LEMMA AcquireSound ==
    ASSUME TypeOK, TermsSound, NEW l \in Leases, NEW p, NEW id, NEW cost, NEW heavy,
           NEW loopback \in BOOLEAN, AcquireAttempt(l, p, id, cost, heavy, loopback)
    PROVE  TermsSound'
<1>0. lease[l] \in LeaseStates /\ term[l] \in TermStates /\ Sound(lease[l], term[l])
    BY DEF TypeOK, TermsSound
<1>1. lease' = [lease EXCEPT ![l] =
                  [@ EXCEPT !.state = "active", !.peer = p, !.id = id, !.cost = cost,
                            !.heavy = heavy, !.loopback = loopback]]
    BY DEF AcquireAttempt, TypeOK, LeaseStates
<1>2. lease[l].state = "free" /\ term' = term BY DEF AcquireAttempt
<1>3. lease'[l] = [lease[l] EXCEPT !.state = "active", !.peer = p, !.id = id, !.cost = cost,
                                   !.heavy = heavy, !.loopback = loopback]
    BY <1>1 DEF TypeOK
<1>4. Sound(lease'[l], term'[l])
  <2> DEFINE s == [lease[l] EXCEPT !.state = "active", !.peer = p, !.id = id, !.cost = cost,
                                   !.heavy = heavy, !.loopback = loopback]
  <2>1. Sound(s, term[l]) BY <1>0, <1>2, SoundAcquire
  <2>2. lease'[l] = s /\ term'[l] = term[l] BY <1>2, <1>3
  <2> HIDE DEF s
  <2>3. QED BY <2>1, <2>2
<1>5. \A k \in Leases : k # l => lease'[k] = lease[k] /\ term'[k] = term[k]
    BY <1>1, <1>2 DEF TypeOK
<1>6. QED BY <1>4, <1>5, OneSound

\* Both registrations, as steps of the governor.
LEMMA RegisterSound ==
    ASSUME TypeOK, TermsSound, NEW l \in Leases, RegisterDrain(l) \/ RegisterAccounting(l)
    PROVE  TermsSound'
<1>0. lease[l] \in LeaseStates /\ term[l] \in TermStates /\ Sound(lease[l], term[l])
    BY DEF TypeOK, TermsSound
<1>1. lease[l].state = "active" /\ ~lease[l].stopping /\ term' = term
    BY DEF RegisterDrain, RegisterAccounting, MayRegister
<1>2. CASE RegisterDrain(l)
  <2>1. lease' = [lease EXCEPT ![l] = [@ EXCEPT !.net = lease[l].net + 1]]
    BY <1>2 DEF RegisterDrain, TypeOK
  <2>2. lease'[l] = [lease[l] EXCEPT !.net = lease[l].net + 1] BY <2>1 DEF TypeOK
  <2>3. Sound(lease'[l], term'[l]) BY <1>0, <1>1, <2>2, SoundRegister
  <2>4. QED BY <1>1, <2>1, <2>3, OneSound DEF TypeOK
<1>3. CASE RegisterAccounting(l)
  <2>1. lease' = [lease EXCEPT ![l] = [@ EXCEPT !.acct = TRUE, !.acctUsed = TRUE]]
    BY <1>3 DEF RegisterAccounting, TypeOK
  <2>2. lease'[l] = [lease[l] EXCEPT !.acct = TRUE, !.acctUsed = TRUE] BY <2>1 DEF TypeOK
  <2>3. lease[l].loopback /\ ~lease[l].acctUsed BY <1>3 DEF RegisterAccounting
  <2>4. Sound([lease[l] EXCEPT !.acct = TRUE, !.acctUsed = TRUE], term[l])
    BY <1>0, <1>1, <2>3, SoundRegister
  <2>5. Sound(lease'[l], term'[l]) BY <1>1, <2>2, <2>4
  <2>6. QED BY <1>1, <2>1, <2>5, OneSound DEF TypeOK
<1>4. QED BY <1>2, <1>3

\* attemptDrain.Complete, as a step of the governor.
LEMMA CompletedSound ==
    ASSUME TypeOK, TermsSound, NEW l \in Leases, NEW n \in Nat, n <= lease[l].net,
           NEW a \in BOOLEAN, a => lease[l].acct, NEW w \in TermStates,
           a <=> lease[l].acctUsed /\ w.writer # "done",
           w.writer # "none" => lease[l].acctUsed,
           w.manager = term[l].manager, w.verdict = term[l].verdict,
           w.netErr = term[l].netErr, w.finishErr = term[l].finishErr,
           w.netClosed = term[l].netClosed, w.acctClosed = term[l].acctClosed,
           Completed(l, n, a, [term EXCEPT ![l] = w])
    PROVE  TermsSound'
<1>0. lease[l] \in LeaseStates /\ term[l] \in TermStates /\ Sound(lease[l], term[l])
    BY DEF TypeOK, TermsSound
<1> DEFINE q == lease[l].drained \/ (lease[l].stopping /\ n = 0 /\ ~a)
           y == term[l].netClosed \/ n = 0
           z == term[l].acctClosed \/ ~a
<1>1. lease' = [lease EXCEPT ![l] = [@ EXCEPT !.net = n, !.acct = a, !.drained = q]]
    BY <1>0 DEF Completed, TypeOK, LeaseStates
<1>2. term' = IF lease[l].loopback /\ lease[l].stopping
              THEN [term EXCEPT ![l] = [w EXCEPT !.netClosed = y, !.acctClosed = z]]
              ELSE [term EXCEPT ![l] = w]
    BY <1>0 DEF Completed, TypeOK, TermStates
<1>3. /\ q \in BOOLEAN /\ (q <=> lease[l].drained \/ (lease[l].stopping /\ n = 0 /\ ~a))
      /\ y \in BOOLEAN /\ (y <=> term[l].netClosed \/ n = 0)
      /\ z \in BOOLEAN /\ (z <=> term[l].acctClosed \/ ~a)
    OBVIOUS
<1> HIDE DEF q, y, z
<1>4. lease'[l] = [lease[l] EXCEPT !.net = n, !.acct = a, !.drained = q] BY <1>1 DEF TypeOK
<1>5. term'[l] = IF lease[l].loopback /\ lease[l].stopping
                 THEN [w EXCEPT !.netClosed = y, !.acctClosed = z] ELSE w
    BY <1>2 DEF TypeOK
<1>6. Sound(lease'[l], term'[l])
  <2> DEFINE s == [lease[l] EXCEPT !.net = n, !.acct = a, !.drained = q]
             v == [w EXCEPT !.netClosed = y, !.acctClosed = z]
  <2>1. /\ lease[l].loopback /\ lease[l].stopping => Sound(s, v)
        /\ ~(lease[l].loopback /\ lease[l].stopping) => Sound(s, w)
    BY <1>0, <1>3, SoundComplete
  <2>2. lease'[l] = s /\ term'[l] = IF lease[l].loopback /\ lease[l].stopping THEN v ELSE w
    BY <1>4, <1>5
  <2> HIDE DEF s, v
  <2>3. QED BY <2>1, <2>2
<1>7. QED BY <1>1, <1>2, <1>6, OneSound DEF TypeOK

\* A network drain completes.
LEMMA CompleteDrainSound ==
    ASSUME TypeOK, TermsSound, NEW l \in Leases, CompleteDrain(l)
    PROVE  TermsSound'
<1>0. lease[l] \in LeaseStates /\ term[l] \in TermStates /\ Sound(lease[l], term[l])
    BY DEF TypeOK, TermsSound
<1>1. /\ lease[l].net - 1 \in Nat /\ lease[l].net - 1 <= lease[l].net
      /\ lease[l].acct \in BOOLEAN
    BY <1>0 DEF CompleteDrain, LeaseStates
<1>2. /\ lease[l].acct <=> lease[l].acctUsed /\ term[l].writer # "done"
      /\ term[l].writer # "none" => lease[l].acctUsed
    BY <1>0 DEF Sound
<1>3. [term EXCEPT ![l] = term[l]] = term BY DEF TypeOK
<1>4. Completed(l, lease[l].net - 1, lease[l].acct, [term EXCEPT ![l] = term[l]])
    BY <1>3 DEF CompleteDrain
<1>5. QED BY <1>0, <1>1, <1>2, <1>4, CompletedSound

\* The journal writer, as a step of the governor.
LEMMA WriterSound ==
    ASSUME TypeOK, TermsSound, NEW l \in Leases,
           WriterStarts(l) \/ WriterFinishes(l) \/ WriterCompletes(l)
    PROVE  TermsSound'
<1>0. lease[l] \in LeaseStates /\ term[l] \in TermStates /\ Sound(lease[l], term[l])
    BY DEF TypeOK, TermsSound
<1>1. CASE WriterStarts(l)
  <2> DEFINE w == [term[l] EXCEPT !.writer = "started"]
             t == [term EXCEPT ![l] = w]
  <2>1. lease[l].acct BY <1>1 DEF WriterStarts
  <2>2. Sound(lease[l], w) /\ w \in TermStates
    BY <1>0, <2>1, SoundWriter DEF TermStates
  <2>3. BeginStopping({l}, t) BY <1>1 DEF WriterStarts
  <2> HIDE DEF w
  <2>4. t \in [Leases -> TermStates] BY <2>2 DEF TypeOK
  <2>5. \A k \in Leases : Sound(lease[k], t[k]) BY <2>2 DEF TypeOK, TermsSound
  <2>6. {l} \in SUBSET Leases OBVIOUS
  <2> HIDE DEF t
  <2>7. QED BY <2>3, <2>4, <2>5, <2>6, BeginStoppingSound
<1>2. CASE WriterFinishes(l)
  <2>1. PICK ok \in BOOLEAN :
           term' = [term EXCEPT ![l].writer = "recorded", ![l].finishErr = @ \/ ~ok]
    BY <1>2 DEF WriterFinishes
  <2> DEFINE e == term[l].finishErr \/ ~ok
             w == [term[l] EXCEPT !.writer = "recorded", !.finishErr = e]
  <2>2. e \in BOOLEAN OBVIOUS
  <2>3. term' = [term EXCEPT ![l] = w] BY <1>0, <2>1 DEF TermStates
  <2> HIDE DEF e
  <2>4. Sound(lease[l], w) BY <1>0, <1>2, <2>2, SoundWriter DEF WriterFinishes
  <2> HIDE DEF w
  <2>5. lease' = lease BY <1>2 DEF WriterFinishes
  <2>6. Sound(lease'[l], term'[l]) BY <2>3, <2>4, <2>5 DEF TypeOK
  <2>7. QED BY <2>3, <2>5, <2>6, OneSound DEF TypeOK
<1>3. CASE WriterCompletes(l)
  <2> DEFINE w == [term[l] EXCEPT !.writer = "done"]
  <2>1. /\ w \in TermStates /\ w.writer = "done"
        /\ w.manager = term[l].manager /\ w.verdict = term[l].verdict
        /\ w.netErr = term[l].netErr /\ w.finishErr = term[l].finishErr
        /\ w.netClosed = term[l].netClosed /\ w.acctClosed = term[l].acctClosed
    BY <1>0 DEF TermStates
  <2>2. lease[l].acctUsed BY <1>0, <1>3 DEF WriterCompletes, Sound
  <2>3. Completed(l, lease[l].net, FALSE, [term EXCEPT ![l] = w])
    BY <1>3 DEF WriterCompletes
  <2>4. lease[l].net \in Nat /\ lease[l].net <= lease[l].net BY <1>0 DEF LeaseStates
  <2> HIDE DEF w
  <2>5. FALSE <=> lease[l].acctUsed /\ w.writer # "done" BY <2>1
  <2>6. QED BY <2>1, <2>2, <2>3, <2>4, <2>5, CompletedSound
<1>4. QED BY <1>1, <1>2, <1>3

\* The manager, as a step of the governor.
LEMMA ManagerSound ==
    ASSUME TypeOK, TermsSound, NEW l \in Leases, Manage(l)
    PROVE  TermsSound'
<1>0. lease[l] \in LeaseStates /\ term[l] \in TermStates /\ Sound(lease[l], term[l])
    BY DEF TypeOK, TermsSound
<1>a. ASSUME NEW w, term' = [term EXCEPT ![l] = w], lease' = lease, Sound(lease[l], w)
      PROVE  TermsSound'
    BY <1>a, OneSound DEF TypeOK
<1>1. CASE ManagerNetworkDrained(l)
    BY <1>0, <1>1, <1>a, SoundManager DEF ManagerNetworkDrained
<1>2. CASE ManagerTimesOut(l)
    BY <1>0, <1>2, <1>a, SoundManager DEF ManagerTimesOut
<1>3. CASE ManagerSettles(l)
    BY <1>0, <1>3, <1>a, SoundManager DEF ManagerSettles
<1>4. CASE ManagerFails(l)
  <2> DEFINE w == [term[l] EXCEPT !.manager = "draining", !.verdict = "failed"]
  <2>1. term' = [term EXCEPT ![l] = w] /\ lease' = lease BY <1>4 DEF ManagerFails
  <2>2. Sound(lease[l], w) BY <1>0, <1>4, SoundManager DEF ManagerFails
  <2> HIDE DEF w
  <2>3. QED BY <1>a, <2>1, <2>2
<1>5. CASE ManagerNetworkExpires(l)
  <2> DEFINE w == [term[l] EXCEPT !.manager = "accounting", !.netErr = TRUE]
             t == [term EXCEPT ![l] = w]
  <2>1. TripLocked(drainer, t) BY <1>5 DEF ManagerNetworkExpires
  <2>2. Sound(lease[l], w) /\ w \in TermStates
    BY <1>0, <1>5, SoundManager DEF ManagerNetworkExpires, TermStates
  <2> HIDE DEF w
  <2>3. t \in [Leases -> TermStates] /\ \A k \in Leases : Sound(lease[k], t[k])
    BY <2>2 DEF TypeOK, TermsSound
  <2> HIDE DEF t
  <2>4. QED BY <2>1, <2>3, TripLockedSound
<1>6. CASE ManagerSucceeds(l)
  <2> DEFINE w == [term[l] EXCEPT !.manager = "settled", !.verdict = "ok"]
             r == [lease[l] EXCEPT !.state = "closed", !.stopping = TRUE]
  <2>1. term' = [term EXCEPT ![l] = w] BY <1>6 DEF ManagerSucceeds
  <2>2. Sound(lease[l], w) /\ Sound(r, w)
    BY <1>0, <1>6, SoundManager DEF ManagerSucceeds
  <2>3. /\ \A k \in Leases : k # l => lease'[k] = lease[k]
        /\ lease'[l] = IF lease[l].state = "active" THEN r ELSE lease[l]
    BY <1>6 DEF ManagerSucceeds, Release
  <2> HIDE DEF w, r
  <2>4. Sound(lease'[l], term'[l]) BY <2>1, <2>2, <2>3 DEF TypeOK
  <2>5. QED BY <2>1, <2>3, <2>4, OneSound DEF TypeOK
<1>7. QED BY <1>1, <1>2, <1>3, <1>4, <1>5, <1>6 DEF Manage

\* releaseAttemptLocked, for attempts whose terminals are settled.
LEMMA ReleaseSound ==
    ASSUME TypeOK, TermsSound, NEW S \in SUBSET Leases, term' = term,
           \A l \in Leases : l \notin S => lease'[l] = lease[l],
           \A l \in S : \/ lease'[l] = lease[l]
                        \/ /\ lease[l].state = "active"
                           /\ lease[l].loopback => term[l].manager = "settled"
                           /\ lease'[l] = [lease[l] EXCEPT !.state = "closed", !.stopping = TRUE]
    PROVE  TermsSound'
<1> SUFFICES ASSUME NEW l \in Leases PROVE Sound(lease'[l], term'[l])
    BY DEF TermsSound
<1>0. lease[l] \in LeaseStates /\ term[l] \in TermStates /\ Sound(lease[l], term[l])
    BY DEF TypeOK, TermsSound
<1>1. CASE lease'[l] = lease[l] BY <1>0, <1>1
<1>2. CASE lease'[l] # lease[l]
  <2> DEFINE r == [lease[l] EXCEPT !.state = "closed", !.stopping = TRUE]
  <2>1. /\ lease[l].state = "active" /\ lease'[l] = r
        /\ lease[l].loopback => term[l].manager = "settled"
    BY <1>2
  <2>2. Sound(r, term[l]) BY <1>0, <2>1, SoundRelease
  <2> HIDE DEF r
  <2>3. QED BY <2>1, <2>2
<1>3. QED BY <1>1, <1>2

\* stopActiveLocked finds every active attempt through its peer, and no loopback
\* attempt among them is unsettled.
LEMMA CloseFindsAll ==
    ASSUME TypeOK, RegistryConsistent, PeersKept, NEW l \in Leases
    PROVE  l \in UNION {peer[p].attempts : p \in {peers[id] : id \in ActivePeers}}
              <=> lease[l].state = "active"
<1>1. ASSUME lease[l].state = "active"
      PROVE  l \in UNION {peer[p].attempts : p \in {peers[id] : id \in ActivePeers}}
  <2> DEFINE q == lease[l].peer
             i == peer[q].id
  <2>1. /\ q \in PeerLeases /\ i \in PeerIDs /\ peers[i] = q /\ l \in peer[q].attempts
    BY <1>1 DEF RegistryConsistent, PeersKept
  <2>2. q # None BY <2>1, GovernorObjects
  <2>3. i \in ActivePeers BY <2>1, <2>2 DEF ActivePeers
  <2>4. q \in {peers[id] : id \in ActivePeers} BY <2>1, <2>3
  <2>5. QED BY <2>1, <2>4
<1>2. ASSUME l \in UNION {peer[p].attempts : p \in {peers[id] : id \in ActivePeers}}
      PROVE  lease[l].state = "active"
  <2>1. PICK p \in {peers[id] : id \in ActivePeers} : l \in peer[p].attempts BY <1>2
  <2>2. p \in PeerLeases BY DEF ActivePeers, TypeOK
  <2>3. QED BY <2>1, <2>2 DEF RegistryConsistent
<1>3. QED BY <1>1, <1>2

\* An attempt is registered exactly while it is active.
LEMMA ActiveRegistered ==
    ASSUME TypeOK, RegistryConsistent, PeersKept, NEW l \in Leases
    PROVE  l \in Registered <=> lease[l].state = "active"
BY DEF Registered, RegistryConsistent, PeersKept

\* Every step keeps leases and terminals in step.
LEMMA StepSound ==
    ASSUME TypeOK, TermsSound, RegistryConsistent, PeersKept, [Next]_vars
    PROVE  TermsSound'
<1>t. /\ term \in [Leases -> TermStates] /\ \A l \in Leases : Sound(lease[l], term[l])
      /\ Registered \in SUBSET Leases
    BY DEF TypeOK, TermsSound, Registered
<1>1. CASE UNCHANGED vars BY <1>1, SameSound DEF vars
<1>2. CASE Admit
  <2>1. CASE \E p \in PeerLeases, id \in PeerIDs : AcquirePeer(p, id)
    BY <2>1, SameSound DEF AcquirePeer
  <2>2. CASE \E p \in PeerLeases, id \in AttemptIDs, cost \in Costs,
                heavy, loopback \in BOOLEAN, l \in Leases :
                AcquireAttempt(l, p, id, cost, heavy, loopback)
    BY <2>2, AcquireSound
  <2>3. CASE \E p \in PeerLeases, id \in AttemptIDs, cost \in Costs,
                heavy, loopback \in BOOLEAN :
                RefuseOverLimit(p, id, cost, heavy, loopback)
    BY <2>3, <1>t, TripLockedSound DEF RefuseOverLimit
  <2>4. QED BY <1>2, <2>1, <2>2, <2>3 DEF Admit
<1>3. CASE Trip
    BY <1>3, <1>t, TripLockedSound DEF Trip
<1>4. CASE CloseGovernor
    BY <1>4, <1>t, BeginStoppingSound DEF CloseGovernor
<1>5. CASE CloseRefused \/ FinishTripDrain
    BY <1>5, SameSound DEF CloseRefused, FinishTripDrain
<1>6. CASE CloseCompletes
  <2> DEFINE left == UNION {peer[p].attempts : p \in {peers[id] : id \in ActivePeers}}
  <2>0. left \cap Leases \in SUBSET Leases OBVIOUS
  <2>1. /\ term' = term /\ ~LoopbackWorkOutstanding
        /\ \A l \in Leases : lease'[l] =
              IF l \in left THEN [lease[l] EXCEPT !.state = "closed", !.stopping = TRUE]
              ELSE lease[l]
    BY <1>6 DEF CloseCompletes
  <2>2. \A l \in Leases : l \in left => lease[l].state = "active" /\ l \in Registered
    BY CloseFindsAll, ActiveRegistered
  <2> HIDE DEF left
  <2>3. \A l \in left \cap Leases :
           /\ lease[l].state = "active"
           /\ lease[l].loopback => term[l].manager = "settled"
           /\ lease'[l] = [lease[l] EXCEPT !.state = "closed", !.stopping = TRUE]
    BY <2>1, <2>2 DEF LoopbackWorkOutstanding, Phased
  <2>4. \A l \in Leases : l \notin left \cap Leases => lease'[l] = lease[l] BY <2>1
  <2>5. QED BY <2>0, <2>1, <2>3, <2>4, ReleaseSound
<1>7. ASSUME NEW p \in PeerLeases, ClosePeer(p) \/ FinishPeerClose(p) PROVE TermsSound'
  <2>1. CASE ClosePeer(p)
    <3>1. peer[p].attempts \in SUBSET Leases BY DEF TypeOK
    <3>2. QED BY <2>1, <3>1, <1>t, BeginStoppingSound DEF ClosePeer
  <2>2. CASE FinishPeerClose(p) BY <2>2, SameSound DEF FinishPeerClose
  <2>3. QED BY <1>7, <2>1, <2>2
<1>8. ASSUME NEW d \in Drainers, Drain(d) PROVE TermsSound'
  <2>1. CASE DrainExpires(d) BY <2>1, SameSound DEF DrainExpires
  <2>2. CASE DrainTrips(d)
    BY <2>2, <1>t, TripLockedSound, SameSound DEF DrainTrips
  <2>3. CASE DrainReleases(d)
    <3>0. Ordinary(drainer[d].batch) \in SUBSET Leases
      BY DEF TypeOK, DrainerStates, Ordinary
    <3>1. term' = term /\ Release(Ordinary(drainer[d].batch)) BY <2>3 DEF DrainReleases
    <3>2. \A l \in Leases : l \notin Ordinary(drainer[d].batch) => lease'[l] = lease[l]
      BY <3>1 DEF Release
    <3>3. \A l \in Ordinary(drainer[d].batch) :
             \/ lease'[l] = lease[l]
             \/ /\ lease[l].state = "active" /\ ~lease[l].loopback
                /\ lease'[l] = [lease[l] EXCEPT !.state = "closed", !.stopping = TRUE]
      BY <3>0, <3>1 DEF Release, Ordinary
    <3>4. QED BY <3>0, <3>1, <3>2, <3>3, ReleaseSound
  <2>4. QED BY <1>8, <2>1, <2>2, <2>3 DEF Drain
<1>9. ASSUME NEW l \in Leases,
             RegisterDrain(l) \/ RegisterAccounting(l) \/ CompleteDrain(l)
      PROVE  TermsSound'
    BY <1>9, RegisterSound, CompleteDrainSound
<1>10. ASSUME NEW l \in Leases, CloseAttempt(l) \/ CloseLoopback(l) PROVE TermsSound'
  <2>1. {l} \in SUBSET Leases OBVIOUS
  <2>2. QED BY <1>10, <1>t, <2>1, BeginStoppingSound DEF CloseAttempt, CloseLoopback
<1>11. ASSUME NEW l \in Leases,
              WriterStarts(l) \/ WriterFinishes(l) \/ WriterCompletes(l) \/ Manage(l)
       PROVE  TermsSound'
    BY <1>11, WriterSound, ManagerSound
<1>12. QED
    BY <1>1, <1>2, <1>3, <1>4, <1>5, <1>6, <1>7, <1>8, <1>9, <1>10, <1>11 DEF Next, Close, PeerClose, finishLoopback

\* Initially no manager or writer runs.
LEMMA InitSound == Init => TermsSound
BY DEF Init, TermsSound, Sound

-----------------------------------------------------------------------------
(* The maps and the lease objects *)

\* What the lock-protected maps and the lease objects say of each other.
Kept == RegistryConsistent /\ PeersKept

\* A step that moves no attempt in or out keeps them, if only closed peers are
\* drained by their own Close.
LEMMA QuietKept ==
    ASSUME TypeOK, Kept, attempts' = attempts, peers' = peers, closed' = closed,
           \A l \in Leases : /\ lease'[l].state = lease[l].state
                             /\ lease'[l].id = lease[l].id
                             /\ lease'[l].peer = lease[l].peer,
           \A p \in PeerLeases :
              /\ peer'[p].id = peer[p].id /\ peer'[p].attempts = peer[p].attempts
              /\ peer'[p].state \in {peer[p].state, "closed"}
              /\ drainer'[p].pc # "idle" => peer'[p].state = "closed"
    PROVE  Kept'
<1>1. RegistryConsistent'
  <2>1. \A l \in Leases : lease'[l].state = "active" =>
          /\ attempts'[lease'[l].id] = l
          /\ l \in peer'[lease'[l].peer].attempts
          /\ peers'[peer'[lease'[l].peer].id] = lease'[l].peer
    <3> SUFFICES ASSUME NEW l \in Leases, lease'[l].state = "active"
                 PROVE  /\ attempts'[lease'[l].id] = l
                        /\ l \in peer'[lease'[l].peer].attempts
                        /\ peers'[peer'[lease'[l].peer].id] = lease'[l].peer
        OBVIOUS
    <3>1. lease[l].state = "active" /\ lease[l].peer \in PeerLeases BY DEF Kept, PeersKept
    <3>2. QED BY <3>1 DEF Kept, RegistryConsistent
  <2>2. \A l \in Registered' : lease'[l].state = "active"
    BY DEF Kept, RegistryConsistent, Registered
  <2>3. \A p \in PeerLeases : \A l \in peer'[p].attempts :
          lease'[l].state = "active" /\ lease'[l].peer = p
    BY DEF Kept, RegistryConsistent, TypeOK
  <2>4. QED BY <2>1, <2>2, <2>3 DEF RegistryConsistent
<1>2. PeersKept'
    BY DEF Kept, PeersKept
<1>3. QED BY <1>1, <1>2 DEF Kept

\* The same, for a step that touches no peer.
LEMMA StillKept ==
    ASSUME TypeOK, Kept, attempts' = attempts, peers' = peers, closed' = closed, peer' = peer,
           \A l \in Leases : /\ lease'[l].state = lease[l].state
                             /\ lease'[l].id = lease[l].id
                             /\ lease'[l].peer = lease[l].peer,
           \A p \in PeerLeases : drainer'[p].pc # "idle" => drainer[p].pc # "idle"
    PROVE  Kept'
<1>1. \A p \in PeerLeases :
              /\ peer'[p].id = peer[p].id /\ peer'[p].attempts = peer[p].attempts
              /\ peer'[p].state \in {peer[p].state, "closed"}
              /\ drainer'[p].pc # "idle" => peer'[p].state = "closed"
    BY DEF Kept, PeersKept
<1>2. QED BY <1>1, QuietKept

\* beginAttemptStoppingLocked moves no attempt.
LEMMA BeginStoppingKeeps ==
    ASSUME TypeOK, NEW S \in SUBSET Leases, NEW t, BeginStopping(S, t), NEW l \in Leases
    PROVE  /\ lease'[l].state = lease[l].state
           /\ lease'[l].id = lease[l].id
           /\ lease'[l].peer = lease[l].peer
BY DEF BeginStopping, TypeOK, LeaseStates, Stoppable

\* tripLocked moves no attempt and starts only the trip drain.
LEMMA TripLockedKept ==
    ASSUME TypeOK, Kept, NEW d \in [Drainers -> DrainerStates], NEW t, TripLocked(d, t),
           UNCHANGED <<attempts, peers, closed, peer>>,
           \A p \in PeerLeases : d[p].pc # "idle" => drainer[p].pc # "idle"
    PROVE  Kept'
<1>1. CASE closed
  <2>1. drainer' = d /\ lease' = lease BY <1>1 DEF TripLocked
  <2>2. QED BY <2>1, StillKept
<1>2. CASE ~closed
  <2>1. BeginStopping(Registered, t) BY <1>2 DEF TripLocked
  <2>2. Registered \in SUBSET Leases BY DEF Registered
  <2>3. \A p \in PeerLeases : drainer'[p] = d[p]
    BY <1>2, GovernorObjects DEF TripLocked, Drainers
  <2>4. QED BY <2>1, <2>2, <2>3, BeginStoppingKeeps, StillKept
<1>3. QED BY <1>1, <1>2

\* AcquirePeer registers the peer it opens.
LEMMA AcquirePeerKept ==
    ASSUME TypeOK, Kept, NEW p \in PeerLeases, NEW id \in PeerIDs, AcquirePeer(p, id)
    PROVE  Kept'
<1>1. /\ peer' = [peer EXCEPT ![p] = [@ EXCEPT !.state = "open", !.id = id]]
      /\ peers' = [peers EXCEPT ![id] = p]
      /\ attempts' = attempts /\ lease' = lease /\ drainer' = drainer /\ closed' = closed
      /\ peer[p].state = "free" /\ peers[id] = None
    BY DEF AcquirePeer, TypeOK, flags
<1>2. /\ peer'[p].state = "open" /\ peer'[p].id = id /\ peer'[p].attempts = {}
      /\ \A q \in PeerLeases : q # p => peer'[q] = peer[q]
      /\ peers'[id] = p /\ \A i \in PeerIDs : i # id => peers'[i] = peers[i]
      /\ \A q \in PeerLeases : peer'[q].attempts = peer[q].attempts
      /\ drainer[p].pc = "idle"
    BY <1>1 DEF TypeOK, Kept, PeersKept
<1>3. \A l \in Leases : lease[l].state = "active" => lease[l].peer # p
    BY <1>1 DEF Kept, PeersKept, RegistryConsistent
<1>4. \A q \in PeerLeases : q # None BY GovernorObjects
<1>5. PeersKept'
    BY <1>1, <1>2, <1>3, <1>4 DEF Kept, PeersKept
<1>6. RegistryConsistent'
  <2>1. \A l \in Leases : lease[l].state = "active" =>
           /\ peer'[lease[l].peer] = peer[lease[l].peer]
           /\ peers'[peer[lease[l].peer].id] = lease[l].peer
    BY <1>1, <1>2, <1>3, <1>4 DEF Kept, PeersKept, RegistryConsistent
  <2>2. QED BY <1>1, <1>2, <2>1 DEF Kept, RegistryConsistent, Registered
<1>7. QED BY <1>5, <1>6 DEF Kept

\* acquireAttempt enters an attempt in both maps, under an open peer.
LEMMA AcquireAttemptKept ==
    ASSUME TypeOK, Kept, NEW l \in Leases, NEW p \in PeerLeases, NEW id \in AttemptIDs,
           NEW cost, NEW heavy, NEW loopback, AcquireAttempt(l, p, id, cost, heavy, loopback)
    PROVE  Kept'
<1>1. /\ \A k \in Leases : k # l => lease'[k] = lease[k]
      /\ lease'[l].state = "active" /\ lease'[l].id = id /\ lease'[l].peer = p
      /\ lease[l].state = "free"
    BY DEF AcquireAttempt, TypeOK, LeaseStates
<1>2. /\ attempts' = [attempts EXCEPT ![id] = l] /\ attempts[id] = None
      /\ peer' = [peer EXCEPT ![p] = [@ EXCEPT !.attempts = peer[p].attempts \cup {l}]]
      /\ peers' = peers /\ drainer' = drainer /\ closed' = closed
      /\ peer[p].state = "open" /\ ~closed
    BY DEF AcquireAttempt, MayAcquire, flags
<1>3. /\ attempts'[id] = l /\ \A i \in AttemptIDs : i # id => attempts'[i] = attempts[i]
      /\ \A q \in PeerLeases : /\ peer'[q].state = peer[q].state /\ peer'[q].id = peer[q].id
                               /\ q # p => peer'[q].attempts = peer[q].attempts
      /\ peer'[p].attempts = peer[p].attempts \cup {l}
    BY <1>2 DEF TypeOK
<1>4. PeersKept'
    BY <1>1, <1>2, <1>3 DEF Kept, PeersKept
<1>5. RegistryConsistent'
  <2>1. \A k \in Leases : lease'[k].state = "active" =>
          /\ attempts'[lease'[k].id] = k
          /\ k \in peer'[lease'[k].peer].attempts
          /\ peers'[peer'[lease'[k].peer].id] = lease'[k].peer
    <3> SUFFICES ASSUME NEW k \in Leases, lease'[k].state = "active"
                 PROVE  /\ attempts'[lease'[k].id] = k
                        /\ k \in peer'[lease'[k].peer].attempts
                        /\ peers'[peer'[lease'[k].peer].id] = lease'[k].peer
        OBVIOUS
    <3>1. CASE k = l BY <3>1, <1>1, <1>2, <1>3 DEF Kept, PeersKept
    <3>2. CASE k # l
      <4>1. /\ lease'[k] = lease[k] /\ lease[k].peer \in PeerLeases
            /\ lease[k].id \in AttemptIDs /\ attempts[lease[k].id] = k
            /\ k \in peer[lease[k].peer].attempts
            /\ peers[peer[lease[k].peer].id] = lease[k].peer
        BY <3>2, <1>1 DEF Kept, PeersKept, RegistryConsistent
      <4>2. lease[k].id # id BY <4>1, <1>2, NoneIsNoLease
      <4>3. QED BY <4>1, <4>2, <1>2, <1>3
    <3>3. QED BY <3>1, <3>2
  <2>2. \A k \in Registered' : lease'[k].state = "active"
    BY <1>1, <1>3 DEF Registered, Kept, RegistryConsistent
  <2>3. \A q \in PeerLeases : \A k \in peer'[q].attempts :
           lease'[k].state = "active" /\ lease'[k].peer = q
    <3> SUFFICES ASSUME NEW q \in PeerLeases, NEW k \in peer'[q].attempts
                 PROVE  lease'[k].state = "active" /\ lease'[k].peer = q
        OBVIOUS
    <3>1. CASE k = l /\ q = p BY <3>1, <1>1
    <3>2. CASE k \in peer[q].attempts
      <4>1. k \in Leases /\ lease[k].state = "active" /\ lease[k].peer = q
        BY <3>2 DEF Kept, RegistryConsistent, TypeOK
      <4>2. QED BY <4>1, <1>1
    <3>3. QED BY <3>1, <3>2, <1>3
  <2>4. QED BY <2>1, <2>2, <2>3 DEF RegistryConsistent
<1>6. QED BY <1>4, <1>5 DEF Kept

\* releaseAttemptLocked takes an attempt out of both maps at once.
LEMMA ReleaseKept ==
    ASSUME TypeOK, Kept, RegistryHoldsActive, NEW S \in SUBSET Leases, Release(S),
           UNCHANGED <<peers, closed>>,
           \A p \in PeerLeases : drainer'[p].pc # "idle" => drainer[p].pc # "idle"
    PROVE  Kept'
<1> DEFINE now == {l \in S : lease[l].state = "active"}
<1>1. /\ \A l \in Leases : l \notin now => lease'[l] = lease[l]
      /\ \A l \in now : lease'[l].state = "closed"
      /\ \A id \in AttemptIDs :
            attempts'[id] = IF \E l \in now : lease[l].id = id
                            THEN None ELSE attempts[id]
      /\ \A p \in PeerLeases : /\ peer'[p].state = peer[p].state /\ peer'[p].id = peer[p].id
                               /\ peer'[p].attempts = peer[p].attempts \ now
  <2>1. /\ \A l \in Leases : l \notin now => lease'[l] = lease[l]
        /\ \A l \in now : lease'[l] = [lease[l] EXCEPT !.state = "closed", !.stopping = TRUE]
    BY DEF Release
  <2>2. ASSUME NEW l \in now PROVE lease'[l].state = "closed"
    <3>1. lease[l] \in LeaseStates BY DEF TypeOK
    <3>2. lease'[l] = [lease[l] EXCEPT !.state = "closed", !.stopping = TRUE] BY <2>1
    <3>3. QED BY <3>1, <3>2 DEF LeaseStates
  <2>3. \A id \in AttemptIDs : attempts'[id] = IF \E l \in now : lease[l].id = id
                                                THEN None ELSE attempts[id]
    BY DEF Release
  <2>4. \A p \in PeerLeases : peer'[p] = [peer[p] EXCEPT !.attempts = peer[p].attempts \ now]
    BY DEF Release
  <2>5. ASSUME NEW p \in PeerLeases
        PROVE  /\ peer'[p].state = peer[p].state /\ peer'[p].id = peer[p].id
               /\ peer'[p].attempts = peer[p].attempts \ now
    <3>1. peer[p] \in PeerStates BY DEF TypeOK, PeerStates
    <3>2. peer'[p] = [peer[p] EXCEPT !.attempts = peer[p].attempts \ now] BY <2>4
    <3>3. QED BY <3>1, <3>2 DEF PeerStates
  <2>6. QED BY <2>1, <2>2, <2>3, <2>5
<1>2. now \in SUBSET Leases /\ \A l \in now : lease[l].state = "active" OBVIOUS
<1> HIDE DEF now
<1>3. \A l \in Leases : lease'[l].state = "active" =>
         l \notin now /\ lease'[l] = lease[l] /\ lease[l].state = "active"
    BY <1>1, <1>2
<1>4. PeersKept'
  <2>1. \A l \in Leases : lease'[l].state = "active" =>
          /\ lease'[l].peer \in PeerLeases /\ lease'[l].id \in AttemptIDs
          /\ peer'[lease'[l].peer].id \in PeerIDs
          /\ ~closed'
    BY <1>1, <1>3 DEF Kept, PeersKept
  <2>2. \A p \in PeerLeases :
          /\ peer'[p].state = "open" => peer'[p].id \in PeerIDs /\ peers'[peer'[p].id] = p
          /\ peer'[p].state = "free" => peer'[p].attempts = {}
          /\ drainer'[p].pc # "idle" => peer'[p].state = "closed"
    BY <1>1 DEF Kept, PeersKept
  <2>3. QED BY <2>1, <2>2 DEF PeersKept
<1>5. RegistryConsistent'
  <2>1. ASSUME NEW l \in Leases, lease'[l].state = "active"
        PROVE  /\ attempts'[lease'[l].id] = l
               /\ l \in peer'[lease'[l].peer].attempts
               /\ peers'[peer'[lease'[l].peer].id] = lease'[l].peer
    <3>1. /\ l \notin now /\ lease'[l] = lease[l] /\ lease[l].state = "active"
          /\ lease[l].peer \in PeerLeases /\ lease[l].id \in AttemptIDs
          /\ attempts[lease[l].id] = l /\ l \in peer[lease[l].peer].attempts
          /\ peers[peer[lease[l].peer].id] = lease[l].peer
      BY <1>3, <2>1 DEF Kept, PeersKept, RegistryConsistent
    <3>2. ~\E k \in now : lease[k].id = lease[l].id
      BY <1>2, <3>1 DEF Kept, RegistryConsistent
    <3>3. QED BY <1>1, <3>1, <3>2
  <2>2. \A l \in Registered' : lease'[l].state = "active"
    <3> SUFFICES ASSUME NEW l \in Leases, NEW id \in AttemptIDs, attempts'[id] = l
                 PROVE  lease'[l].state = "active"
        BY DEF Registered
    <3>1. attempts[id] = l /\ ~\E k \in now : lease[k].id = id BY <1>1, NoneIsNoLease
    <3>2. lease[l].state = "active" BY <3>1 DEF Kept, RegistryConsistent, Registered
    <3>3. l \notin now
      <4> SUFFICES ASSUME l \in now PROVE FALSE OBVIOUS
      <4>1. lease[l].id = id BY <3>1, NoneIsNoLease DEF RegistryHoldsActive
      <4>2. QED BY <3>1, <4>1
    <3>4. QED BY <1>1, <3>2, <3>3
  <2>3. \A p \in PeerLeases : \A l \in peer'[p].attempts :
          lease'[l].state = "active" /\ lease'[l].peer = p
    BY <1>1 DEF Kept, RegistryConsistent, TypeOK
  <2>4. QED BY <2>1, <2>2, <2>3 DEF RegistryConsistent
<1>6. QED BY <1>4, <1>5 DEF Kept

\* A peer is dropped from g.peers only when it owns no attempt and is closed.
LEMMA DropPeersKept ==
    ASSUME TypeOK, Kept, UNCHANGED <<attempts, lease, closed>>, NEW gone \in SUBSET PeerIDs,
           \A id \in gone : peers[id] \in PeerLeases /\ peer[peers[id]].attempts = {},
           \A id \in PeerIDs : peers'[id] = IF id \in gone THEN None ELSE peers[id],
           \A p \in PeerLeases :
              /\ peer'[p].id = peer[p].id /\ peer'[p].attempts = peer[p].attempts
              /\ peer'[p].state \in {peer[p].state, "closed"}
              /\ (\E id \in gone : peers[id] = p) => peer'[p].state = "closed"
              /\ drainer'[p].pc # "idle" => drainer[p].pc # "idle"
    PROVE  Kept'
<1>1. \A p \in PeerLeases : peer'[p].state = "open" =>
         /\ peer[p].state = "open" /\ peers[peer[p].id] = p /\ peer[p].id \in PeerIDs
         /\ peer[p].id \notin gone
    BY DEF Kept, PeersKept
<1>2. PeersKept'
  <2>1. \A p \in PeerLeases :
          /\ peer'[p].state = "open" => peer'[p].id \in PeerIDs /\ peers'[peer'[p].id] = p
          /\ peer'[p].state = "free" => peer'[p].attempts = {}
          /\ drainer'[p].pc # "idle" => peer'[p].state = "closed"
    BY <1>1 DEF Kept, PeersKept
  <2>2. \A l \in Leases : lease'[l].state = "active" =>
          /\ lease'[l].peer \in PeerLeases /\ lease'[l].id \in AttemptIDs
          /\ peer'[lease'[l].peer].id \in PeerIDs
          /\ ~closed'
    BY DEF Kept, PeersKept
  <2>3. QED BY <2>1, <2>2 DEF PeersKept
<1>3. RegistryConsistent'
  <2>1. ASSUME NEW l \in Leases, lease[l].state = "active"
        PROVE  /\ attempts[lease[l].id] = l
               /\ l \in peer'[lease[l].peer].attempts
               /\ peers'[peer'[lease[l].peer].id] = lease[l].peer
    <3>1. /\ lease[l].peer \in PeerLeases /\ peer[lease[l].peer].id \in PeerIDs
          /\ attempts[lease[l].id] = l /\ l \in peer[lease[l].peer].attempts
          /\ peers[peer[lease[l].peer].id] = lease[l].peer
      BY <2>1 DEF Kept, PeersKept, RegistryConsistent
    <3>2. peer[lease[l].peer].id \notin gone BY <3>1
    <3>3. QED BY <3>1, <3>2
  <2>2. \A l \in Registered' : lease'[l].state = "active"
    BY DEF Registered, Kept, RegistryConsistent
  <2>3. \A p \in PeerLeases : \A l \in peer'[p].attempts :
          lease'[l].state = "active" /\ lease'[l].peer = p
    BY DEF Kept, RegistryConsistent
  <2>4. QED BY <2>1, <2>2, <2>3 DEF RegistryConsistent
<1>4. QED BY <1>2, <1>3 DEF Kept

\* stopActiveLocked leaves nothing registered and nothing active.
LEMMA CloseCompletesKept ==
    ASSUME TypeOK, Kept, CloseCompletes
    PROVE  Kept'
<1> DEFINE held == {peers[id] : id \in ActivePeers}
           left == UNION {peer[p].attempts : p \in held}
<1>1. /\ \A l \in Leases : lease'[l] =
            IF l \in left THEN [lease[l] EXCEPT !.state = "closed", !.stopping = TRUE]
            ELSE lease[l]
      /\ \A p \in PeerLeases : peer'[p] =
            IF p \in held THEN [peer[p] EXCEPT !.state = "closed", !.attempts = {}]
            ELSE peer[p]
      /\ \A id \in AttemptIDs : attempts'[id] = None
    BY DEF CloseCompletes
<1>2. \A l \in Leases : l \in left <=> lease[l].state = "active"
    BY CloseFindsAll DEF Kept
<1>3. \A l \in Leases : lease'[l].state # "active"
  <2> HIDE DEF left
  <2>1. QED BY <1>1, <1>2 DEF TypeOK, LeaseStates
<1>4. \A p \in PeerLeases : p \notin held => peer[p].attempts = {} /\ peer[p].state # "open"
  <2> SUFFICES ASSUME NEW p \in PeerLeases, p \notin held
               PROVE  peer[p].attempts = {} /\ peer[p].state # "open"
      OBVIOUS
  <2>1. \A id \in PeerIDs : peers[id] # p
    BY GovernorObjects DEF ActivePeers
  <2>2. peer[p].state # "open" BY <2>1 DEF Kept, PeersKept
  <2>3. ASSUME NEW l \in peer[p].attempts PROVE FALSE
    <3>1. l \in Leases /\ lease[l].state = "active" /\ lease[l].peer = p
      BY DEF TypeOK, Kept, RegistryConsistent
    <3>2. peer[p].id \in PeerIDs /\ peers[peer[p].id] = p
      BY <3>1 DEF Kept, PeersKept, RegistryConsistent
    <3>3. QED BY <2>1, <3>2
  <2>4. QED BY <2>2, <2>3
<1>5. \A p \in PeerLeases : peer'[p].attempts = {} /\ peer'[p].state # "open"
  <2> SUFFICES ASSUME NEW p \in PeerLeases PROVE peer'[p].attempts = {} /\ peer'[p].state # "open"
      OBVIOUS
  <2>1. peer[p] \in PeerStates BY DEF TypeOK, PeerStates
  <2>2. CASE p \in held
    <3>1. peer'[p] = [peer[p] EXCEPT !.state = "closed", !.attempts = {}] BY <1>1, <2>2
    <3>2. QED BY <2>1, <3>1 DEF PeerStates
  <2>3. CASE p \notin held
    <3>1. peer'[p] = peer[p] BY <1>1, <2>3
    <3>2. QED BY <1>4, <2>3, <3>1
  <2>4. QED BY <2>2, <2>3
<1>6. \A p \in PeerLeases : peer[p].state = "closed" => peer'[p].state = "closed"
  <2> SUFFICES ASSUME NEW p \in PeerLeases, peer[p].state = "closed"
               PROVE  peer'[p].state = "closed"
      OBVIOUS
  <2>1. peer[p] \in PeerStates BY DEF TypeOK, PeerStates
  <2>2. \/ peer'[p] = [peer[p] EXCEPT !.state = "closed", !.attempts = {}]
        \/ peer'[p] = peer[p]
    BY <1>1
  <2>3. QED BY <2>1, <2>2 DEF PeerStates
<1>7. \A p \in PeerLeases : drainer'[p].pc # "idle" => peer'[p].state = "closed"
  <2>1. \A p \in PeerLeases : drainer'[p] = drainer[p]
    BY GovernorObjects DEF CloseCompletes, TypeOK, Drainers
  <2>2. QED BY <1>6, <2>1 DEF Kept, PeersKept
<1>8. PeersKept' BY <1>3, <1>5, <1>7 DEF PeersKept
<1>9. RegistryConsistent'
    BY <1>1, <1>3, <1>5, NoneIsNoLease DEF RegistryConsistent, Registered
<1>10. QED BY <1>8, <1>9 DEF Kept

\* Every step keeps the maps and the lease objects in agreement.
LEMMA StepKept ==
    ASSUME TypeOK, Guarded, Kept, [Next]_vars
    PROVE  Kept'
<1>d. drainer \in [Drainers -> DrainerStates] BY DEF TypeOK
<1>r. Registered \in SUBSET Leases BY DEF Registered
<1>p. ASSUME NEW d \in Drainers, NEW v, drainer' = [drainer EXCEPT ![d] = v], d \notin PeerLeases
      PROVE  \A p \in PeerLeases : drainer'[p].pc # "idle" => drainer[p].pc # "idle"
    BY <1>p DEF TypeOK
<1>1. CASE UNCHANGED vars
    BY <1>1, StillKept DEF vars, flags, registry
<1>2. CASE Admit
  <2>1. CASE \E p \in PeerLeases, id \in PeerIDs : AcquirePeer(p, id)
    BY <2>1, AcquirePeerKept
  <2>2. CASE \E p \in PeerLeases, id \in AttemptIDs, cost \in Costs,
                heavy, loopback \in BOOLEAN, l \in Leases :
                AcquireAttempt(l, p, id, cost, heavy, loopback)
    BY <2>2, AcquireAttemptKept
  <2>3. CASE \E p \in PeerLeases, id \in AttemptIDs, cost \in Costs,
                heavy, loopback \in BOOLEAN :
                RefuseOverLimit(p, id, cost, heavy, loopback)
    BY <2>3, <1>d, TripLockedKept DEF RefuseOverLimit, registry
  <2>4. QED BY <1>2, <2>1, <2>2, <2>3 DEF Admit
<1>3. CASE Trip
    BY <1>3, <1>d, TripLockedKept DEF Trip, registry
<1>4. CASE CloseGovernor
  <2>1. \A p \in PeerLeases : drainer'[p].pc # "idle" => drainer[p].pc # "idle"
    BY <1>4, <1>p, GovernorObjects DEF CloseGovernor, Drainers
  <2>2. QED BY <1>4, <1>r, <2>1, BeginStoppingKeeps, StillKept DEF CloseGovernor, registry
<1>5. CASE CloseRefused
  <2>1. \A p \in PeerLeases : drainer'[p].pc # "idle" => drainer[p].pc # "idle"
    BY <1>5, <1>p, GovernorObjects DEF CloseRefused, Drainers
  <2>2. QED BY <1>5, <2>1, StillKept DEF CloseRefused, registry
<1>6. CASE FinishTripDrain
  <2> DEFINE gone == {id \in ActivePeers : peer[peers[id]].attempts = {}}
  <2>1. /\ \A id \in PeerIDs : peers'[id] = IF id \in gone THEN None ELSE peers[id]
        /\ \A p \in PeerLeases : peer'[p] = IF \E id \in gone : peers[id] = p
                                            THEN [peer[p] EXCEPT !.state = "closed"]
                                            ELSE peer[p]
        /\ UNCHANGED <<attempts, lease, closed>>
    BY <1>6 DEF FinishTripDrain
  <2>2. \A p \in PeerLeases : drainer'[p].pc # "idle" => drainer[p].pc # "idle"
    BY <1>6, <1>p, GovernorObjects DEF FinishTripDrain, Drainers
  <2>3. /\ gone \in SUBSET PeerIDs
        /\ \A id \in gone : peers[id] \in PeerLeases /\ peer[peers[id]].attempts = {}
    BY DEF ActivePeers, TypeOK
  <2> HIDE DEF gone
  <2>4. ASSUME NEW p \in PeerLeases
        PROVE  /\ peer'[p].id = peer[p].id /\ peer'[p].attempts = peer[p].attempts
               /\ peer'[p].state \in {peer[p].state, "closed"}
               /\ (\E id \in gone : peers[id] = p) => peer'[p].state = "closed"
    <3>1. peer[p] \in PeerStates BY DEF TypeOK, PeerStates
    <3>2. CASE \E id \in gone : peers[id] = p
      <4>1. peer'[p] = [peer[p] EXCEPT !.state = "closed"] BY <2>1, <3>2
      <4>2. QED BY <3>1, <4>1 DEF PeerStates
    <3>3. CASE ~\E id \in gone : peers[id] = p
      <4>1. peer'[p] = peer[p] BY <2>1, <3>3
      <4>2. QED BY <3>3, <4>1
    <3>4. QED BY <3>2, <3>3
  <2>5. QED BY <2>1, <2>2, <2>3, <2>4, DropPeersKept
<1>7. CASE CloseCompletes BY <1>7, CloseCompletesKept
<1>8. ASSUME NEW q \in PeerLeases, ClosePeer(q) PROVE Kept'
  <2>1. /\ peer' = [peer EXCEPT ![q] = [@ EXCEPT !.state = "closed"]]
        /\ BeginStopping(peer[q].attempts, term)
        /\ drainer' = [drainer EXCEPT ![q] = Draining(peer[q].attempts)]
        /\ UNCHANGED <<closed, peers, attempts>>
    BY <1>8 DEF ClosePeer, flags
  <2>2. peer[q].attempts \in SUBSET Leases BY DEF TypeOK
  <2>3. ASSUME NEW p \in PeerLeases
        PROVE  /\ peer'[p].id = peer[p].id /\ peer'[p].attempts = peer[p].attempts
               /\ peer'[p].state \in {peer[p].state, "closed"}
               /\ drainer'[p].pc # "idle" => peer'[p].state = "closed"
    <3>1. CASE p = q BY <2>1, <3>1 DEF TypeOK
    <3>2. CASE p # q
      <4>1. peer'[p] = peer[p] /\ drainer'[p] = drainer[p] BY <2>1, <3>2 DEF TypeOK
      <4>2. QED BY <4>1 DEF Kept, PeersKept
    <3>3. QED BY <3>1, <3>2
  <2>4. QED BY <2>1, <2>2, <2>3, BeginStoppingKeeps, QuietKept
<1>9. ASSUME NEW q \in PeerLeases, FinishPeerClose(q) PROVE Kept'
  <2> DEFINE gone == {id \in PeerIDs : peers[id] = q /\ peer[q].attempts = {}}
  <2>1. /\ \A id \in PeerIDs : peers'[id] = IF id \in gone THEN None ELSE peers[id]
        /\ peer' = peer /\ UNCHANGED <<attempts, lease, closed>>
        /\ drainer' = [drainer EXCEPT ![q] = Idle] /\ drainer[q].pc = "phased"
    BY <1>9 DEF FinishPeerClose, Judged, flags
  <2>2. peer[q].state = "closed" BY <2>1 DEF Kept, PeersKept
  <2>3. /\ gone \in SUBSET PeerIDs
        /\ \A id \in gone : peers[id] \in PeerLeases /\ peer[peers[id]].attempts = {}
        /\ \A id \in gone : peers[id] = q
    OBVIOUS
  <2> HIDE DEF gone
  <2>4. \A p \in PeerLeases :
              /\ peer'[p].id = peer[p].id /\ peer'[p].attempts = peer[p].attempts
              /\ peer'[p].state \in {peer[p].state, "closed"}
              /\ (\E id \in gone : peers[id] = p) => peer'[p].state = "closed"
              /\ drainer'[p].pc # "idle" => drainer[p].pc # "idle"
    BY <2>1, <2>2, <2>3 DEF TypeOK, Idle
  <2>5. QED BY <2>1, <2>3, <2>4, DropPeersKept
<1>10. ASSUME NEW d \in Drainers, Drain(d) PROVE Kept'
  <2>1. CASE DrainExpires(d)
    <3>1. PICK v : drainer' = [drainer EXCEPT ![d].pc = "expired", ![d].victim = v]
      BY <2>1 DEF DrainExpires
    <3>2. \A p \in PeerLeases : drainer'[p].pc # "idle" => drainer[p].pc # "idle"
      <4>1. drainer[d].pc = "wait" BY <2>1 DEF DrainExpires
      <4>2. \A p \in PeerLeases : p # d => drainer'[p] = drainer[p]
        BY <1>d, <3>1 DEF Drainers
      <4>3. QED BY <4>1, <4>2
    <3>3. QED BY <2>1, <3>2, StillKept DEF DrainExpires, flags, registry
  <2>2. CASE DrainTrips(d)
    <3> DEFINE next == [drainer EXCEPT ![d].pc = "release", ![d].victim = None]
    <3>1. /\ next \in [Drainers -> DrainerStates]
          /\ \A p \in PeerLeases : next[p].pc # "idle" => drainer[p].pc # "idle"
      <4>1. [drainer[d] EXCEPT !.pc = "release", !.victim = None] \in DrainerStates
        BY <1>d, DrainerUpdates
      <4>2. next = [drainer EXCEPT ![d] = [@ EXCEPT !.pc = "release", !.victim = None]]
        BY <1>d DEF DrainerStates
      <4>3. next \in [Drainers -> DrainerStates] BY <1>d, <4>1, <4>2
      <4>4. drainer[d].pc = "expired" BY <2>2 DEF DrainTrips
      <4>5. \A p \in PeerLeases : p # d => next[p] = drainer[p] BY <1>d, <4>2 DEF Drainers
      <4>6. QED BY <4>3, <4>4, <4>5
    <3>2. \/ TripLocked(next, term)
          \/ drainer' = next /\ lease' = lease
      BY <2>2 DEF DrainTrips
    <3> HIDE DEF next
    <3>3. QED BY <2>2, <3>1, <3>2, TripLockedKept, StillKept DEF DrainTrips, registry
  <2>3. CASE DrainReleases(d)
    <3>1. Ordinary(drainer[d].batch) \in SUBSET Leases
      BY DEF TypeOK, DrainerStates, Ordinary
    <3>2. drainer[d].pc # "idle" BY <2>3 DEF DrainReleases
    <3>3. \A p \in PeerLeases : drainer'[p].pc # "idle" => drainer[p].pc # "idle"
      BY <2>3, <3>2 DEF DrainReleases, TypeOK
    <3>4. QED BY <2>3, <3>1, <3>3, ReleaseKept DEF DrainReleases, flags, Guarded
  <2>4. QED BY <1>10, <2>1, <2>2, <2>3 DEF Drain
<1>11. ASSUME NEW l \in Leases,
              RegisterDrain(l) \/ RegisterAccounting(l) \/ CompleteDrain(l) \/ WriterCompletes(l)
       PROVE  Kept'
  <2>1. \A k \in Leases : /\ lease'[k].state = lease[k].state
                          /\ lease'[k].id = lease[k].id
                          /\ lease'[k].peer = lease[k].peer
    <3>1. CASE RegisterDrain(l) \/ RegisterAccounting(l)
      <4>1. \A k \in Leases : k # l => lease'[k] = lease[k]
        BY <3>1 DEF RegisterDrain, RegisterAccounting, TypeOK
      <4>2. lease[l] \in LeaseStates BY DEF TypeOK
      <4>3. \/ lease'[l] = [lease[l] EXCEPT !.net = lease[l].net + 1]
            \/ lease'[l] = [lease[l] EXCEPT !.acct = TRUE, !.acctUsed = TRUE]
        BY <3>1 DEF RegisterDrain, RegisterAccounting, TypeOK
      <4>4. /\ lease'[l].state = lease[l].state /\ lease'[l].id = lease[l].id
            /\ lease'[l].peer = lease[l].peer
        BY <4>2, <4>3 DEF LeaseStates
      <4>5. QED BY <4>1, <4>4
    <3>2. ASSUME NEW n, NEW a, NEW t, Completed(l, n, a, t)
          PROVE  \A k \in Leases : /\ lease'[k].state = lease[k].state
                                   /\ lease'[k].id = lease[k].id
                                   /\ lease'[k].peer = lease[k].peer
      BY <3>2 DEF Completed, TypeOK, LeaseStates
    <3>3. QED BY <1>11, <3>1, <3>2 DEF CompleteDrain, WriterCompletes
  <2>2. UNCHANGED <<attempts, peers, peer, closed, drainer>>
    BY <1>11 DEF RegisterDrain, RegisterAccounting, CompleteDrain, WriterCompletes,
                 flags, registry
  <2>3. QED BY <2>1, <2>2, StillKept
<1>12. ASSUME NEW l \in Leases, CloseAttempt(l) \/ CloseLoopback(l) \/ WriterStarts(l)
       PROVE  Kept'
  <2>1. {l} \in SUBSET Leases OBVIOUS
  <2>2. \E t : BeginStopping({l}, t)
    BY <1>12 DEF CloseAttempt, CloseLoopback, WriterStarts
  <2>3. \A p \in PeerLeases : drainer'[p].pc # "idle" => drainer[p].pc # "idle"
    BY <1>12, <1>p, GovernorObjects DEF CloseAttempt, CloseLoopback, WriterStarts, Drainers
  <2>4. UNCHANGED <<attempts, peers, peer, closed>>
    BY <1>12 DEF CloseAttempt, CloseLoopback, WriterStarts, flags, registry
  <2>5. QED BY <2>1, <2>2, <2>3, <2>4, BeginStoppingKeeps, StillKept
<1>13. ASSUME NEW l \in Leases, WriterFinishes(l) PROVE Kept'
    BY <1>13, StillKept DEF WriterFinishes, flags, registry
<1>14. ASSUME NEW l \in Leases, Manage(l) PROVE Kept'
  <2>1. CASE \/ ManagerNetworkDrained(l) \/ ManagerTimesOut(l)
             \/ ManagerFails(l) \/ ManagerSettles(l)
    BY <2>1, StillKept DEF ManagerNetworkDrained, ManagerTimesOut, ManagerFails,
                           ManagerSettles, flags, registry
  <2>2. CASE ManagerNetworkExpires(l)
    BY <2>2, <1>d, TripLockedKept DEF ManagerNetworkExpires, registry
  <2>3. CASE ManagerSucceeds(l)
    <3>1. {l} \in SUBSET Leases OBVIOUS
    <3>2. QED BY <2>3, <3>1, ReleaseKept DEF ManagerSucceeds, flags, Guarded
  <2>4. QED BY <1>14, <2>1, <2>2, <2>3 DEF Manage
<1>15. QED
    BY <1>1, <1>2, <1>3, <1>4, <1>5, <1>6, <1>7, <1>8, <1>9, <1>10, <1>11, <1>12,
       <1>13, <1>14 DEF Next, Close, PeerClose, finishLoopback

\* Initially both are empty.
LEMMA InitKept == Init => Kept
<1> SUFFICES ASSUME Init PROVE Kept OBVIOUS
<1>1. PeersKept BY DEF Init, PeersKept, Idle, Drainers
<1>2. RegistryConsistent
    BY NoneIsNoLease DEF Init, RegistryConsistent, Registered
<1>3. QED BY <1>1, <1>2 DEF Kept

-----------------------------------------------------------------------------
(* The finalization counter *)

\* The loopback attempts that stop without a success: what FinalizingCounts counts.
Unresolved == {l \in Leases : lease[l].loopback /\ lease[l].stopping /\ term[l].verdict # "ok"}

\* A step that resolves and stops no loopback attempt keeps the count.
LEMMA SameCount ==
    ASSUME FinalizingCounts, finalizing' = finalizing,
           \A l \in Leases : l \in Unresolved' <=> l \in Unresolved
    PROVE  FinalizingCounts'
<1>1. Unresolved' = Unresolved BY DEF Unresolved
<1>2. QED BY <1>1 DEF FinalizingCounts, Unresolved

\* beginAttemptStoppingLocked counts each loopback attempt it stops, once.
LEMMA BeginStoppingCount ==
    ASSUME TypeOK, TermsSound, FinalizingCounts, NEW S \in SUBSET Leases,
           NEW t \in [Leases -> TermStates],
           \A l \in Leases : t[l].verdict = term[l].verdict, BeginStopping(S, t)
    PROVE  FinalizingCounts'
<1> DEFINE new == Phased(Stoppable(S))
<1>1. /\ finalizing' = finalizing + Cardinality(new)
      /\ \A l \in Leases : lease'[l] =
            IF l \in Stoppable(S)
            THEN [lease[l] EXCEPT !.stopping = TRUE, !.drained = Pending(l) = 0]
            ELSE lease[l]
      /\ \A l \in Leases : term'[l] =
            IF l \in new
            THEN [t[l] EXCEPT !.manager = "network", !.netClosed = lease[l].net = 0,
                              !.acctClosed = ~lease[l].acct]
            ELSE t[l]
    BY Zenon DEF BeginStopping
<1>2. new \subseteq Leases /\ Unresolved \subseteq Leases BY DEF Phased, Stoppable, Unresolved
<1>3. ASSUME NEW l \in Leases
      PROVE  /\ l \in new => l \notin Unresolved /\ l \in Unresolved'
             /\ l \notin new => (l \in Unresolved' <=> l \in Unresolved)
  <2>0. lease[l] \in LeaseStates /\ t[l] \in TermStates /\ Sound(lease[l], term[l])
    BY DEF TypeOK, TermsSound
  <2>1. term'[l].verdict = term[l].verdict BY <1>1, <2>0 DEF TermStates
  <2>2. lease'[l].loopback = lease[l].loopback BY <1>1, <2>0 DEF LeaseStates
  <2>3. l \in Stoppable(S) => lease'[l].stopping BY <1>1, <2>0 DEF LeaseStates
  <2>4. l \notin Stoppable(S) => lease'[l].stopping = lease[l].stopping BY <1>1
  <2>5. l \in new <=> l \in Stoppable(S) /\ lease[l].loopback BY DEF Phased
  <2>6. l \in Stoppable(S) => ~lease[l].stopping BY DEF Stoppable
  <2>7. ~lease[l].stopping => term[l].verdict = "none" BY <2>0 DEF Sound
  <2>8. /\ l \in Unresolved <=> lease[l].loopback /\ lease[l].stopping /\ term[l].verdict # "ok"
        /\ l \in Unresolved' <=> lease'[l].loopback /\ lease'[l].stopping /\ term'[l].verdict # "ok"
    BY DEF Unresolved
  <2> HIDE DEF new
  <2>9. QED BY <2>1, <2>2, <2>3, <2>4, <2>5, <2>6, <2>7, <2>8
<1>4. Unresolved' = Unresolved \cup new /\ Unresolved \cap new = {}
  <2>1. Unresolved' \subseteq Leases BY DEF Unresolved
  <2> HIDE DEF new
  <2>2. QED BY <1>2, <1>3, <2>1
<1>5. IsFiniteSet(Unresolved) /\ IsFiniteSet(new) BY <1>2, GovernorObjects, FS_Subset
<1> HIDE DEF new
<1>6. Cardinality(Unresolved \cup new) = Cardinality(Unresolved) + Cardinality(new)
  <2>1. Cardinality(Unresolved \cap new) = 0 BY <1>4, FS_EmptySet
  <2>2. Cardinality(Unresolved) \in Nat /\ Cardinality(new) \in Nat BY <1>5, FS_CardinalityType
  <2>3. Cardinality(Unresolved \cup new)
           = Cardinality(Unresolved) + Cardinality(new) - Cardinality(Unresolved \cap new)
    BY <1>5, FS_Union
  <2>4. QED BY <2>1, <2>2, <2>3
<1>7. finalizing = Cardinality(Unresolved) BY DEF FinalizingCounts, Unresolved
<1>8. finalizing' = Cardinality(Unresolved') BY <1>1, <1>4, <1>6, <1>7
<1>9. QED BY <1>8 DEF FinalizingCounts, Unresolved

\* tripLocked counts what it stops.
LEMMA TripLockedCount ==
    ASSUME TypeOK, TermsSound, FinalizingCounts, NEW d, NEW t \in [Leases -> TermStates],
           \A l \in Leases : t[l].verdict = term[l].verdict, TripLocked(d, t)
    PROVE  FinalizingCounts'
<1>1. CASE closed
    BY <1>1, SameCount DEF TripLocked, Unresolved
<1>2. CASE ~closed
  <2>1. BeginStopping(Registered, t) BY <1>2 DEF TripLocked
  <2>2. Registered \in SUBSET Leases BY DEF Registered
  <2>3. QED BY <2>1, <2>2, BeginStoppingCount
<1>3. QED BY <1>1, <1>2

\* A success uncounts its attempt, once.
LEMMA SucceedsCount ==
    ASSUME TypeOK, TermsSound, FinalizingCounts, NEW l \in Leases, ManagerSucceeds(l)
    PROVE  FinalizingCounts'
<1>0. lease[l] \in LeaseStates /\ term[l] \in TermStates /\ Sound(lease[l], term[l])
    BY DEF TypeOK, TermsSound
<1>1. l \in Unresolved BY <1>0 DEF ManagerSucceeds, Unresolved, Sound
<1>2. term'[l].verdict = "ok"
    BY <1>0 DEF ManagerSucceeds, TypeOK, TermStates
<1>3. \A k \in Leases : k # l => lease'[k] = lease[k] /\ term'[k] = term[k]
    BY DEF ManagerSucceeds, Release, TypeOK
<1>4. Unresolved' = Unresolved \ {l}
    BY <1>2, <1>3 DEF Unresolved
<1>5. IsFiniteSet(Unresolved) BY GovernorObjects, FS_Subset DEF Unresolved
<1>6. Cardinality(Unresolved \ {l}) = Cardinality(Unresolved) - 1
    BY <1>1, <1>5, FS_RemoveElement
<1>7. finalizing' = finalizing - 1 BY DEF ManagerSucceeds
<1>8. finalizing' = Cardinality(Unresolved')
    BY <1>4, <1>6, <1>7 DEF FinalizingCounts, Unresolved
<1>9. QED BY <1>8 DEF FinalizingCounts, Unresolved

\* Every step keeps the finalization counter exact.
LEMMA StepCount ==
    ASSUME TypeOK, TermsSound, Kept, FinalizingCounts, [Next]_vars
    PROVE  FinalizingCounts'
<1>t. /\ term \in [Leases -> TermStates] /\ Registered \in SUBSET Leases
      /\ \A l \in Leases : term[l].verdict = term[l].verdict
    BY DEF TypeOK, Registered
<1>1. CASE UNCHANGED vars BY <1>1, SameCount DEF vars, Unresolved
<1>2. CASE Admit
  <2>1. CASE \E p \in PeerLeases, id \in PeerIDs : AcquirePeer(p, id)
    BY <2>1, SameCount DEF AcquirePeer, Unresolved
  <2>2. ASSUME NEW p \in PeerLeases, NEW id \in AttemptIDs, NEW cost \in Costs,
               NEW heavy \in BOOLEAN, NEW loopback \in BOOLEAN, NEW l \in Leases,
               AcquireAttempt(l, p, id, cost, heavy, loopback)
        PROVE  FinalizingCounts'
    <3>1. /\ term' = term /\ finalizing' = finalizing
          /\ \A k \in Leases : k # l => lease'[k] = lease[k]
          /\ ~lease[l].stopping /\ lease'[l].stopping = lease[l].stopping
      BY <2>2 DEF AcquireAttempt, TypeOK, LeaseStates, TermsSound, Sound
    <3>2. QED BY <3>1, SameCount DEF Unresolved
  <2>3. CASE \E p \in PeerLeases, id \in AttemptIDs, cost \in Costs,
                heavy, loopback \in BOOLEAN :
                RefuseOverLimit(p, id, cost, heavy, loopback)
    BY <2>3, <1>t, TripLockedCount DEF RefuseOverLimit
  <2>4. QED BY <1>2, <2>1, <2>2, <2>3 DEF Admit
<1>3. CASE Trip BY <1>3, <1>t, TripLockedCount DEF Trip
<1>4. CASE CloseGovernor BY <1>4, <1>t, BeginStoppingCount DEF CloseGovernor
<1>5. CASE CloseRefused \/ FinishTripDrain
    BY <1>5, SameCount DEF CloseRefused, FinishTripDrain, Unresolved
<1>6. CASE CloseCompletes
  <2>1. /\ term' = term /\ finalizing' = finalizing /\ ~LoopbackWorkOutstanding
    BY <1>6 DEF CloseCompletes
  <2>2. ASSUME NEW l \in Leases PROVE l \in Unresolved' <=> l \in Unresolved
    <3>0. lease[l] \in LeaseStates /\ Sound(lease[l], term[l]) BY DEF TypeOK, TermsSound
    <3>1. CASE lease[l].state = "active"
      <4>1. lease[l].loopback => lease[l].stopping
        BY <2>1, <3>0, <3>1, ActiveRegistered
           DEF LoopbackWorkOutstanding, Phased, Sound, Kept
      <4>2. l \in UNION {peer[p].attempts : p \in {peers[id] : id \in ActivePeers}}
        BY <3>1, CloseFindsAll DEF Kept
      <4>3. lease'[l] = [lease[l] EXCEPT !.state = "closed", !.stopping = TRUE]
        BY <1>6, <4>2 DEF CloseCompletes
      <4>4. lease'[l].loopback = lease[l].loopback /\ lease'[l].stopping
        BY <3>0, <4>3 DEF LeaseStates
      <4>5. QED BY <2>1, <4>1, <4>4 DEF Unresolved
    <3>2. CASE lease[l].state # "active"
      <4>1. l \notin UNION {peer[p].attempts : p \in {peers[id] : id \in ActivePeers}}
        BY <3>2, CloseFindsAll DEF Kept
      <4>2. lease'[l] = lease[l] BY <1>6, <4>1 DEF CloseCompletes
      <4>3. QED BY <2>1, <4>2 DEF Unresolved
    <3>3. QED BY <3>1, <3>2
  <2>3. QED BY <2>1, <2>2, SameCount
<1>7. ASSUME NEW p \in PeerLeases, ClosePeer(p) \/ FinishPeerClose(p)
      PROVE  FinalizingCounts'
  <2>1. CASE ClosePeer(p)
    <3>1. peer[p].attempts \in SUBSET Leases BY DEF TypeOK
    <3>2. QED BY <2>1, <3>1, <1>t, BeginStoppingCount DEF ClosePeer
  <2>2. CASE FinishPeerClose(p) BY <2>2, SameCount DEF FinishPeerClose, Unresolved
  <2>3. QED BY <1>7, <2>1, <2>2
<1>8. ASSUME NEW d \in Drainers, Drain(d) PROVE FinalizingCounts'
  <2>1. CASE DrainExpires(d) BY <2>1, SameCount DEF DrainExpires, Unresolved
  <2>2. CASE DrainTrips(d)
    <3>1. \/ \E n : TripLocked(n, term)
          \/ UNCHANGED <<finalizing, lease, term>>
      BY <2>2 DEF DrainTrips
    <3>2. CASE UNCHANGED <<finalizing, lease, term>> BY <3>2, SameCount DEF Unresolved
    <3>3. QED BY <3>1, <3>2, <1>t, TripLockedCount
  <2>3. CASE DrainReleases(d)
    <3>1. /\ Release(Ordinary(drainer[d].batch)) /\ UNCHANGED <<finalizing, term>>
      BY <2>3 DEF DrainReleases
    <3>2. ASSUME NEW l \in Leases PROVE l \in Unresolved' <=> l \in Unresolved
      <4>1. \/ lease'[l] = lease[l]
            \/ /\ ~lease[l].loopback
               /\ lease'[l] = [lease[l] EXCEPT !.state = "closed", !.stopping = TRUE]
        BY <3>1 DEF Release, Ordinary
      <4>2. lease[l] \in LeaseStates BY DEF TypeOK
      <4>3. lease'[l] = lease[l] \/ (~lease[l].loopback /\ ~lease'[l].loopback)
        BY <4>1, <4>2 DEF LeaseStates
      <4>4. QED BY <3>1, <4>3 DEF Unresolved
    <3>3. QED BY <3>1, <3>2, SameCount
  <2>4. QED BY <1>8, <2>1, <2>2, <2>3 DEF Drain
<1>9. ASSUME NEW l \in Leases, RegisterDrain(l) \/ RegisterAccounting(l)
      PROVE  FinalizingCounts'
  <2>0. lease[l] \in LeaseStates BY DEF TypeOK
  <2>1. /\ \A k \in Leases : k # l => lease'[k] = lease[k]
        /\ UNCHANGED <<finalizing, term>>
        /\ \/ lease'[l] = [lease[l] EXCEPT !.net = lease[l].net + 1]
           \/ lease'[l] = [lease[l] EXCEPT !.acct = TRUE, !.acctUsed = TRUE]
    BY <1>9 DEF RegisterDrain, RegisterAccounting, TypeOK
  <2>2. lease'[l].loopback = lease[l].loopback /\ lease'[l].stopping = lease[l].stopping
    BY <2>0, <2>1 DEF LeaseStates
  <2>3. QED BY <2>1, <2>2, SameCount DEF Unresolved
<1>10. ASSUME NEW l \in Leases, NEW n, NEW a, NEW t, Completed(l, n, a, t),
              t \in [Leases -> TermStates],
              \A k \in Leases : t[k].verdict = term[k].verdict, finalizing' = finalizing
       PROVE  FinalizingCounts'
  <2>1. \A k \in Leases : /\ lease'[k].loopback = lease[k].loopback
                          /\ lease'[k].stopping = lease[k].stopping
    BY <1>10 DEF Completed, TypeOK, LeaseStates
  <2>2. \A k \in Leases : term'[k].verdict = term[k].verdict
    BY <1>10 DEF Completed, TermStates
  <2>3. QED BY <1>10, <2>1, <2>2, SameCount DEF Unresolved
<1>11. ASSUME NEW l \in Leases, CompleteDrain(l) PROVE FinalizingCounts'
    BY <1>11, <1>10, <1>t DEF CompleteDrain
<1>12. ASSUME NEW l \in Leases, CloseAttempt(l) \/ CloseLoopback(l) PROVE FinalizingCounts'
  <2>1. {l} \in SUBSET Leases OBVIOUS
  <2>2. QED BY <1>12, <1>t, <2>1, BeginStoppingCount DEF CloseAttempt, CloseLoopback
<1>w. ASSUME NEW l \in Leases, NEW x \in {"started", "done"}
      PROVE  /\ [term EXCEPT ![l].writer = x] \in [Leases -> TermStates]
             /\ \A k \in Leases : [term EXCEPT ![l].writer = x][k].verdict = term[k].verdict
  <2>1. [term[l] EXCEPT !.writer = x] \in TermStates BY <1>t DEF TermStates
  <2>2. [term[l] EXCEPT !.writer = x].verdict = term[l].verdict BY <1>t DEF TermStates
  <2>3. QED BY <1>t, <2>1, <2>2
<1>13. ASSUME NEW l \in Leases,
              WriterStarts(l) \/ WriterFinishes(l) \/ WriterCompletes(l)
       PROVE  FinalizingCounts'
  <2>1. CASE WriterStarts(l)
    <3> DEFINE t == [term EXCEPT ![l].writer = "started"]
    <3>1. BeginStopping({l}, t) /\ {l} \in SUBSET Leases BY <2>1 DEF WriterStarts
    <3>2. t \in [Leases -> TermStates] /\ \A k \in Leases : t[k].verdict = term[k].verdict
      BY <1>w
    <3> HIDE DEF t
    <3>3. QED BY <3>1, <3>2, BeginStoppingCount
  <2>2. CASE WriterFinishes(l)
    <3>1. \A k \in Leases : term'[k].verdict = term[k].verdict
      BY <2>2, <1>t DEF WriterFinishes, TermStates
    <3>2. QED BY <2>2, <3>1, SameCount DEF WriterFinishes, Unresolved
  <2>3. CASE WriterCompletes(l)
    <3> DEFINE t == [term EXCEPT ![l].writer = "done"]
    <3>1. Completed(l, lease[l].net, FALSE, t) /\ finalizing' = finalizing
      BY <2>3 DEF WriterCompletes
    <3>2. t \in [Leases -> TermStates] /\ \A k \in Leases : t[k].verdict = term[k].verdict
      BY <1>w
    <3> HIDE DEF t
    <3>3. QED BY <3>1, <3>2, <1>10
  <2>4. QED BY <1>13, <2>1, <2>2, <2>3
<1>14. ASSUME NEW l \in Leases, Manage(l) PROVE FinalizingCounts'
  <2>0. term[l] \in TermStates /\ Sound(lease[l], term[l]) BY DEF TypeOK, TermsSound
  <2>1. CASE ManagerNetworkDrained(l) \/ ManagerTimesOut(l) \/ ManagerSettles(l)
    <3>1. \A k \in Leases : term'[k].verdict = term[k].verdict
      BY <2>1, <1>t DEF ManagerNetworkDrained, ManagerTimesOut, ManagerSettles, TermStates
    <3>2. UNCHANGED <<finalizing, lease>>
      BY <2>1 DEF ManagerNetworkDrained, ManagerTimesOut, ManagerSettles
    <3>3. QED BY <3>1, <3>2, SameCount DEF Unresolved
  <2>2. CASE ManagerFails(l)
    <3>1. term[l].verdict = "none" BY <2>0, <2>2 DEF ManagerFails, Sound
    <3>2. /\ term'[l].verdict = "failed" /\ \A k \in Leases : k # l => term'[k] = term[k]
          /\ UNCHANGED <<finalizing, lease>>
      BY <2>0, <2>2 DEF ManagerFails, TypeOK, TermStates
    <3>3. QED BY <3>1, <3>2, SameCount DEF Unresolved
  <2>3. CASE ManagerNetworkExpires(l)
    <3> DEFINE w == [term[l] EXCEPT !.manager = "accounting", !.netErr = TRUE]
               t == [term EXCEPT ![l] = w]
    <3>1. TripLocked(drainer, t) BY <2>3 DEF ManagerNetworkExpires
    <3>2. w \in TermStates /\ w.verdict = term[l].verdict BY <2>0 DEF TermStates
    <3> HIDE DEF w
    <3>3. t \in [Leases -> TermStates] /\ \A k \in Leases : t[k].verdict = term[k].verdict
      BY <3>2, <1>t
    <3> HIDE DEF t
    <3>4. QED BY <3>1, <3>3, TripLockedCount
  <2>4. CASE ManagerSucceeds(l) BY <2>4, SucceedsCount
  <2>5. QED BY <1>14, <2>1, <2>2, <2>3, <2>4 DEF Manage
<1>15. QED
    BY <1>1, <1>2, <1>3, <1>4, <1>5, <1>6, <1>7, <1>8, <1>9, <1>11, <1>12, <1>13, <1>14
       DEF Next, Close, PeerClose, finishLoopback

-----------------------------------------------------------------------------
(* The reservations *)

\* What each lease object asks for; CostOf sums it.
Cost == [l \in Leases |-> lease[l].cost]

\* CostOf is such a sum, of natural numbers.
LEMMA CostIsTotal ==
    ASSUME TypeOK, NEW S \in SUBSET Leases
    PROVE  /\ Cost \in [Leases -> Nat] /\ CostOf(S) = Total(Cost, S)
           /\ CostOf(S) \in Nat
<1>1. Cost \in [Leases -> Nat] BY DEF Cost, TypeOK, LeaseStates
<1>2. CostOf(S) = Total(Cost, S) BY DEF CostOf, Total, Cost
<1>3. Total(Cost, S) \in Nat BY <1>1, GovernorObjects, TotalSplit
<1>4. QED BY <1>1, <1>2, <1>3

\* The same after a step.
LEMMA CostAfter == CostOf(Registered)' = Total(Cost', Registered')
<1>1. CostOf(Registered)' = Total(Cost, Registered)' BY DEF CostOf, Total, Cost
<1>2. Total(Cost, Registered)' = Total(Cost', Registered') OBVIOUS
<1>3. QED BY <1>1, <1>2

\* A step that moves no attempt in or out keeps the sums.
LEMMA QuietReserved ==
    ASSUME TypeOK, ReservationExact, attempts' = attempts, reserved' = reserved,
           heavyweight' = heavyweight,
           \A l \in Leases : lease'[l].cost = lease[l].cost /\ lease'[l].heavy = lease[l].heavy
    PROVE  ReservationExact'
<1>1. Registered' = Registered BY DEF Registered
<1>2. Cost' = Cost BY DEF Cost
<1>3. CostOf(Registered)' = CostOf(Registered)
  <2>1. CostOf(Registered)' = Total(Cost', Registered') BY CostAfter
  <2>2. CostOf(Registered) = Total(Cost, Registered) BY DEF CostOf, Total, Cost
  <2>3. QED BY <1>1, <1>2, <2>1, <2>2
<1>4. HeavyOf(Registered)' = HeavyOf(Registered)
  <2>1. {l \in Registered' : lease'[l].heavy} = {l \in Registered : lease[l].heavy}
    BY <1>1 DEF Registered
  <2>2. QED BY <2>1 DEF HeavyOf
<1>5. QED BY <1>3, <1>4 DEF ReservationExact

\* beginAttemptStoppingLocked changes no reservation.
LEMMA BeginStoppingCosts ==
    ASSUME TypeOK, NEW S \in SUBSET Leases, NEW t, BeginStopping(S, t), NEW l \in Leases
    PROVE  lease'[l].cost = lease[l].cost /\ lease'[l].heavy = lease[l].heavy
BY DEF BeginStopping, TypeOK, LeaseStates, Stoppable

\* Nor does tripLocked.
LEMMA TripLockedReserved ==
    ASSUME TypeOK, ReservationExact, NEW d, NEW t, TripLocked(d, t),
           UNCHANGED <<attempts, reserved, heavyweight>>
    PROVE  ReservationExact'
<1>1. CASE closed BY <1>1, QuietReserved DEF TripLocked
<1>2. CASE ~closed
  <2>1. BeginStopping(Registered, t) BY <1>2 DEF TripLocked
  <2>2. Registered \in SUBSET Leases BY DEF Registered
  <2>3. QED BY <2>1, <2>2, BeginStoppingCosts, QuietReserved
<1>3. QED BY <1>1, <1>2

\* acquireAttempt adds what it registers, within the limits it checked.
LEMMA AcquireReserved ==
    ASSUME TypeOK, RegistryHoldsActive, ReservationExact, NEW l \in Leases, NEW p \in PeerLeases,
           NEW id \in AttemptIDs, NEW cost \in Costs, NEW heavy \in BOOLEAN,
           NEW loopback \in BOOLEAN, AcquireAttempt(l, p, id, cost, heavy, loopback)
    PROVE  ReservationExact'
<1> DEFINE R == Registered
<1>1. /\ \A k \in Leases : k # l => lease'[k] = lease[k]
      /\ lease'[l].cost = cost /\ lease'[l].heavy = heavy /\ lease[l].state = "free"
    BY DEF AcquireAttempt, TypeOK, LeaseStates
<1>2. /\ attempts' = [attempts EXCEPT ![id] = l] /\ attempts[id] = None
      /\ reserved' = reserved + cost
      /\ heavyweight' = heavyweight + (IF heavy THEN 1 ELSE 0)
      /\ reserved + cost <= MaxReserved /\ (heavy => heavyweight < MaxHeavyweight)
    BY DEF AcquireAttempt, MayAcquire, WithinLimits
<1>3. l \notin R BY <1>1, NoneIsNoLease DEF Registered, RegistryHoldsActive
<1>4. Registered' = R \cup {l} BY <1>2, NoneIsNoLease DEF Registered, TypeOK
<1>5. R \in SUBSET Leases /\ R \cup {l} \in SUBSET Leases BY DEF Registered
<1>6. cost \in Nat BY GovernorConstants
<1> HIDE DEF R
<1>7. TypeOK' BY AdmitType DEF Admit
<1>8. CostOf(Registered)' = CostOf(R) + cost
  <2>1. Cost \in [Leases -> Nat] /\ CostOf(R) = Total(Cost, R) /\ CostOf(R) \in Nat
    BY <1>5, CostIsTotal
  <2>2. Cost' \in [Leases -> Nat] BY <1>7 DEF Cost, TypeOK, LeaseStates
  <2>3. CostOf(Registered)' = Total(Cost', R \cup {l}) BY <1>4, CostAfter
  <2>4. Cost'[l] = cost /\ \A k \in R : Cost'[k] = Cost[k] BY <1>1, <1>3, <1>5 DEF Cost
  <2>5. Total(Cost', R \cup {l}) = Cost'[l] + Total(Cost', (R \cup {l}) \ {l})
    BY <1>5, <2>2, GovernorObjects, TotalSplit
  <2>6. (R \cup {l}) \ {l} = R BY <1>3
  <2>7. Total(Cost', R) = Total(Cost, R)
    BY <1>5, <2>1, <2>2, <2>4, GovernorObjects, TotalAgrees
  <2>8. CostOf(Registered)' = cost + CostOf(R)
    BY <2>1, <2>3, <2>4, <2>5, <2>6, <2>7
  <2>9. QED BY <1>6, <2>1, <2>8
<1>9. HeavyOf(Registered)' = HeavyOf(R) + (IF heavy THEN 1 ELSE 0)
  <2> DEFINE H == {k \in R : lease[k].heavy}
             G == {k \in R \cup {l} : lease'[k].heavy}
  <2>1. HeavyOf(R) = Cardinality(H) /\ HeavyOf(Registered)' = Cardinality(G)
    BY <1>4 DEF HeavyOf
  <2>2. IsFiniteSet(H) /\ l \notin H BY <1>3, <1>5, GovernorObjects, FS_Subset
  <2>3. G = IF heavy THEN H \cup {l} ELSE H BY <1>1, <1>3, <1>5
  <2> HIDE DEF G, H
  <2>4. Cardinality(H \cup {l}) = Cardinality(H) + 1 /\ Cardinality(H) \in Nat
    BY <2>2, FS_AddElement, FS_CardinalityType
  <2>5. QED BY <2>1, <2>3, <2>4
<1>10. HeavyOf(R) = heavyweight /\ heavyweight \in Int /\ heavyweight <= MaxHeavyweight
       /\ CostOf(R) = reserved
    BY DEF ReservationExact, TypeOK, R
<1>11. reserved' = CostOf(Registered)' /\ reserved' <= MaxReserved BY <1>2, <1>8, <1>10
<1>12. heavyweight' = HeavyOf(Registered)' BY <1>2, <1>9, <1>10
<1>13. heavyweight' <= MaxHeavyweight BY <1>2, <1>10, GovernorConstants
<1>14. QED BY <1>11, <1>12, <1>13 DEF ReservationExact

\* releaseAttemptLocked takes out what it deregisters, and nothing twice.
LEMMA ReleaseReserved ==
    ASSUME TypeOK, TypeOK', Kept, RegistryHoldsActive, ReservationExact,
           NEW S \in SUBSET Leases, Release(S)
    PROVE  ReservationExact'
<1> DEFINE now == {l \in S : lease[l].state = "active"}
           R == Registered
<1>1. /\ \A l \in Leases : lease'[l] = IF l \in now
                  THEN [lease[l] EXCEPT !.state = "closed", !.stopping = TRUE] ELSE lease[l]
      /\ \A id \in AttemptIDs : attempts'[id] = IF \E l \in now : lease[l].id = id
                                               THEN None ELSE attempts[id]
      /\ reserved' = reserved - CostOf(now) /\ heavyweight' = heavyweight - HeavyOf(now)
    BY DEF Release
<1>2. now \in SUBSET R /\ R \in SUBSET Leases
  <2>1. \A l \in now : l \in R BY ActiveRegistered DEF Kept
  <2>2. QED BY <2>1 DEF Registered
<1>3. \A l \in Leases : lease'[l].cost = lease[l].cost /\ lease'[l].heavy = lease[l].heavy
  <2> SUFFICES ASSUME NEW l \in Leases
               PROVE  lease'[l].cost = lease[l].cost /\ lease'[l].heavy = lease[l].heavy
      OBVIOUS
  <2>1. lease[l] \in LeaseStates BY DEF TypeOK
  <2>2. \/ lease'[l] = [lease[l] EXCEPT !.state = "closed", !.stopping = TRUE]
        \/ lease'[l] = lease[l]
    BY <1>1
  <2>3. QED BY <2>1, <2>2 DEF LeaseStates
<1>4. Registered' = R \ now
  <2>1. ASSUME NEW l \in Leases PROVE l \in Registered' <=> l \in R /\ l \notin now
    <3>1. ASSUME l \in Registered' PROVE l \in R /\ l \notin now
      <4>1. PICK id \in AttemptIDs : attempts'[id] = l BY <3>1 DEF Registered
      <4>2. attempts[id] = l /\ ~\E k \in now : lease[k].id = id
        BY <1>1, <4>1, NoneIsNoLease
      <4>3. lease[l].id = id BY <4>2, NoneIsNoLease DEF RegistryHoldsActive
      <4>4. QED BY <4>2, <4>3 DEF Registered
    <3>2. ASSUME l \in R, l \notin now PROVE l \in Registered'
      <4>1. PICK id \in AttemptIDs : attempts[id] = l BY <3>2 DEF Registered
      <4>2. ASSUME NEW k \in now, lease[k].id = id PROVE FALSE
        <5>1. attempts[id] = k BY <4>2 DEF Kept, RegistryConsistent
        <5>2. QED BY <3>2, <4>1, <5>1
      <4>3. attempts'[id] = l BY <1>1, <4>1, <4>2
      <4>4. QED BY <4>3 DEF Registered
    <3>3. QED BY <3>1, <3>2
  <2>2. Registered' \subseteq Leases BY DEF Registered
  <2> HIDE DEF now, R
  <2>3. QED BY <1>2, <2>1, <2>2
<1> HIDE DEF now, R
<1>5. Cost' = Cost BY <1>3 DEF Cost
<1>6. CostOf(Registered)' = CostOf(R) - CostOf(now) /\ CostOf(now) \in Nat
  <2>1. CostOf(Registered)' = Total(Cost, R \ now) BY <1>4, <1>5, CostAfter
  <2>2. /\ Cost \in [Leases -> Nat] /\ CostOf(R) = Total(Cost, R)
        /\ CostOf(now) = Total(Cost, now) /\ CostOf(now) \in Nat
    BY <1>2, CostIsTotal
  <2>3. Total(Cost, R \ now) = Total(Cost, R) - Total(Cost, now)
    BY <1>2, <2>2, GovernorObjects, TotalWithout
  <2>4. QED BY <2>1, <2>2, <2>3
<1>7. HeavyOf(Registered)' = HeavyOf(R) - HeavyOf(now) /\ HeavyOf(now) \in Nat /\ HeavyOf(R) \in Nat
  <2> DEFINE H == {k \in R : lease[k].heavy}
             N == {k \in now : lease[k].heavy}
             G == {k \in R \ now : lease'[k].heavy}
  <2>1. /\ HeavyOf(R) = Cardinality(H) /\ HeavyOf(now) = Cardinality(N)
        /\ HeavyOf(Registered)' = Cardinality(G)
    BY <1>4 DEF HeavyOf
  <2>2. IsFiniteSet(H) /\ IsFiniteSet(N) BY <1>2, GovernorObjects, FS_Subset
  <2>3. G = H \ N /\ H \cap N = N BY <1>2, <1>3
  <2> HIDE DEF G, H, N
  <2>4. Cardinality(H \ N) = Cardinality(H) - Cardinality(H \cap N) BY <2>2, FS_Difference
  <2>5. Cardinality(H) \in Nat /\ Cardinality(N) \in Nat BY <2>2, FS_CardinalityType
  <2>6. QED BY <2>1, <2>3, <2>4, <2>5
<1>8. /\ reserved = CostOf(R) /\ heavyweight = HeavyOf(R) /\ CostOf(R) \in Nat
      /\ reserved <= MaxReserved /\ heavyweight <= MaxHeavyweight
    BY <1>2, CostIsTotal DEF ReservationExact, R
<1>9. reserved' = CostOf(Registered)' /\ heavyweight' = HeavyOf(Registered)'
    BY <1>1, <1>6, <1>7, <1>8
<1>10. reserved' <= MaxReserved
  <2>1. reserved \in Nat /\ CostOf(now) \in Nat /\ MaxReserved \in Nat
    BY <1>6, <1>8, GovernorConstants
  <2>2. reserved' = reserved - CostOf(now) /\ reserved <= MaxReserved BY <1>1, <1>8
  <2>3. QED BY <2>1, <2>2
<1>11. heavyweight' <= MaxHeavyweight
  <2>1. heavyweight \in Nat /\ HeavyOf(now) \in Nat /\ MaxHeavyweight \in Nat
    BY <1>7, <1>8, GovernorConstants
  <2>2. heavyweight' = heavyweight - HeavyOf(now) /\ heavyweight <= MaxHeavyweight
    BY <1>1, <1>8
  <2>3. QED BY <2>1, <2>2
<1>12. QED BY <1>9, <1>10, <1>11 DEF ReservationExact

\* Close empties the registry and the counters together.
LEMMA EmptyReserved ==
    ASSUME TypeOK', \A id \in AttemptIDs : attempts'[id] = None, reserved' = 0, heavyweight' = 0
    PROVE  ReservationExact'
<1>1. Registered' = {} BY NoneIsNoLease DEF Registered
<1>2. Cost' \in [Leases -> Nat] BY DEF Cost, TypeOK, LeaseStates
<1>3. Total(Cost', {}) = 0 BY <1>2, GovernorObjects, TotalSplit
<1>4. CostOf(Registered)' = 0 BY <1>1, <1>3, CostAfter
<1>5. HeavyOf(Registered)' = 0 BY <1>1, FS_EmptySet DEF HeavyOf
<1>6. QED BY <1>4, <1>5, GovernorConstants DEF ReservationExact

-----------------------------------------------------------------------------
(* The invariant and what follows from it *)

\* Initially both counters are zero.
LEMMA InitReserved == Init => FinalizingCounts /\ ReservationExact
<1> SUFFICES ASSUME Init PROVE FinalizingCounts /\ ReservationExact OBVIOUS
<1>1. TypeOK BY InitTypeOK
<1>2. Registered = {} BY NoneIsNoLease DEF Init, Registered
<1>3. CostOf({}) = 0
  <2>1. Cost \in [Leases -> Nat] /\ CostOf({}) = Total(Cost, {}) BY <1>1, CostIsTotal
  <2>2. QED BY <2>1, GovernorObjects, TotalSplit
<1>4. HeavyOf({}) = 0 BY FS_EmptySet DEF HeavyOf
<1>5. ReservationExact
  <2>1. reserved = 0 /\ heavyweight = 0 BY DEF Init
  <2>2. QED BY <1>2, <1>3, <1>4, <2>1, GovernorConstants DEF ReservationExact
<1>6. FinalizingCounts
  <2>1. Unresolved = {} /\ finalizing = 0 BY DEF Init, Unresolved
  <2>2. QED BY <2>1, FS_EmptySet DEF FinalizingCounts, Unresolved
<1>7. QED BY <1>5, <1>6

\* Every step keeps the reservations exact and within the limits.
LEMMA StepReserved ==
    ASSUME TypeOK, TypeOK', Guarded, Kept, ReservationExact, [Next]_vars
    PROVE  ReservationExact'
<1>r. Registered \in SUBSET Leases /\ RegistryHoldsActive BY DEF Registered, Guarded
<1>1. CASE UNCHANGED vars BY <1>1, QuietReserved DEF vars, registry
<1>2. CASE Admit
  <2>1. CASE \E p \in PeerLeases, id \in PeerIDs : AcquirePeer(p, id)
    BY <2>1, QuietReserved DEF AcquirePeer
  <2>2. CASE \E p \in PeerLeases, id \in AttemptIDs, cost \in Costs,
                heavy, loopback \in BOOLEAN, l \in Leases :
                AcquireAttempt(l, p, id, cost, heavy, loopback)
    BY <1>r, <2>2, AcquireReserved
  <2>3. CASE \E p \in PeerLeases, id \in AttemptIDs, cost \in Costs,
                heavy, loopback \in BOOLEAN :
                RefuseOverLimit(p, id, cost, heavy, loopback)
    BY <2>3, TripLockedReserved DEF RefuseOverLimit, registry
  <2>4. QED BY <1>2, <2>1, <2>2, <2>3 DEF Admit
<1>3. CASE Trip BY <1>3, TripLockedReserved DEF Trip, registry
<1>4. CASE CloseGovernor
    BY <1>4, <1>r, BeginStoppingCosts, QuietReserved DEF CloseGovernor, registry
<1>5. CASE CloseRefused \/ FinishTripDrain
    BY <1>5, QuietReserved DEF CloseRefused, FinishTripDrain, registry
<1>6. CASE CloseCompletes BY <1>6, EmptyReserved DEF CloseCompletes
<1>7. ASSUME NEW p \in PeerLeases, ClosePeer(p) \/ FinishPeerClose(p)
      PROVE  ReservationExact'
  <2>1. CASE ClosePeer(p)
    <3>1. peer[p].attempts \in SUBSET Leases BY DEF TypeOK
    <3>2. QED BY <2>1, <3>1, BeginStoppingCosts, QuietReserved DEF ClosePeer
  <2>2. CASE FinishPeerClose(p) BY <2>2, QuietReserved DEF FinishPeerClose
  <2>3. QED BY <1>7, <2>1, <2>2
<1>8. ASSUME NEW d \in Drainers, Drain(d) PROVE ReservationExact'
  <2>1. CASE DrainExpires(d) BY <2>1, QuietReserved DEF DrainExpires, registry
  <2>2. CASE DrainTrips(d)
    <3>1. \/ \E n : TripLocked(n, term)
          \/ lease' = lease
      BY <2>2 DEF DrainTrips
    <3>2. UNCHANGED <<attempts, reserved, heavyweight>> BY <2>2 DEF DrainTrips, registry
    <3>3. QED BY <3>1, <3>2, QuietReserved, TripLockedReserved
  <2>3. CASE DrainReleases(d)
    <3>1. Ordinary(drainer[d].batch) \in SUBSET Leases
      BY DEF TypeOK, DrainerStates, Ordinary
    <3>2. QED BY <1>r, <2>3, <3>1, ReleaseReserved DEF DrainReleases
  <2>4. QED BY <1>8, <2>1, <2>2, <2>3 DEF Drain
<1>9. ASSUME NEW l \in Leases, RegisterDrain(l) \/ RegisterAccounting(l)
      PROVE  ReservationExact'
  <2>0. lease[l] \in LeaseStates BY DEF TypeOK
  <2>1. /\ \A k \in Leases : k # l => lease'[k] = lease[k]
        /\ UNCHANGED <<attempts, reserved, heavyweight>>
        /\ \/ lease'[l] = [lease[l] EXCEPT !.net = lease[l].net + 1]
           \/ lease'[l] = [lease[l] EXCEPT !.acct = TRUE, !.acctUsed = TRUE]
    BY <1>9 DEF RegisterDrain, RegisterAccounting, TypeOK, registry
  <2>2. lease'[l].cost = lease[l].cost /\ lease'[l].heavy = lease[l].heavy
    BY <2>0, <2>1 DEF LeaseStates
  <2>3. QED BY <2>1, <2>2, QuietReserved
<1>10. ASSUME NEW l \in Leases, NEW n, NEW a, NEW t, Completed(l, n, a, t),
              UNCHANGED registry
       PROVE  ReservationExact'
  <2>1. \A k \in Leases : lease'[k].cost = lease[k].cost /\ lease'[k].heavy = lease[k].heavy
    BY <1>10 DEF Completed, TypeOK, LeaseStates
  <2>2. QED BY <1>10, <2>1, QuietReserved DEF registry
<1>11. ASSUME NEW l \in Leases, CompleteDrain(l) PROVE ReservationExact'
    BY <1>11, <1>10 DEF CompleteDrain
<1>12. ASSUME NEW l \in Leases, CloseAttempt(l) \/ CloseLoopback(l) PROVE ReservationExact'
  <2>1. {l} \in SUBSET Leases OBVIOUS
  <2>2. QED BY <1>12, <2>1, BeginStoppingCosts, QuietReserved
            DEF CloseAttempt, CloseLoopback, registry
<1>13. ASSUME NEW l \in Leases,
              WriterStarts(l) \/ WriterFinishes(l) \/ WriterCompletes(l)
       PROVE  ReservationExact'
  <2>1. CASE WriterStarts(l)
    <3>1. {l} \in SUBSET Leases OBVIOUS
    <3>2. QED BY <2>1, <3>1, BeginStoppingCosts, QuietReserved DEF WriterStarts, registry
  <2>2. CASE WriterFinishes(l) BY <2>2, QuietReserved DEF WriterFinishes, registry
  <2>3. CASE WriterCompletes(l) BY <2>3, <1>10 DEF WriterCompletes
  <2>4. QED BY <1>13, <2>1, <2>2, <2>3
<1>14. ASSUME NEW l \in Leases, Manage(l) PROVE ReservationExact'
  <2>1. CASE \/ ManagerNetworkDrained(l) \/ ManagerTimesOut(l) \/ ManagerFails(l)
             \/ ManagerSettles(l)
    BY <2>1, QuietReserved
       DEF ManagerNetworkDrained, ManagerTimesOut, ManagerFails, ManagerSettles, registry
  <2>2. CASE ManagerNetworkExpires(l)
    BY <2>2, TripLockedReserved DEF ManagerNetworkExpires, registry
  <2>3. CASE ManagerSucceeds(l)
    <3>1. {l} \in SUBSET Leases OBVIOUS
    <3>2. QED BY <1>r, <2>3, <3>1, ReleaseReserved DEF ManagerSucceeds
  <2>4. QED BY <1>14, <2>1, <2>2, <2>3 DEF Manage
<1>15. QED
    BY <1>1, <1>2, <1>3, <1>4, <1>5, <1>6, <1>7, <1>8, <1>9, <1>11, <1>12, <1>13, <1>14
       DEF Next, Close, PeerClose, finishLoopback

\* The inductive invariant holds of every behaviour, for any number of peers,
\* leases, identities, costs and limits: Governor.mu keeps its maps, counters,
\* lease objects and terminals in step.
THEOREM Invariance == Spec => []IInv
<1>1. Init => IInv
    BY InitTypeOK, InitGuarded, InitSound, InitKept, InitReserved
       DEF IInv, Guarded, Kept
<1>2. IInv /\ [Next]_vars => IInv'
  <2> SUFFICES ASSUME IInv, [Next]_vars PROVE IInv' OBVIOUS
  <2>1. /\ TypeOK /\ Guarded /\ Kept /\ RegistryConsistent /\ PeersKept /\ TermsSound
        /\ FinalizingCounts /\ ReservationExact
    BY DEF IInv, Guarded, Kept
  <2>2. TypeOK' BY <2>1, StepTypeOK
  <2>3. Guarded' BY <2>1, StepGuarded
  <2>4. Kept' BY <2>1, StepKept
  <2>5. TermsSound' BY <2>1, StepSound
  <2>6. FinalizingCounts' BY <2>1, StepCount
  <2>7. ReservationExact' BY <2>1, <2>2, StepReserved
  <2>8. QED BY <2>2, <2>3, <2>4, <2>5, <2>6, <2>7 DEF IInv, Guarded, Kept
<1>3. QED BY <1>1, <1>2, PTL DEF Spec

\* Every field of the governor keeps its type.
THEOREM TypeCorrect == Spec => []TypeOK
<1>1. IInv => TypeOK BY DEF IInv
<1>2. QED BY <1>1, Invariance, PTL

\* Once the governor has tripped, every attempt still registered is stopping,
\* whichever of its callers tripped it and whatever was under way.
THEOREM TripSafe == Spec => []TripStopsEverything
<1>1. IInv => TripStopsEverything BY DEF IInv
<1>2. QED BY <1>1, Invariance, PTL

\* The maps, the lease objects and the finalization counter agree.
THEOREM RegistrySafe == Spec => []RegistryExact
<1>1. IInv => RegistryExact BY DEF IInv, RegistryExact
<1>2. QED BY <1>1, Invariance, PTL

\* The reservation is the sum over the attempts not yet Done, within the limits.
THEOREM ReservationSafe == Spec => []ReservationExact
<1>1. IInv => ReservationExact BY DEF IInv
<1>2. QED BY <1>1, Invariance, PTL

\* A closed governor has no loopback attempt with a drain outstanding.
THEOREM QuiescentClose == Spec => []ClosedMeansQuiescent
<1>1. IInv => ClosedMeansQuiescent
  <2> SUFFICES ASSUME IInv, closed, NEW l \in Leases, lease[l].loopback
               PROVE  Pending(l) = 0
      BY DEF ClosedMeansQuiescent
  <2>1. lease[l] \in LeaseStates /\ Sound(lease[l], term[l]) BY DEF IInv, TypeOK, TermsSound
  <2>2. lease[l].state # "active" BY DEF IInv, PeersKept
  <2>3. lease[l].state = "closed" BY <2>1, <2>2 DEF LeaseStates, Sound
  <2>4. QED BY <2>1, <2>3 DEF Sound, Pending
<1>2. QED BY <1>1, Invariance, PTL

\* A successful verdict means the journal's record was written and the network
\* drained in time.
THEOREM VerdictSafe == Spec => []OkVerdictMeansFinished
<1>1. IInv => OkVerdictMeansFinished
  <2> SUFFICES ASSUME IInv, NEW l \in Leases, term[l].verdict = "ok"
               PROVE  /\ Pending(l) = 0 /\ ~term[l].netErr /\ ~term[l].finishErr
                      /\ lease[l].acctUsed => term[l].writer = "done"
      BY DEF OkVerdictMeansFinished
  <2>1. Sound(lease[l], term[l]) BY DEF IInv, TermsSound
  <2>2. QED BY <2>1 DEF Sound, Pending
<1>2. QED BY <1>1, Invariance, PTL

\* Only AcquireAttempt makes a lease active.
LEMMA OnlyAcquireActivates ==
    ASSUME TypeOK, Next, NEW l \in Leases, lease[l].state = "free", lease'[l].state = "active"
    PROVE  \E p \in PeerLeases, id \in AttemptIDs, cost \in Costs, heavy, loopback \in BOOLEAN :
               AcquireAttempt(l, p, id, cost, heavy, loopback)
<1>r. Registered \in SUBSET Leases BY DEF Registered
<1>b. ASSUME NEW S \in SUBSET Leases, NEW t, BeginStopping(S, t) PROVE FALSE
    BY <1>b, BeginStoppingKeeps
<1>t. ASSUME NEW d, NEW t, TripLocked(d, t) PROVE FALSE
    BY <1>t, <1>r, <1>b DEF TripLocked
<1>u. lease' # lease OBVIOUS
<1>s. ASSUME NEW S \in SUBSET Leases, Release(S) PROVE FALSE
  <2>1. \/ lease'[l] = [lease[l] EXCEPT !.state = "closed", !.stopping = TRUE]
        \/ lease'[l] = lease[l]
    BY <1>s DEF Release
  <2>2. QED BY <2>1 DEF TypeOK, LeaseStates
<1>c. ASSUME NEW k \in Leases, NEW n, NEW a, NEW t, Completed(k, n, a, t) PROVE FALSE
    BY <1>c DEF Completed, TypeOK, LeaseStates
<1>2. CASE Admit
  <2>1. ASSUME NEW p \in PeerLeases, NEW id \in PeerIDs, AcquirePeer(p, id) PROVE FALSE
    BY <2>1, <1>u DEF AcquirePeer
  <2>2. ASSUME NEW p \in PeerLeases, NEW id \in AttemptIDs, NEW cost \in Costs,
               NEW heavy \in BOOLEAN, NEW loopback \in BOOLEAN,
               \/ \E k \in Leases : AcquireAttempt(k, p, id, cost, heavy, loopback)
               \/ RefuseOverLimit(p, id, cost, heavy, loopback)
        PROVE  AcquireAttempt(l, p, id, cost, heavy, loopback)
    <3>1. ~RefuseOverLimit(p, id, cost, heavy, loopback) BY <1>t DEF RefuseOverLimit
    <3>2. PICK k \in Leases : AcquireAttempt(k, p, id, cost, heavy, loopback) BY <2>2, <3>1
    <3>3. k = l BY <3>2 DEF AcquireAttempt, TypeOK
    <3>4. QED BY <3>2, <3>3
  <2>3. QED BY <1>2, <2>1, <2>2 DEF Admit
<1>3. CASE Trip BY <1>3, <1>t DEF Trip
<1>4. CASE CloseGovernor BY <1>4, <1>r, <1>b DEF CloseGovernor
<1>5. CASE CloseRefused \/ FinishTripDrain BY <1>5, <1>u DEF CloseRefused, FinishTripDrain
<1>6. CASE CloseCompletes
  <2>1. \/ lease'[l] = [lease[l] EXCEPT !.state = "closed", !.stopping = TRUE]
        \/ lease'[l] = lease[l]
    BY <1>6 DEF CloseCompletes
  <2>2. QED BY <2>1 DEF TypeOK, LeaseStates
<1>7. ASSUME NEW p \in PeerLeases, ClosePeer(p) \/ FinishPeerClose(p) PROVE FALSE
  <2>1. peer[p].attempts \in SUBSET Leases BY DEF TypeOK
  <2>2. QED BY <1>7, <2>1, <1>b, <1>u DEF ClosePeer, FinishPeerClose
<1>8. ASSUME NEW d \in Drainers, Drain(d) PROVE FALSE
  <2>1. Ordinary(drainer[d].batch) \in SUBSET Leases BY DEF TypeOK, DrainerStates, Ordinary
  <2>2. CASE DrainExpires(d) BY <2>2, <1>u DEF DrainExpires
  <2>3. CASE DrainTrips(d)
    <3>1. (\E n : TripLocked(n, term)) \/ lease' = lease BY <2>3 DEF DrainTrips
    <3>2. QED BY <3>1, <1>t, <1>u
  <2>4. CASE DrainReleases(d) BY <2>1, <2>4, <1>s DEF DrainReleases
  <2>5. QED BY <1>8, <2>2, <2>3, <2>4 DEF Drain
<1>9. ASSUME NEW k \in Leases, RegisterDrain(k) \/ RegisterAccounting(k) PROVE FALSE
  <2>0. lease[l] \in LeaseStates BY DEF TypeOK
  <2>1. \/ lease'[l] = lease[l]
        \/ lease'[l] = [lease[l] EXCEPT !.net = lease[l].net + 1]
        \/ lease'[l] = [lease[l] EXCEPT !.acct = TRUE, !.acctUsed = TRUE]
    BY <1>9 DEF RegisterDrain, RegisterAccounting, TypeOK
  <2>2. QED BY <2>0, <2>1 DEF LeaseStates
<1>10. ASSUME NEW k \in Leases, CompleteDrain(k) \/ CloseAttempt(k) \/ CloseLoopback(k)
       PROVE  FALSE
  <2>1. {k} \in SUBSET Leases OBVIOUS
  <2>2. QED BY <1>10, <2>1, <1>b, <1>c DEF CompleteDrain, CloseAttempt, CloseLoopback
<1>11. ASSUME NEW k \in Leases, WriterStarts(k) \/ WriterFinishes(k) \/ WriterCompletes(k)
       PROVE  FALSE
  <2>1. {k} \in SUBSET Leases OBVIOUS
  <2>2. QED BY <1>11, <2>1, <1>b, <1>c, <1>u DEF WriterStarts, WriterFinishes, WriterCompletes
<1>12. ASSUME NEW k \in Leases, Manage(k) PROVE FALSE
  <2>1. {k} \in SUBSET Leases OBVIOUS
  <2>2. QED
    BY <1>12, <2>1, <1>s, <1>t, <1>u
       DEF Manage, ManagerNetworkDrained, ManagerNetworkExpires, ManagerSucceeds,
           ManagerTimesOut, ManagerFails, ManagerSettles
<1>13. QED
    BY <1>2, <1>3, <1>4, <1>5, <1>6, <1>7, <1>8, <1>9, <1>10, <1>11, <1>12 DEF Next, Close, PeerClose, finishLoopback

\* No attempt is admitted while a loopback attempt's finalization is open.
THEOREM AdmissionShut == Spec => NoAdmissionWhileFinalizing
<1> DEFINE Shut == \A l \in Leases : lease[l].state = "free" /\ lease'[l].state = "active" =>
                      \A k \in Leases : lease[k].loopback /\ lease[k].stopping =>
                          term[k].verdict = "ok"
<1>1. IInv /\ [Next]_vars => [Shut]_vars
  <2> SUFFICES ASSUME IInv, Next, NEW l \in Leases, lease[l].state = "free",
                      lease'[l].state = "active", NEW k \in Leases,
                      lease[k].loopback, lease[k].stopping, term[k].verdict # "ok"
               PROVE  FALSE
      OBVIOUS
  <2>0. PICK p, id, cost, heavy, loopback : AcquireAttempt(l, p, id, cost, heavy, loopback)
    BY OnlyAcquireActivates DEF IInv
  <2>1. finalizing = 0 BY <2>0 DEF AcquireAttempt, MayAcquire, AdmissionBlocked
  <2>2. Cardinality(Unresolved) = 0 BY <2>1 DEF IInv, FinalizingCounts, Unresolved
  <2>3. IsFiniteSet(Unresolved) BY GovernorObjects, FS_Subset DEF Unresolved
  <2>4. Unresolved = {} BY <2>2, <2>3, FS_EmptySet
  <2>5. QED BY <2>4 DEF Unresolved
<1>2. QED BY <1>1, Invariance, PTL DEF Spec, NoAdmissionWhileFinalizing

-----------------------------------------------------------------------------
(* One attempt at a time.  A batch is released when the witness of its timer *)
(* is drained or the machine has tripped, and the witness is the whole batch *)
(* because a second attempt cannot be registered.                            *)

\* What no step takes back: a stopping attempt goes on stopping and its drains
\* only complete, a closed one stays closed, none becomes free again, and a trip stays.
Eases ==
    /\ trip => trip'
    /\ \A l \in Leases :
          /\ lease[l].stopping =>
                /\ lease'[l].stopping /\ lease'[l].loopback = lease[l].loopback
                /\ lease'[l].net <= lease[l].net /\ (lease'[l].acct => lease[l].acct)
          /\ lease[l].state = "closed" => lease'[l].state = "closed"
          /\ lease'[l].state = "closed" => lease[l].state = "closed" \/ lease'[l].stopping
          /\ lease'[l].state = "free" => lease[l].state = "free"

\* What the updates of a lease do to the fields that matter here.
LEMMA LeaseFields ==
    ASSUME NEW r \in LeaseStates, NEW q \in BOOLEAN, NEW n \in Nat, NEW a \in BOOLEAN
    PROVE  /\ LET u == [r EXCEPT !.stopping = TRUE, !.drained = q]
              IN  /\ u.state = r.state /\ u.stopping = TRUE /\ u.loopback = r.loopback
                  /\ u.net = r.net /\ u.acct = r.acct
           /\ LET u == [r EXCEPT !.net = n, !.acct = a, !.drained = q]
              IN  /\ u.state = r.state /\ u.stopping = r.stopping /\ u.loopback = r.loopback
                  /\ u.net = n /\ u.acct = a
           /\ r.net <= r.net /\ r.net \in Nat /\ r.acct \in BOOLEAN
BY DEF LeaseStates

\* A lease that is closed.
LEMMA ClosedFields ==
    ASSUME NEW r \in LeaseStates, NEW u, u = [r EXCEPT !.state = "closed", !.stopping = TRUE]
    PROVE  /\ u.state = "closed" /\ u.stopping /\ u.loopback = r.loopback
           /\ u.net = r.net /\ u.acct = r.acct
BY DEF LeaseStates

\* A step that leaves the leases alone.
LEMMA SameEases ==
    ASSUME TypeOK, lease' = lease, trip => trip' PROVE Eases
BY DEF Eases, TypeOK, LeaseStates

\* beginAttemptStoppingLocked.
LEMMA BeginStoppingEases ==
    ASSUME TypeOK, NEW S \in SUBSET Leases, NEW t, BeginStopping(S, t), trip => trip'
    PROVE  Eases
<1> SUFFICES ASSUME NEW l \in Leases
             PROVE  /\ lease[l].stopping =>
                          /\ lease'[l].stopping /\ lease'[l].loopback = lease[l].loopback
                          /\ lease'[l].net <= lease[l].net /\ (lease'[l].acct => lease[l].acct)
                    /\ lease[l].state = "closed" => lease'[l].state = "closed"
                    /\ lease'[l].state = "closed" => lease[l].state = "closed" \/ lease'[l].stopping
                    /\ lease'[l].state = "free" => lease[l].state = "free"
    BY DEF Eases
<1>1. lease[l] \in LeaseStates BY DEF TypeOK
<1>2. \/ lease'[l] = lease[l]
      \/ /\ lease[l].state = "active" /\ ~lease[l].stopping
         /\ lease'[l] = [lease[l] EXCEPT !.stopping = TRUE, !.drained = Pending(l) = 0]
    BY DEF BeginStopping, Stoppable
<1>3. CASE lease'[l] = lease[l] BY <1>1, <1>3, LeaseFields
<1>4. CASE lease'[l] = [lease[l] EXCEPT !.stopping = TRUE, !.drained = Pending(l) = 0]
  <2>1. (Pending(l) = 0) \in BOOLEAN OBVIOUS
  <2>2. lease'[l].state = lease[l].state /\ lease'[l].stopping /\ lease'[l].loopback = lease[l].loopback
        /\ lease'[l].net = lease[l].net /\ lease'[l].acct = lease[l].acct
    BY <1>1, <1>4, <2>1, LeaseFields
  <2>3. QED BY <1>1, <2>2, LeaseFields
<1>5. QED BY <1>2, <1>3, <1>4

\* tripLocked.
LEMMA TripLockedEases ==
    ASSUME TypeOK, NEW d, NEW t, TripLocked(d, t) PROVE Eases
<1>1. Registered \in SUBSET Leases BY DEF Registered
<1>2. CASE closed BY <1>2, SameEases DEF TripLocked
<1>3. CASE ~closed BY <1>1, <1>3, BeginStoppingEases DEF TripLocked
<1>4. QED BY <1>2, <1>3

\* A step that closes leases and does nothing else to them.
LEMMA CloseEases ==
    ASSUME TypeOK, trip' = trip,
           \A l \in Leases : \/ lease'[l] = lease[l]
                             \/ lease'[l] = [lease[l] EXCEPT !.state = "closed", !.stopping = TRUE]
    PROVE  Eases
<1> SUFFICES ASSUME NEW l \in Leases
             PROVE  /\ lease[l].stopping =>
                          /\ lease'[l].stopping /\ lease'[l].loopback = lease[l].loopback
                          /\ lease'[l].net <= lease[l].net /\ (lease'[l].acct => lease[l].acct)
                    /\ lease[l].state = "closed" => lease'[l].state = "closed"
                    /\ lease'[l].state = "closed" => lease[l].state = "closed" \/ lease'[l].stopping
                    /\ lease'[l].state = "free" => lease[l].state = "free"
    BY DEF Eases
<1>1. lease[l] \in LeaseStates BY DEF TypeOK
<1>2. CASE lease'[l] = lease[l] BY <1>1, <1>2, LeaseFields
<1>3. CASE lease'[l] = [lease[l] EXCEPT !.state = "closed", !.stopping = TRUE]
  <2>1. /\ lease'[l].state = "closed" /\ lease'[l].stopping /\ lease'[l].loopback = lease[l].loopback
        /\ lease'[l].net = lease[l].net /\ lease'[l].acct = lease[l].acct
    BY <1>1, <1>3, ClosedFields
  <2>2. QED BY <1>1, <2>1, LeaseFields
<1>4. QED BY <1>2, <1>3

\* releaseAttemptLocked.
LEMMA ReleaseEases ==
    ASSUME TypeOK, NEW S, Release(S), trip' = trip PROVE Eases
<1>1. \A l \in Leases : \/ lease'[l] = lease[l]
                        \/ lease'[l] = [lease[l] EXCEPT !.state = "closed", !.stopping = TRUE]
    BY DEF Release
<1>2. QED BY <1>1, CloseEases

\* attemptDrain.Complete.
LEMMA CompletedEases ==
    ASSUME TypeOK, NEW k \in Leases, NEW n \in Nat, NEW a \in BOOLEAN, NEW t, Completed(k, n, a, t),
           n <= lease[k].net, a => lease[k].acct, trip' = trip
    PROVE  Eases
<1> SUFFICES ASSUME NEW l \in Leases
             PROVE  /\ lease[l].stopping =>
                          /\ lease'[l].stopping /\ lease'[l].loopback = lease[l].loopback
                          /\ lease'[l].net <= lease[l].net /\ (lease'[l].acct => lease[l].acct)
                    /\ lease[l].state = "closed" => lease'[l].state = "closed"
                    /\ lease'[l].state = "closed" => lease[l].state = "closed" \/ lease'[l].stopping
                    /\ lease'[l].state = "free" => lease[l].state = "free"
    BY DEF Eases
<1>1. lease[l] \in LeaseStates BY DEF TypeOK
<1>2. CASE l # k
  <2>1. lease'[l] = lease[l] BY <1>2 DEF Completed, TypeOK
  <2>2. QED BY <1>1, <2>1, LeaseFields
<1>3. CASE l = k
  <2>1. lease'[l] = [lease[l] EXCEPT !.net = n, !.acct = a,
                        !.drained = lease[l].drained \/ (lease[l].stopping /\ n = 0 /\ ~a)]
    BY <1>3 DEF Completed, TypeOK, LeaseStates
  <2>2. (lease[l].drained \/ (lease[l].stopping /\ n = 0 /\ ~a)) \in BOOLEAN OBVIOUS
  <2>3. QED BY <1>1, <1>3, <2>1, <2>2, LeaseFields
<1>4. QED BY <1>2, <1>3

\* The actions that change one lease that is not stopping.
LEMMA OpenLeaseEases ==
    ASSUME TypeOK, trip' = trip, NEW k \in Leases,
           ~lease[k].stopping, lease[k].state # "closed", lease'[k].state \notin {"free", "closed"},
           \A l \in Leases : l # k => lease'[l] = lease[l]
    PROVE  Eases
<1>1. \A l \in Leases : lease[l].net <= lease[l].net BY DEF TypeOK, LeaseStates
<1>2. QED BY <1>1 DEF Eases

\* Every step.
LEMMA StepEases ==
    ASSUME TypeOK, TermsSound, Next PROVE Eases
<1>r. Registered \in SUBSET Leases BY DEF Registered
<1>2. CASE Admit
  <2>1. CASE \E p \in PeerLeases, id \in PeerIDs : AcquirePeer(p, id)
    BY <2>1, SameEases DEF AcquirePeer, flags
  <2>2. ASSUME NEW p \in PeerLeases, NEW id \in AttemptIDs, NEW cost, NEW heavy, NEW loopback,
               NEW l \in Leases, AcquireAttempt(l, p, id, cost, heavy, loopback)
        PROVE  Eases
    <3>1. /\ \A k \in Leases : k # l => lease'[k] = lease[k]
          /\ lease'[l].state = "active" /\ lease[l].state = "free"
      BY <2>2 DEF AcquireAttempt, TypeOK, LeaseStates
    <3>2. ~lease[l].stopping BY <3>1 DEF TermsSound, Sound
    <3>3. trip' = trip BY <2>2 DEF AcquireAttempt, flags
    <3>4. QED BY <3>1, <3>2, <3>3, OpenLeaseEases
  <2>3. CASE \E p \in PeerLeases, id \in AttemptIDs, cost \in Costs,
                heavy, loopback \in BOOLEAN :
                RefuseOverLimit(p, id, cost, heavy, loopback)
    BY <2>3, TripLockedEases DEF RefuseOverLimit
  <2>4. QED BY <1>2, <2>1, <2>2, <2>3 DEF Admit
<1>3. CASE Trip BY <1>3, TripLockedEases DEF Trip
<1>4. CASE CloseGovernor BY <1>4, <1>r, BeginStoppingEases DEF CloseGovernor
<1>5. CASE CloseRefused \/ FinishTripDrain
    BY <1>5, SameEases DEF CloseRefused, FinishTripDrain
<1>6. CASE CloseCompletes
  <2>1. \A l \in Leases : \/ lease'[l] = lease[l]
                          \/ lease'[l] = [lease[l] EXCEPT !.state = "closed", !.stopping = TRUE]
    BY <1>6 DEF CloseCompletes
  <2>2. QED BY <1>6, <2>1, CloseEases DEF CloseCompletes
<1>7. ASSUME NEW p \in PeerLeases, ClosePeer(p) \/ FinishPeerClose(p) PROVE Eases
  <2>1. peer[p].attempts \in SUBSET Leases BY DEF TypeOK
  <2>2. CASE ClosePeer(p) BY <2>1, <2>2, BeginStoppingEases DEF ClosePeer, flags
  <2>3. CASE FinishPeerClose(p) BY <2>3, SameEases DEF FinishPeerClose, flags
  <2>4. QED BY <1>7, <2>2, <2>3
<1>8. ASSUME NEW d \in Drainers, Drain(d) PROVE Eases
  <2>1. CASE DrainExpires(d) BY <2>1, SameEases DEF DrainExpires, flags
  <2>2. CASE DrainTrips(d) BY <2>2, TripLockedEases, SameEases DEF DrainTrips
  <2>3. CASE DrainReleases(d) BY <2>3, ReleaseEases DEF DrainReleases, flags
  <2>4. QED BY <1>8, <2>1, <2>2, <2>3 DEF Drain
<1>9. ASSUME NEW l \in Leases, RegisterDrain(l) \/ RegisterAccounting(l) PROVE Eases
  <2>2. /\ ~lease[l].stopping /\ lease[l].state = "active" /\ trip' = trip
    BY <1>9 DEF RegisterDrain, RegisterAccounting, MayRegister, flags
  <2>3. lease'[l].state = lease[l].state /\ \A k \in Leases : k # l => lease'[k] = lease[k]
    BY <1>9 DEF RegisterDrain, RegisterAccounting, TypeOK, LeaseStates
  <2>4. QED BY <2>2, <2>3, OpenLeaseEases
<1>10. ASSUME NEW l \in Leases, CompleteDrain(l) \/ WriterCompletes(l) PROVE Eases
  <2>0. lease[l].net \in Nat /\ lease[l].acct \in BOOLEAN BY DEF TypeOK, LeaseStates
  <2>1. CASE CompleteDrain(l)
    <3>1. lease[l].net - 1 \in Nat /\ lease[l].net - 1 <= lease[l].net BY <2>0, <2>1 DEF CompleteDrain
    <3>2. QED BY <2>0, <2>1, <3>1, CompletedEases DEF CompleteDrain, flags
  <2>2. CASE WriterCompletes(l)
    <3>1. lease[l].net <= lease[l].net /\ FALSE \in BOOLEAN BY <2>0
    <3>2. QED BY <2>0, <2>2, <3>1, CompletedEases DEF WriterCompletes, flags
  <2>3. QED BY <1>10, <2>1, <2>2
<1>11. ASSUME NEW l \in Leases,
              CloseAttempt(l) \/ CloseLoopback(l) \/ WriterStarts(l) \/ WriterFinishes(l)
       PROVE  Eases
  <2>1. {l} \in SUBSET Leases OBVIOUS
  <2>2. CASE CloseAttempt(l) \/ CloseLoopback(l)
    BY <2>1, <2>2, BeginStoppingEases DEF CloseAttempt, CloseLoopback, flags
  <2>3. CASE WriterStarts(l) BY <2>1, <2>3, BeginStoppingEases DEF WriterStarts, flags
  <2>4. CASE WriterFinishes(l) BY <2>4, SameEases DEF WriterFinishes, flags
  <2>5. QED BY <1>11, <2>2, <2>3, <2>4
<1>12. ASSUME NEW l \in Leases, Manage(l) PROVE Eases
  <2>1. CASE \/ ManagerNetworkDrained(l) \/ ManagerTimesOut(l)
             \/ ManagerFails(l) \/ ManagerSettles(l)
    BY <2>1, SameEases DEF ManagerNetworkDrained, ManagerTimesOut, ManagerFails, ManagerSettles, flags
  <2>2. CASE ManagerNetworkExpires(l) BY <2>2, TripLockedEases DEF ManagerNetworkExpires
  <2>3. CASE ManagerSucceeds(l) BY <2>3, ReleaseEases DEF ManagerSucceeds, flags
  <2>4. QED BY <1>12, <2>1, <2>2, <2>3 DEF Manage
<1>13. QED
    BY <1>2, <1>3, <1>4, <1>5, <1>6, <1>7, <1>8, <1>9, <1>10, <1>11, <1>12
       DEF Next, Close, PeerClose, finishLoopback

\* A batch that its caller leaves as it is stays sound.
LEMMA BatchStays ==
    ASSUME TypeOK, TypeOK', Eases, NEW d \in Drainers, BatchSound(d), drainer'[d] = drainer[d]
    PROVE  BatchSound(d)'
<1> DEFINE b == drainer[d].batch
<1>0. b \in SUBSET Leases BY DEF TypeOK, DrainerStates
<1>1. \A l \in b : lease[l].stopping /\ lease'[l].stopping /\ lease'[l].loopback = lease[l].loopback
    BY <1>0 DEF BatchSound, Eases
<1>2. Ordinary(b)' = Ordinary(b) BY <1>1 DEF Ordinary
<1>3. \A l \in b : Pending(l) = 0 => Pending(l)' = 0
  <2> SUFFICES ASSUME NEW l \in b, Pending(l) = 0 PROVE Pending(l)' = 0 OBVIOUS
  <2>1. lease[l] \in LeaseStates /\ lease'[l] \in LeaseStates BY <1>0 DEF TypeOK
  <2>2. lease'[l].net <= lease[l].net /\ (lease'[l].acct => lease[l].acct) BY <1>0, <1>1 DEF Eases
  <2>3. QED BY <2>1, <2>2 DEF Pending, LeaseStates
<1>4. \A l \in b : lease[l].state = "closed" => lease'[l].state = "closed" BY <1>0 DEF Eases
<1>5. trip => trip' BY DEF Eases
<1>6. Ordinary(b) \subseteq b BY DEF Ordinary
<1>7. QED BY <1>1, <1>2, <1>3, <1>4, <1>5, <1>6 DEF BatchSound

\* A batch just taken: attempts that are active, or none.
LEMMA BatchTaken ==
    ASSUME OneActive, NEW S \in SUBSET Leases, \A l \in S : lease[l].state = "active",
           \A l \in S : lease'[l].stopping, NEW d \in Drainers, drainer'[d] = Draining(S)
    PROVE  BatchSound(d)'
<1>1. drainer'[d].pc = "wait" /\ drainer'[d].batch = S BY DEF Draining
<1>2. QED BY <1>1 DEF BatchSound, OneActive

\* A caller that is done has no batch.
LEMMA BatchDone ==
    ASSUME NEW d \in Drainers, drainer'[d] = Idle PROVE BatchSound(d)'
BY DEF BatchSound, Idle

\* Registered attempts, and those of a peer, are active.
LEMMA BatchesActive ==
    ASSUME IInv
    PROVE  /\ Registered \in SUBSET Leases /\ \A l \in Registered : lease[l].state = "active"
           /\ \A p \in PeerLeases : /\ peer[p].attempts \in SUBSET Leases
                                    /\ \A l \in peer[p].attempts : lease[l].state = "active"
BY DEF IInv, RegistryConsistent, TypeOK, Registered

\* tripLocked, behind a step d of the caller's own.
LEMMA TripLockedBatches ==
    ASSUME IInv, TypeOK', OneInv, Eases, NEW d, NEW t, TripLocked(d, t), NEW e \in Drainers,
           d \in [Drainers -> DrainerStates], drainer'[e] = d[e] => BatchSound(e)'
    PROVE  BatchSound(e)'
<1>1. CASE closed \/ drainer' = d BY <1>1 DEF TripLocked
<1>2. CASE ~closed /\ drainer' # d
  <2>1. BeginStopping(Registered, t) /\ drainer' = [d EXCEPT ![TripDrain] = Draining(Registered)]
    BY <1>2 DEF TripLocked
  <2>2. CASE e = TripDrain
    <3>1. drainer'[e] = Draining(Registered) BY <2>1, <2>2
    <3>2. \A l \in Registered : lease'[l].stopping
      BY <2>1, BatchesActive, BeginStoppingEffect DEF IInv
    <3>3. QED BY <3>1, <3>2, BatchesActive, BatchTaken DEF OneInv
  <2>3. CASE e # TripDrain BY <2>1, <2>3
  <2>4. QED BY <2>2, <2>3
<1>3. QED BY <1>1, <1>2

\* DrainTrips: the witness, looked at again under the lock, is the whole batch.
LEMMA DrainTripsBatches ==
    ASSUME IInv, TypeOK', OneInv, Eases, NEW d \in Drainers, DrainTrips(d), NEW e \in Drainers
    PROVE  BatchSound(e)'
<1> DEFINE v == drainer[d].victim
           b == drainer[d].batch
           next == [drainer EXCEPT ![d].pc = "release", ![d].victim = None]
<1>0. /\ b \in SUBSET Leases /\ BatchSound(d) /\ drainer[d].pc = "expired" /\ v \in Ordinary(b)
      /\ drainer[d] \in DrainerStates /\ v \in Leases
    BY DEF DrainTrips, OneInv, BatchSound, IInv, TypeOK, DrainerStates, Ordinary
<1>1. /\ next \in [Drainers -> DrainerStates] /\ \A x \in Drainers : x # d => next[x] = drainer[x]
      /\ next[d].pc = "release" /\ next[d].batch = b
  <2>1. next = [drainer EXCEPT ![d] = [drainer[d] EXCEPT !.pc = "release", !.victim = None]]
    BY <1>0 DEF IInv, TypeOK, DrainerStates
  <2>2. [drainer[d] EXCEPT !.pc = "release", !.victim = None] \in DrainerStates
    BY <1>0, DrainerUpdates
  <2>3. QED BY <1>0, <2>1, <2>2 DEF IInv, TypeOK, DrainerStates
<1>2. ASSUME drainer'[e] = next[e] PROVE BatchSound(e)'
  <2>1. CASE e # d
    BY <1>1, <1>2, <2>1, BatchStays DEF IInv, OneInv
  <2>2. CASE e = d
    <3>1. drainer'[e].pc = "release" /\ drainer'[e].batch = b BY <1>1, <1>2, <2>2
    <3>2. \A l \in b : lease'[l].stopping /\ lease'[l].loopback = lease[l].loopback
      BY <1>0 DEF BatchSound, Eases
    <3>3. trip' \/ \A l \in {k \in b : ~lease'[k].loopback} : lease'[l].state = "closed" \/ Pending(l)' = 0
      <4>1. CASE lease[v].state # "closed" /\ Pending(v) > 0
        <5>1. TripLocked(next, term) BY <4>1 DEF DrainTrips
        <5>2. lease[v].state = "active"
          <6>1. lease[v].stopping BY <1>0 DEF BatchSound, Ordinary
          <6>2. lease[v].state # "free" BY <1>0, <6>1 DEF IInv, TermsSound, Sound
          <6>3. lease[v] \in LeaseStates BY <1>0 DEF IInv, TypeOK
          <6>4. QED BY <4>1, <6>2, <6>3 DEF LeaseStates
        <5>3. ~closed BY <1>0, <5>2 DEF IInv, PeersKept
        <5>4. QED BY <5>1, <5>3 DEF TripLocked
      <4>2. CASE ~(lease[v].state # "closed" /\ Pending(v) > 0)
        <5>1. lease' = lease BY <4>2 DEF DrainTrips
        <5>2. Pending(v) \in Nat BY <1>0 DEF IInv, TypeOK, LeaseStates, Pending
        <5>3. lease[v].state = "closed" \/ Pending(v) = 0 BY <4>2, <5>2
        <5>4. \A l \in b : l = v BY <1>0 DEF BatchSound, Ordinary
        <5>5. QED BY <5>1, <5>3, <5>4 DEF Pending
      <4>3. QED BY <4>1, <4>2
    <3>4. \A k, l \in b : k = l BY <1>0 DEF BatchSound
    <3>5. QED BY <2>2, <3>1, <3>2, <3>3, <3>4 DEF BatchSound, Ordinary
  <2>3. QED BY <2>1, <2>2
<1> HIDE DEF next
<1>3. drainer' = next \/ TripLocked(next, term) BY DEF DrainTrips, next
<1>4. QED BY <1>1, <1>2, <1>3, TripLockedBatches

\* The timer fires: its witness is an ordinary attempt of the batch.
LEMMA DrainExpiresBatch ==
    ASSUME IInv, OneInv, NEW d \in Drainers, DrainExpires(d) PROVE BatchSound(d)'
<1>1. PICK v \in Undrained(d) : drainer' = [drainer EXCEPT ![d].pc = "expired", ![d].victim = v]
    BY DEF DrainExpires
<1>2. drainer[d] \in DrainerStates /\ BatchSound(d) BY DEF IInv, TypeOK, OneInv
<1>3. drainer'[d].pc = "expired" /\ drainer'[d].victim = v /\ drainer'[d].batch = drainer[d].batch
    BY <1>1, <1>2 DEF IInv, TypeOK, DrainerStates
<1>4. lease' = lease BY DEF DrainExpires
<1>5. QED BY <1>2, <1>3, <1>4 DEF BatchSound, Undrained, Ordinary

\* The batch is released: its ordinary attempts are closed.
LEMMA DrainReleasesBatch ==
    ASSUME IInv, TypeOK', OneInv, Eases, NEW d \in Drainers, DrainReleases(d)
    PROVE  /\ BatchSound(d)'
           /\ \A l \in Ordinary(drainer[d].batch) : lease'[l].state = "closed"
<1> DEFINE b == drainer[d].batch
<1>1. /\ b \in SUBSET Leases /\ BatchSound(d) /\ drainer[d] \in DrainerStates
      /\ Ordinary(b) \subseteq b
    BY DEF IInv, TypeOK, OneInv, DrainerStates, Ordinary
<1>2. ASSUME NEW l \in Ordinary(b) PROVE lease'[l].state = "closed"
  <2>1. l \in Leases /\ lease[l].stopping /\ lease[l] \in LeaseStates
    BY <1>1 DEF BatchSound, IInv, TypeOK
  <2>2. lease[l].state # "free" BY <2>1 DEF IInv, TermsSound, Sound
  <2>3. CASE lease[l].state = "closed" BY <2>1, <2>3 DEF Eases
  <2>4. CASE lease[l].state = "active"
    <3>1. lease'[l] = [lease[l] EXCEPT !.state = "closed", !.stopping = TRUE]
      BY <2>1, <2>4 DEF DrainReleases, Release
    <3>2. QED BY <2>1, <3>1, ClosedFields
  <2>5. QED BY <2>1, <2>2, <2>3, <2>4 DEF LeaseStates
<1>3. CASE d \in Leases
  <2>1. drainer'[d] = Idle BY <1>3 DEF DrainReleases, IInv, TypeOK
  <2>2. QED BY <1>2, <2>1, BatchDone
<1>4. CASE d \notin Leases
  <2>1. drainer'[d] = [drainer[d] EXCEPT !.pc = "phased"] BY <1>4 DEF DrainReleases, IInv, TypeOK
  <2>2. drainer'[d].pc = "phased" /\ drainer'[d].batch = b BY <1>1, <2>1 DEF DrainerStates
  <2>3. \A l \in b : lease'[l].stopping /\ lease'[l].loopback = lease[l].loopback
    BY <1>1 DEF BatchSound, Eases
  <2>4. \A l \in {k \in b : ~lease'[k].loopback} : lease'[l].state = "closed"
    BY <1>2, <2>3 DEF Ordinary
  <2>5. \A k, l \in b : k = l BY <1>1 DEF BatchSound
  <2>6. BatchSound(d)' BY <2>2, <2>3, <2>4, <2>5 DEF BatchSound, Ordinary
  <2>7. QED BY <1>2, <2>6
<1>5. QED BY <1>3, <1>4

\* Every step keeps every batch sound.
LEMMA StepBatches ==
    ASSUME IInv, TypeOK', OneInv, Eases, Next, NEW e \in Drainers PROVE BatchSound(e)'
<1>0. drainer \in [Drainers -> DrainerStates] BY DEF IInv, TypeOK
<1>s. ASSUME drainer'[e] = drainer[e] PROVE BatchSound(e)' BY <1>s, BatchStays DEF IInv, OneInv
<1>t. ASSUME NEW t, TripLocked(drainer, t) PROVE BatchSound(e)'
    BY <1>0, <1>s, <1>t, TripLockedBatches
<1>b. ASSUME NEW t, NEW S \in SUBSET Leases, \A l \in S : lease[l].state = "active",
             BeginStopping(S, t), NEW d \in Drainers, drainer' = [drainer EXCEPT ![d] = Draining(S)]
      PROVE  BatchSound(e)'
  <2>1. CASE e = d
    <3>1. drainer'[e] = Draining(S) BY <1>0, <1>b, <2>1
    <3>2. \A l \in S : lease'[l].stopping BY <1>b, BeginStoppingEffect DEF IInv
    <3>3. QED BY <1>b, <3>1, <3>2, BatchTaken DEF OneInv
  <2>2. CASE e # d BY <1>0, <1>b, <1>s, <2>2
  <2>3. QED BY <2>1, <2>2
<1>i. ASSUME NEW d \in Drainers, drainer' = [drainer EXCEPT ![d] = Idle] PROVE BatchSound(e)'
  <2>1. CASE e = d BY <1>0, <1>i, <2>1, BatchDone
  <2>2. CASE e # d BY <1>0, <1>i, <1>s, <2>2
  <2>3. QED BY <2>1, <2>2
<1>d. /\ GovernorClose \in Drainers /\ TripDrain \in Drainers
      /\ PeerLeases \subseteq Drainers /\ Leases \subseteq Drainers
    BY DEF Drainers
<1>2. CASE Admit
  <2>1. CASE \E p \in PeerLeases, id \in PeerIDs : AcquirePeer(p, id) BY <2>1, <1>s DEF AcquirePeer
  <2>2. CASE \E p \in PeerLeases, id \in AttemptIDs, cost \in Costs, heavy, loopback \in BOOLEAN,
                l \in Leases : AcquireAttempt(l, p, id, cost, heavy, loopback)
    BY <2>2, <1>s DEF AcquireAttempt
  <2>3. CASE \E p \in PeerLeases, id \in AttemptIDs, cost \in Costs,
                heavy, loopback \in BOOLEAN : RefuseOverLimit(p, id, cost, heavy, loopback)
    BY <2>3, <1>t DEF RefuseOverLimit
  <2>4. QED BY <1>2, <2>1, <2>2, <2>3 DEF Admit
<1>3. CASE Trip BY <1>3, <1>t DEF Trip
<1>4. CASE CloseGovernor BY <1>4, <1>b, <1>d, BatchesActive DEF CloseGovernor
<1>5. CASE CloseRefused \/ FinishTripDrain \/ CloseCompletes
    BY <1>5, <1>i, <1>d DEF CloseRefused, FinishTripDrain, CloseCompletes
<1>6. ASSUME NEW p \in PeerLeases, ClosePeer(p) \/ FinishPeerClose(p) PROVE BatchSound(e)'
  <2>1. CASE ClosePeer(p) BY <2>1, <1>b, <1>d, BatchesActive DEF ClosePeer
  <2>2. CASE FinishPeerClose(p) BY <2>2, <1>i, <1>d DEF FinishPeerClose
  <2>3. QED BY <1>6, <2>1, <2>2
<1>7. ASSUME NEW d \in Drainers, Drain(d) PROVE BatchSound(e)'
  <2>1. CASE DrainExpires(d)
    <3>1. e # d => drainer'[e] = drainer[e] BY <1>0, <2>1 DEF DrainExpires
    <3>2. QED BY <2>1, <3>1, <1>s, DrainExpiresBatch
  <2>2. CASE DrainTrips(d) BY <2>2, DrainTripsBatches
  <2>3. CASE DrainReleases(d)
    <3>1. e # d => drainer'[e] = drainer[e] BY <1>0, <2>3 DEF DrainReleases
    <3>2. QED BY <2>3, <3>1, <1>s, DrainReleasesBatch
  <2>4. QED BY <1>7, <2>1, <2>2, <2>3 DEF Drain
<1>8. ASSUME NEW l \in Leases, CloseAttempt(l) PROVE BatchSound(e)'
  <2>1. {l} \in SUBSET Leases /\ \A k \in {l} : lease[k].state = "active" BY <1>8 DEF CloseAttempt
  <2>2. QED BY <2>1, <1>8, <1>b, <1>d DEF CloseAttempt
<1>9. ASSUME NEW l \in Leases,
             \/ RegisterDrain(l) \/ RegisterAccounting(l) \/ CompleteDrain(l)
             \/ CloseLoopback(l) \/ WriterStarts(l) \/ WriterFinishes(l) \/ WriterCompletes(l)
      PROVE  BatchSound(e)'
    BY <1>9, <1>s DEF RegisterDrain, RegisterAccounting, CompleteDrain, CloseLoopback,
                      WriterStarts, WriterFinishes, WriterCompletes
<1>10. ASSUME NEW l \in Leases, Manage(l) PROVE BatchSound(e)'
  <2>1. CASE ManagerNetworkExpires(l) BY <2>1, <1>t DEF ManagerNetworkExpires
  <2>2. CASE ~ManagerNetworkExpires(l)
    BY <1>10, <2>2, <1>s DEF Manage, ManagerNetworkDrained, ManagerSucceeds, ManagerTimesOut,
                             ManagerFails, ManagerSettles
  <2>3. QED BY <2>1, <2>2
<1>11. QED
    BY <1>2, <1>3, <1>4, <1>5, <1>6, <1>7, <1>8, <1>9, <1>10 DEF Next, Close, PeerClose, finishLoopback

\* acquireAttempt admits a first attempt only when none is registered.
LEMMA AcquiredAlone ==
    ASSUME IInv, MaxActiveAttempts = 1, NEW l \in Leases, NEW p, NEW id, NEW cost, NEW heavy,
           NEW loopback, AcquireAttempt(l, p, id, cost, heavy, loopback),
           NEW k \in Leases, lease'[k].state = "active"
    PROVE  k = l
<1> DEFINE A == {i \in AttemptIDs : attempts[i] # None}
           f == [i \in A |-> attempts[i]]
<1>1. IsFiniteSet(A)
  <2>1. f \in Injection(A, Leases)
    <3>1. f \in [A -> Leases] BY DEF IInv, TypeOK
    <3>2. \A i, j \in A : f[i] = f[j] => i = j BY DEF IInv, RegistryHoldsActive
    <3>3. QED BY <3>1, <3>2 DEF Injection, IsInjective
  <2>2. IsFiniteSet(Leases) BY GovernorObjects
  <2>3. QED BY <2>1, <2>2, FS_Injection
<1>2. Cardinality(A) < 1 BY DEF AcquireAttempt, WithinLimits
<1>3. A = {}
  <2>1. Cardinality(A) \in Nat BY <1>1, FS_CardinalityType
  <2>2. QED BY <1>1, <1>2, <2>1, FS_EmptySet
<1>4. lease[k].state # "active" BY <1>3, NoneIsNoLease DEF IInv, RegistryConsistent, PeersKept
<1>5. k # l => lease'[k] = lease[k] BY DEF AcquireAttempt, IInv, TypeOK
<1>6. QED BY <1>4, <1>5

\* One attempt is active at a time, and a closed one is stopping.
LEMMA StepOneActive ==
    ASSUME IInv, TypeOK', OneInv, Eases, Next, OneAttempt' PROVE OneActive'
<1>1. ASSUME MaxActiveAttempts = 1, NEW k \in Leases, NEW l \in Leases,
             lease'[k].state = "active", lease'[l].state = "active"
      PROVE  k = l
  <2>1. lease[k] \in LeaseStates /\ lease[l] \in LeaseStates BY DEF IInv, TypeOK
  <2>2. lease[k].state # "closed" /\ lease[l].state # "closed"
    BY <1>1, <2>1 DEF Eases
  <2>3. CASE lease[k].state = "free" BY <1>1, <2>3, OnlyAcquireActivates, AcquiredAlone DEF IInv
  <2>4. CASE lease[l].state = "free" BY <1>1, <2>4, OnlyAcquireActivates, AcquiredAlone DEF IInv
  <2>5. CASE lease[k].state = "active" /\ lease[l].state = "active"
    BY <2>5 DEF OneInv, OneActive
  <2>6. QED BY <2>1, <2>2, <2>3, <2>4, <2>5 DEF LeaseStates
<1>2. ASSUME NEW l \in Leases, lease'[l].state = "closed" PROVE lease'[l].stopping
    BY <1>2 DEF Eases, OneInv, OneActive
<1>3. QED BY <1>1, <1>2 DEF OneActive, OneAttempt

\* Close's batch covers the registry: nothing is admitted while it is closing.
LEMMA StepCovers ==
    ASSUME IInv, TypeOK', CloseCovers, Next PROVE CloseCovers'
<1> DEFINE G == GovernorClose
<1>0. /\ drainer \in [Drainers -> DrainerStates] /\ G \in Drainers
      /\ \A d \in Drainers : drainer[d] \in DrainerStates
    BY DEF IInv, TypeOK, Drainers
<1>k. ASSUME closing' = closing, \A id \in AttemptIDs : attempts'[id] \in {attempts[id], None},
             \/ drainer'[G] = drainer[G]
             \/ drainer[G].pc # "idle" /\ drainer'[G].batch = drainer[G].batch
      PROVE  CloseCovers'
  <2>1. Registered' \subseteq Registered BY <1>k, NoneIsNoLease DEF Registered
  <2>2. QED BY <1>k, <2>1 DEF CloseCovers
<1>u. ASSUME closing' = closing, attempts' = attempts, drainer'[G] = drainer[G] PROVE CloseCovers'
    BY <1>u, <1>k
<1>t. ASSUME NEW d \in [Drainers -> DrainerStates], NEW t, TripLocked(d, t)
      PROVE  drainer'[G] = d[G]
  <2>1. G # TripDrain BY GovernorObjects
  <2>2. QED BY <1>0, <1>t, <2>1 DEF TripLocked
<1>i. ASSUME drainer' = [drainer EXCEPT ![G] = Idle] PROVE CloseCovers'
    BY <1>0, <1>i DEF CloseCovers, Idle
<1>r. ASSUME NEW S, Release(S) PROVE \A id \in AttemptIDs : attempts'[id] \in {attempts[id], None}
    BY <1>r DEF Release
<1>2. CASE Admit
  <2>1. CASE \E p \in PeerLeases, id \in PeerIDs : AcquirePeer(p, id)
    BY <2>1, <1>u DEF AcquirePeer, flags
  <2>2. CASE \E p \in PeerLeases, id \in AttemptIDs, cost \in Costs, heavy, loopback \in BOOLEAN,
                l \in Leases : AcquireAttempt(l, p, id, cost, heavy, loopback)
    <3>1. ~closing /\ drainer' = drainer BY <2>2 DEF AcquireAttempt, MayAcquire
    <3>2. QED BY <3>1 DEF CloseCovers
  <2>3. CASE \E p \in PeerLeases, id \in AttemptIDs, cost \in Costs,
                heavy, loopback \in BOOLEAN : RefuseOverLimit(p, id, cost, heavy, loopback)
    BY <2>3, <1>0, <1>t, <1>u DEF RefuseOverLimit, registry
  <2>4. QED BY <1>2, <2>1, <2>2, <2>3 DEF Admit
<1>3. CASE Trip BY <1>3, <1>0, <1>t, <1>u DEF Trip, registry
<1>4. CASE CloseGovernor
  <2>1. drainer'[G] = Draining(Registered) /\ closing' /\ attempts' = attempts
    BY <1>0, <1>4 DEF CloseGovernor, registry
  <2>2. Registered' = Registered BY <2>1 DEF Registered
  <2>3. QED BY <2>1, <2>2 DEF CloseCovers, Draining
<1>5. CASE CloseRefused \/ CloseCompletes BY <1>5, <1>i DEF CloseRefused, CloseCompletes
<1>6. CASE FinishTripDrain
  <2>1. G # TripDrain BY GovernorObjects
  <2>2. drainer'[G] = drainer[G] BY <1>0, <1>6, <2>1 DEF FinishTripDrain
  <2>3. QED BY <1>6, <2>2, <1>u DEF FinishTripDrain
<1>7. ASSUME NEW p \in PeerLeases, ClosePeer(p) \/ FinishPeerClose(p) PROVE CloseCovers'
  <2>1. G # p BY GovernorObjects
  <2>2. drainer'[G] = drainer[G] BY <1>0, <1>7, <2>1 DEF ClosePeer, FinishPeerClose
  <2>3. QED BY <1>7, <2>2, <1>u DEF ClosePeer, FinishPeerClose, flags
<1>8. ASSUME NEW d \in Drainers, Drain(d) PROVE CloseCovers'
  <2>1. CASE DrainExpires(d)
    <3>1. \/ drainer'[G] = drainer[G]
          \/ drainer[G].pc # "idle" /\ drainer'[G].batch = drainer[G].batch
      BY <1>0, <2>1 DEF DrainExpires, DrainerStates
    <3>2. QED BY <2>1, <3>1, <1>k DEF DrainExpires, flags, registry
  <2>2. CASE DrainTrips(d)
    <3> DEFINE next == [drainer EXCEPT ![d].pc = "release", ![d].victim = None]
    <3>1. /\ next = [drainer EXCEPT ![d] = [drainer[d] EXCEPT !.pc = "release", !.victim = None]]
          /\ [drainer[d] EXCEPT !.pc = "release", !.victim = None] \in DrainerStates
      BY <1>0, DrainerUpdates
    <3>2. next \in [Drainers -> DrainerStates] BY <1>0, <3>1
    <3>3. \/ next[G] = drainer[G]
          \/ drainer[G].pc # "idle" /\ next[G].batch = drainer[G].batch
      BY <1>0, <2>2, <3>1 DEF DrainTrips, DrainerStates
    <3>4. drainer' = next \/ TripLocked(next, term) BY <2>2 DEF DrainTrips
    <3> HIDE DEF next
    <3>5. drainer'[G] = next[G] BY <1>t, <3>2, <3>4
    <3>6. QED BY <2>2, <3>3, <3>5, <1>k DEF DrainTrips, registry
  <2>3. CASE DrainReleases(d)
    <3>1. CASE d = G
      <4>1. G \notin Leases /\ drainer[G].pc # "idle" BY <2>3, <3>1, GovernorObjects DEF DrainReleases
      <4>2. drainer'[G] = [drainer[G] EXCEPT !.pc = "phased"]
        BY <1>0, <2>3, <3>1, <4>1 DEF DrainReleases
      <4>3. drainer'[G].batch = drainer[G].batch BY <1>0, <4>2 DEF DrainerStates
      <4>4. QED BY <2>3, <4>1, <4>3, <1>k, <1>r DEF DrainReleases, flags
    <3>2. CASE d # G
      <4>1. drainer'[G] = drainer[G] BY <1>0, <2>3, <3>2 DEF DrainReleases
      <4>2. QED BY <2>3, <4>1, <1>k, <1>r DEF DrainReleases, flags
    <3>3. QED BY <3>1, <3>2
  <2>4. QED BY <1>8, <2>1, <2>2, <2>3 DEF Drain
<1>9. ASSUME NEW l \in Leases, CloseAttempt(l) PROVE CloseCovers'
  <2>1. G # l BY GovernorObjects
  <2>2. drainer'[G] = drainer[G] BY <1>0, <1>9, <2>1 DEF CloseAttempt
  <2>3. QED BY <1>9, <2>2, <1>u DEF CloseAttempt, flags, registry
<1>10. ASSUME NEW l \in Leases,
             \/ RegisterDrain(l) \/ RegisterAccounting(l) \/ CompleteDrain(l)
             \/ CloseLoopback(l) \/ WriterStarts(l) \/ WriterFinishes(l) \/ WriterCompletes(l)
      PROVE  CloseCovers'
    BY <1>10, <1>u DEF RegisterDrain, RegisterAccounting, CompleteDrain, CloseLoopback,
                      WriterStarts, WriterFinishes, WriterCompletes, flags, registry
<1>11. ASSUME NEW l \in Leases, Manage(l) PROVE CloseCovers'
  <2>1. CASE ManagerNetworkExpires(l)
    BY <1>0, <2>1, <1>t, <1>u DEF ManagerNetworkExpires, registry
  <2>2. CASE ManagerSucceeds(l) BY <2>2, <1>k, <1>r DEF ManagerSucceeds, flags
  <2>3. CASE ~ManagerNetworkExpires(l) /\ ~ManagerSucceeds(l)
    BY <1>11, <2>3, <1>u DEF Manage, ManagerNetworkDrained, ManagerTimesOut,
                             ManagerFails, ManagerSettles, flags, registry
  <2>4. QED BY <2>1, <2>2, <2>3
<1>12. QED
    BY <1>2, <1>3, <1>4, <1>5, <1>6, <1>7, <1>8, <1>9, <1>10, <1>11
       DEF Next, Close, PeerClose, finishLoopback

\* An attempt is closed by the release of its batch, by the success of its
\* manager, or by the Close of the governor.
LEMMA OnlyReleasesClose ==
    ASSUME TypeOK, Next, NEW l \in Leases, lease[l].state # "closed", lease'[l].state = "closed"
    PROVE  \/ \E d \in Drainers : DrainReleases(d) /\ l \in Ordinary(drainer[d].batch)
           \/ ManagerSucceeds(l)
           \/ CloseCompletes
<1>r. Registered \in SUBSET Leases BY DEF Registered
<1>b. ASSUME NEW S \in SUBSET Leases, NEW t, BeginStopping(S, t) PROVE FALSE
    BY <1>b, BeginStoppingKeeps
<1>t. ASSUME NEW d, NEW t, TripLocked(d, t) PROVE FALSE
    BY <1>t, <1>r, <1>b DEF TripLocked
<1>u. lease' # lease OBVIOUS
<1>s. ASSUME NEW S \in SUBSET Leases, Release(S) PROVE l \in S
    BY <1>s DEF Release
<1>c. ASSUME NEW k \in Leases, NEW n, NEW a, NEW t, Completed(k, n, a, t) PROVE FALSE
    BY <1>c DEF Completed, TypeOK, LeaseStates
<1>2. ASSUME Admit PROVE FALSE
  <2>1. ASSUME NEW p \in PeerLeases, NEW id \in PeerIDs, AcquirePeer(p, id) PROVE FALSE
    BY <2>1, <1>u DEF AcquirePeer
  <2>2. ASSUME NEW p, NEW id, NEW cost, NEW heavy, NEW loopback, NEW k \in Leases,
               AcquireAttempt(k, p, id, cost, heavy, loopback)
        PROVE  FALSE
    BY <2>2 DEF AcquireAttempt, TypeOK, LeaseStates
  <2>3. ASSUME NEW p, NEW id, NEW cost, NEW heavy, NEW loopback,
               RefuseOverLimit(p, id, cost, heavy, loopback)
        PROVE  FALSE
    BY <2>3, <1>t DEF RefuseOverLimit
  <2>4. QED BY <1>2, <2>1, <2>2, <2>3 DEF Admit
<1>3. ASSUME Trip PROVE FALSE BY <1>3, <1>t DEF Trip
<1>4. ASSUME CloseGovernor PROVE FALSE BY <1>4, <1>r, <1>b DEF CloseGovernor
<1>5. ASSUME CloseRefused \/ FinishTripDrain PROVE FALSE BY <1>5, <1>u DEF CloseRefused, FinishTripDrain
<1>6. ASSUME NEW p \in PeerLeases, ClosePeer(p) \/ FinishPeerClose(p) PROVE FALSE
  <2>1. peer[p].attempts \in SUBSET Leases BY DEF TypeOK
  <2>2. QED BY <1>6, <2>1, <1>b, <1>u DEF ClosePeer, FinishPeerClose
<1>7. ASSUME NEW d \in Drainers, Drain(d)
      PROVE  DrainReleases(d) /\ l \in Ordinary(drainer[d].batch)
  <2>1. Ordinary(drainer[d].batch) \in SUBSET Leases BY DEF TypeOK, DrainerStates, Ordinary
  <2>2. ~DrainExpires(d) BY <1>u DEF DrainExpires
  <2>3. ~DrainTrips(d) BY <1>t, <1>u DEF DrainTrips
  <2>4. QED BY <1>7, <2>1, <2>2, <2>3, <1>s DEF Drain, DrainReleases
<1>8. ASSUME NEW k \in Leases, RegisterDrain(k) \/ RegisterAccounting(k) PROVE FALSE
  <2>0. lease[l] \in LeaseStates BY DEF TypeOK
  <2>1. \/ lease'[l] = lease[l]
        \/ lease'[l] = [lease[l] EXCEPT !.net = lease[l].net + 1]
        \/ lease'[l] = [lease[l] EXCEPT !.acct = TRUE, !.acctUsed = TRUE]
    BY <1>8 DEF RegisterDrain, RegisterAccounting, TypeOK
  <2>2. QED BY <2>0, <2>1 DEF LeaseStates
<1>9. ASSUME NEW k \in Leases,
             \/ CompleteDrain(k) \/ CloseAttempt(k) \/ CloseLoopback(k)
             \/ WriterStarts(k) \/ WriterFinishes(k) \/ WriterCompletes(k)
      PROVE  FALSE
  <2>1. {k} \in SUBSET Leases OBVIOUS
  <2>2. QED
    BY <1>9, <2>1, <1>b, <1>c, <1>u DEF CompleteDrain, CloseAttempt, CloseLoopback,
                                        WriterStarts, WriterFinishes, WriterCompletes
<1>10. ASSUME NEW k \in Leases, Manage(k) PROVE ManagerSucceeds(l)
  <2>1. {k} \in SUBSET Leases OBVIOUS
  <2>2. ManagerSucceeds(k)
    BY <1>10, <1>t, <1>u DEF Manage, ManagerNetworkDrained, ManagerNetworkExpires,
                             ManagerTimesOut, ManagerFails, ManagerSettles
  <2>3. Release({k}) BY <2>2 DEF ManagerSucceeds
  <2>4. l = k BY <2>1, <2>3, <1>s
  <2>5. QED BY <2>2, <2>4
<1>11. QED
    BY <1>2, <1>3, <1>4, <1>5, <1>6, <1>7, <1>8, <1>9, <1>10 DEF Next, Close, PeerClose, finishLoopback

\* A closed attempt is drained, or the machine has tripped.
LEMMA StepDone ==
    ASSUME IInv, TypeOK', OneInv, Eases, Next PROVE DoneMeansDrainedOrTripped'
<1> SUFFICES ASSUME NEW l \in Leases, lease'[l].state = "closed", Pending(l)' > 0 PROVE trip'
    BY DEF DoneMeansDrainedOrTripped
<1>0. lease[l] \in LeaseStates /\ lease'[l] \in LeaseStates /\ Sound(lease[l], term[l])
    BY DEF IInv, TypeOK, TermsSound
<1>t. trip => trip' BY DEF Eases
<1>p. lease[l].stopping => Pending(l) > 0
  <2>1. lease[l].stopping => lease'[l].net <= lease[l].net /\ (lease'[l].acct => lease[l].acct)
    BY DEF Eases
  <2>2. QED BY <1>0, <2>1 DEF Pending, LeaseStates
<1>1. CASE lease[l].state = "closed"
  <2>1. lease[l].stopping BY <1>1 DEF OneInv, OneActive
  <2>2. QED BY <1>1, <1>p, <1>t, <2>1 DEF OneInv, DoneMeansDrainedOrTripped
<1>2. CASE lease[l].state # "closed"
  <2>n. lease[l].net = 0 /\ ~lease[l].acct => Pending(l) = 0 BY <1>0 DEF Pending, LeaseStates
  <2>1. ASSUME NEW d \in Drainers, DrainReleases(d), l \in Ordinary(drainer[d].batch) PROVE trip'
    <3>1. BatchSound(d) BY DEF OneInv
    <3>2. lease[l].stopping BY <2>1, <3>1 DEF BatchSound, Ordinary
    <3>3. CASE drainer[d].pc = "release"
      <4>1. trip \/ Pending(l) = 0 BY <1>2, <2>1, <3>1, <3>3 DEF BatchSound
      <4>2. QED BY <4>1, <3>2, <1>p, <1>t
    <3>4. CASE drainer[d].pc = "wait" /\ Undrained(d) = {}
      <4>1. lease[l].drained BY <1>2, <2>1, <3>4 DEF Undrained
      <4>2. QED BY <4>1, <3>2, <1>0, <1>p, <2>n DEF Sound
    <3>5. QED BY <2>1, <3>3, <3>4 DEF DrainReleases
  <2>2. CASE ManagerSucceeds(l)
    <3>1. /\ term[l].manager = "accounting" /\ term[l].acctClosed /\ ~term[l].netErr
      BY <2>2 DEF ManagerSucceeds
    <3>2. lease[l].stopping /\ lease[l].net = 0 /\ ~lease[l].acct BY <1>0, <3>1 DEF Sound
    <3>3. QED BY <3>2, <1>p, <2>n
  <2>3. CASE CloseCompletes
    <3>1. lease[l].state = "active"
      BY <1>2, <2>3, CloseFindsAll DEF CloseCompletes, IInv
    <3>2. l \in Registered BY <3>1, ActiveRegistered DEF IInv
    <3>3. /\ drainer[GovernorClose].pc = "phased" /\ l \in drainer[GovernorClose].batch
          /\ GovernorClose \in Drainers
      BY <2>3, <3>2 DEF CloseCompletes, Judged, OneInv, CloseCovers, Drainers
    <3>4. lease[l].stopping BY <3>3 DEF OneInv, BatchSound
    <3>5. lease[l].loopback BY <3>1, <3>3 DEF OneInv, BatchSound, Ordinary
    <3>6. term[l].manager = "settled"
      BY <2>3, <3>2, <3>5 DEF CloseCompletes, LoopbackWorkOutstanding, Phased
    <3>7. term[l].verdict # "none" /\ term[l] \in TermStates
      BY <1>0, <3>6 DEF Sound, IInv, TypeOK
    <3>8. term[l].verdict \in {"ok", "failed"} BY <3>7 DEF TermStates
    <3>9. lease[l].net = 0 /\ ~lease[l].acct BY <1>0, <3>6, <3>8 DEF Sound
    <3>10. QED BY <3>4, <3>9, <1>p, <2>n
  <2>4. QED BY <1>2, <2>1, <2>2, <2>3, OnlyReleasesClose DEF IInv
<1>3. QED BY <1>1, <1>2

\* newGovernor has nothing to drain.
LEMMA InitOne == Init => OneInv
<1> SUFFICES ASSUME Init PROVE OneInv OBVIOUS
<1>1. \A l \in Leases : lease[l].state = "free" BY DEF Init
<1>2. OneActive /\ DoneMeansDrainedOrTripped BY <1>1 DEF OneActive, DoneMeansDrainedOrTripped
<1>3. \A d \in Drainers : drainer[d] = Idle BY DEF Init
<1>4. CloseCovers BY <1>3 DEF CloseCovers, Drainers, Idle
<1>5. ASSUME NEW d \in Drainers PROVE BatchSound(d) BY <1>3 DEF BatchSound, Idle
<1>6. QED BY <1>2, <1>4, <1>5 DEF OneInv

\* With one attempt at a time, by the limit or because there is no second yet, an
\* attempt is Done with drains outstanding only after the governor has failed closed:
\* the look that drainAttempts takes under the lock, at one witness, is a look at the
\* whole batch.
THEOREM OneAttemptIsDrained == Spec => []OneAttemptDrained
<1>1. (OneAttempt => OneInv) /\ IInv /\ IInv' /\ [Next]_vars => (OneAttempt => OneInv)'
  <2> SUFFICES ASSUME OneAttempt => OneInv, IInv, IInv', [Next]_vars, OneAttempt' PROVE OneInv'
      OBVIOUS
  <2>1. CASE Next
    <3>1. Eases /\ TypeOK' BY <2>1, StepEases DEF IInv
    <3>2. OneInv BY <3>1 DEF Eases, OneAttempt
    <3>3. OneActive' BY <2>1, <3>1, <3>2, StepOneActive
    <3>4. CloseCovers' BY <2>1, <3>1, <3>2, StepCovers DEF OneInv
    <3>5. DoneMeansDrainedOrTripped' BY <2>1, <3>1, <3>2, StepDone
    <3>6. \A d \in Drainers : BatchSound(d)' BY <2>1, <3>1, <3>2, StepBatches
    <3>7. QED BY <3>3, <3>4, <3>5, <3>6 DEF OneInv, Drainers
  <2>2. CASE UNCHANGED vars
    <3>1. UNCHANGED <<trip, closing, attempts, lease, drainer>>
      BY <2>2 DEF vars, flags, registry
    <3>2. OneInv BY <3>1 DEF OneAttempt
    <3>3. QED
      BY <3>1, <3>2 DEF OneInv, OneActive, CloseCovers, DoneMeansDrainedOrTripped, BatchSound,
                        Pending, Registered, Ordinary, Drainers
  <2>3. QED BY <2>1, <2>2
<1>2. (OneAttempt => OneInv) => OneAttemptDrained BY DEF OneInv, OneAttemptDrained
<1>3. QED BY <1>1, <1>2, InitOne, Invariance, PTL DEF Spec
=============================================================================
