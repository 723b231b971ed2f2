------------------------------ MODULE RecoveryCard ------------------------------
(***************************************************************************)
(* The recovery card a node keeps for bootstrapping itself again           *)
(* (pkg/recoverycard; Observe, the candidate portfolio, the candidate      *)
(* schedule and the attempt windows of pkg/bootstrap/selfhosted).          *)
(*                                                                         *)
(* Observations of successful paths arrive in any order of their times and *)
(* are folded into a bounded card, which is validated before it replaces   *)
(* the file.  Time 0 is the zero time.                                     *)
(***************************************************************************)
EXTENDS Integers, SequencesExt

CONSTANTS
    Peers,          \* peer ids, integers in the order of the ids
    Remotes,        \* remote addresses: [ip, port, public]
    Locals,         \* local bind ports
    Ranks,          \* candidateNATRank of the NAT patterns observed
    MaxTime,        \* bound: the clock
    MaxObserved,    \* bound: observations
    MaxPeers, MaxLocalBindPorts, MaxEndpointsPerPeer,   \* limits of the card
    MaxGroups, MaxAnchors,                              \* limits of a portfolio
    Cycle, Window, Offset,                              \* attempt cycle, its active part, the pair's phase
    None

ScheduleSize == MaxGroups * MaxGroups

VARIABLES
    rdCard,         \* the card in the file
    rdNewest,       \* the newest success among the saved observations
    rdRefused,      \* Validate refused what an observation made of the card
    rdClock, rdObserved

vars == <<rdCard, rdNewest, rdRefused, rdClock, rdObserved>>

NoCard == [ports |-> <<>>, updated |-> 0, last |-> 0, natAt |-> 0, peers |-> <<>>]

\* The clock may stand before the pair's phase, so that window ordinals are negative.
Init ==
    /\ rdCard = NoCard /\ rdNewest = 0 /\ rdRefused = FALSE
    /\ rdClock = 1 /\ rdObserved = 0

Known(card) == DOMAIN card.peers
latestTime(S) == Max(S \cup {0})

-----------------------------------------------------------------------------
(* Observe. *)

\* A NAT model without a time, or with one from the future, is dated now.
normalizeNATModel(natAt, at) == IF natAt = 0 \/ natAt > at THEN at ELSE natAt

Without(card, gone) == [card EXCEPT !.peers = [p \in Known(card) \ gone |-> card.peers[p]]]

\* The peer with the oldest success, the first of them by id.
evictOldestPeer(card) ==
    LET Older(p, q) == \/ card.peers[p].last < card.peers[q].last
                       \/ card.peers[p].last = card.peers[q].last /\ p <= q
    IN  Without(card, {CHOOSE p \in Known(card) : \A q \in Known(card) : Older(p, q)})

WithPeer(card, p) ==
    LET room == IF Cardinality(Known(card)) >= MaxPeers THEN evictOldestPeer(card) ELSE card
    IN  IF p \in Known(card) THEN card
        ELSE [room EXCEPT !.peers = [q \in Known(room) \cup {p} |->
                 IF q = p THEN [port |-> 0, last |-> 0, eps |-> <<>>] ELSE room.peers[q]]]

\* A port moves to the end of the history, at the cost of the entry at index i.
MovedTo(ports, i, port) == Append(RemoveAt(ports, i), port)

\* Room for a port: it is known, or the history is not full, or an entry no peer
\* refers to goes, or the port whose newest success is oldest goes with its peers.
rememberLocalBindPort(card, port, protected) ==
    LET ports == card.ports
        Users(q) == {p \in Known(card) : card.peers[p].port = q}
        Newest(i) == latestTime({card.peers[p].last : p \in Users(ports[i])})
        first(S) == CHOOSE i \in S : \A j \in S : i <= j
        same == {i \in DOMAIN ports : ports[i] = port}
        unused == {i \in DOMAIN ports : Users(ports[i]) = {}}
        victims == {i \in DOMAIN ports : protected \notin Users(ports[i])}
        victim == first({i \in victims : \A j \in victims : Newest(i) <= Newest(j)})
    IN  CASE same # {} -> [card EXCEPT !.ports = MovedTo(@, first(same), port)]
          [] same = {} /\ Len(ports) < MaxLocalBindPorts -> [card EXCEPT !.ports = Append(@, port)]
          [] same = {} /\ Len(ports) >= MaxLocalBindPorts /\ unused # {} ->
                [card EXCEPT !.ports = MovedTo(@, first(unused), port)]
          [] OTHER -> [Without(card, Users(ports[victim])) EXCEPT !.ports = MovedTo(@, victim, port)]

\* The endpoint takes its place, unless a later success is recorded for it; the
\* list stays sorted by success, newest first, stably, and bounded.
WithEndpoint(eps, e) ==
    LET known == {i \in DOMAIN eps : eps[i].addr = e.addr}
        at == IF known = {} THEN Len(eps) + 1 ELSE CHOOSE i \in known : TRUE
        rest == IF known = {} THEN eps ELSE RemoveAt(eps, at)
        place == 1 + Cardinality({i \in DOMAIN rest : \/ rest[i].at > e.at
                                                      \/ rest[i].at = e.at /\ i < at})
        all == IF known # {} /\ eps[at].at > e.at THEN eps ELSE InsertAt(rest, place, e)
    IN  SubSeq(all, 1, Min({Len(all), MaxEndpointsPerPeer}))

\* The whole update: local NAT, peer, port, endpoint, then the times derived from them.
Updated(card, o) ==
    LET natL == normalizeNATModel(o.natAt, o.at)
        natR == normalizeNATModel(o.natAt, o.at)
        dated == [card EXCEPT !.updated = latestTime({@, o.at, natL, natR}), !.natAt = IF natL >= @ THEN natL ELSE @]
        held == WithPeer(dated, o.peer)
        latest == o.at >= held.peers[o.peer].last
        ported == IF latest THEN rememberLocalBindPort([held EXCEPT !.peers[o.peer].port = o.local], o.local, o.peer)
                  ELSE held
        e == [addr |-> o.remote, at |-> o.at, rank |-> o.rank, natAt |-> natR]
        eps == WithEndpoint(ported.peers[o.peer].eps, e)
        peered == [ported EXCEPT !.peers[o.peer].eps = eps, !.peers[o.peer].last = latestTime({eps[i].at : i \in DOMAIN eps})]
        last == latestTime({peered.peers[p].last : p \in Known(peered)})
    IN  [peered EXCEPT !.last = last, !.updated = latestTime({@, last, peered.natAt})]

\* Card.Validate, with Peer.validate and Endpoint.validate.
ValidEndpoint(e, card) == e.at # 0 /\ e.at <= card.updated /\ e.natAt # 0 /\ e.natAt <= e.at
ValidPeer(p, card) ==
    /\ p.port # 0 /\ p.port \in ToSet(card.ports)
    /\ p.last # 0 /\ p.last <= card.updated
    /\ Len(p.eps) \in 1..MaxEndpointsPerPeer
    /\ \A i, j \in DOMAIN p.eps : p.eps[i].addr = p.eps[j].addr => i = j
    /\ \A i \in DOMAIN p.eps : ValidEndpoint(p.eps[i], card)
    /\ p.last = latestTime({p.eps[i].at : i \in DOMAIN p.eps})
Validate(card) ==
    /\ card.updated # 0 /\ card.last # 0 /\ card.last <= card.updated
    /\ Len(card.ports) \in 1..MaxLocalBindPorts /\ IsInjective(card.ports)
    /\ card.natAt # 0 /\ card.natAt <= card.updated
    /\ Cardinality(Known(card)) \in 1..MaxPeers
    /\ \A p \in Known(card) : ValidPeer(card.peers[p], card)
    /\ card.last = latestTime({card.peers[p].last : p \in Known(card)})

\* Store.Update: load, change, validate, replace the file.  A failure before the
\* rename leaves the old card; one after it is reported although the card is new.
Observe ==
    /\ rdObserved < MaxObserved
    /\ rdObserved' = rdObserved + 1
    /\ \E o \in [peer : Peers, remote : Remotes, local : Locals, rank : Ranks,
                 at : 1..rdClock, natAt : {0, rdClock}] :
          LET card == Updated(rdCard, o) IN
          /\ rdRefused' = (rdRefused \/ ~Validate(card))
          /\ \/ rdCard' = (IF Validate(card) THEN card ELSE rdCard) /\ rdNewest' = Max({rdNewest, o.at})
             \/ UNCHANGED <<rdCard, rdNewest>>
    /\ UNCHANGED rdClock

Tick ==
    /\ rdClock < MaxTime
    /\ rdClock' = rdClock + 1
    /\ UNCHANGED <<rdCard, rdNewest, rdRefused, rdObserved>>

Next == Observe \/ Tick
Spec == Init /\ [][Next]_vars

-----------------------------------------------------------------------------
(* What the engine reads from the card. *)

\* candidateAnchorLess: newest success, then the friendlier NAT, then the address.
candidateAnchorLess(l, r) ==
    \/ l.at > r.at
    \/ l.at = r.at /\ l.rank < r.rank
    \/ l.at = r.at /\ l.rank = r.rank /\ l.addr.ip < r.addr.ip
    \/ l.at = r.at /\ l.rank = r.rank /\ l.addr.ip = r.addr.ip /\ l.addr.port < r.addr.port

\* buildCandidatePortfolio: usable endpoints, ranked, grouped by address in the order
\* the addresses first appear, groups and anchors bounded.
Usable(peer, allowNonPublic) == {e \in ToSet(peer.eps) : allowNonPublic \/ e.addr.public}
buildCandidatePortfolio(peer, allowNonPublic) ==
    LET anchors == SetToSortSeq(Usable(peer, allowNonPublic), candidateAnchorLess)
        heads == SetToSortSeq({i \in DOMAIN anchors : \A j \in 1..(i - 1) : anchors[j].addr.ip # anchors[i].addr.ip}, <)
        Group(i) == LET SameIp(a) == a.addr.ip = anchors[i].addr.ip
                        all == SelectSeq(anchors, SameIp)
                    IN  SubSeq(all, 1, Min({Len(all), MaxAnchors}))
    IN  [g \in 1..Min({Len(heads), MaxGroups}) |-> Group(heads[g])]

\* recoveryCandidateScheduleIndex: one axis of the square of ranks for each role.
recoveryCandidateScheduleIndex(ordinal, role, count) ==
    LET phase == ordinal % ScheduleSize
        coordinate == IF role = "receiver" THEN phase \div MaxGroups ELSE phase % MaxGroups
    IN  IF count <= 1 THEN 0 ELSE coordinate % count

\* attemptWindowDetails: floor division, also before the phase.
attemptWindow(now) ==
    LET index == (now - Offset) \div Cycle
        start == index * Cycle + Offset
    IN  [start |-> start, end |-> start + Window, ordinal |-> index, active |-> start <= now /\ now < start + Window]
nextAttemptWindow(now) ==
    LET w == attemptWindow(now) IN IF w.active \/ now >= w.start THEN w.start + Cycle ELSE w.start

-----------------------------------------------------------------------------
(* Properties. *)

\* However late and in whatever order observations arrive, the card they make is
\* one Validate accepts: no peer refers to a port that was forgotten, no bound is
\* passed, every derived time fits.  A refusal would lose the success for good.
NeverRefused == ~rdRefused /\ (rdCard # NoCard => Validate(rdCard))

\* What is evicted is never the newest success: the card still holds it.
NewestKept == rdCard.last = rdNewest

\* A portfolio leaves an endpoint out only for better ones: as many anchors of its
\* own address, or as many other addresses, as the bounds allow; and its groups are
\* in the order of their best anchors.
PortfolioRanked ==
    \A p \in Known(rdCard), open \in BOOLEAN :
        LET groups == buildCandidatePortfolio(rdCard.peers[p], open)
            usable == Usable(rdCard.peers[p], open)
            Kept == UNION {ToSet(groups[g]) : g \in DOMAIN groups}
            Better(e) == {a \in Kept : candidateAnchorLess(a, e)}
        IN  /\ \A e \in usable \ Kept :
                 \/ Cardinality({a \in Better(e) : a.addr.ip = e.addr.ip}) = MaxAnchors
                 \/ Cardinality({a.addr.ip : a \in Better(e)}) = MaxGroups /\ \A a \in Kept : a.addr.ip # e.addr.ip
            /\ \A g, h \in DOMAIN groups : g < h => candidateAnchorLess(groups[g][1], groups[h][1])
            /\ usable # {} => groups # <<>>

\* "Every 16 consecutive windows therefore cover all retained rank combinations":
\* whatever the two portfolios' sizes, from the current window on, each end's every
\* rank meets the other's every rank.  (It does not depend on the card.)
ScheduleCovers ==
    rdObserved = 0 => \A m, n \in 1..MaxGroups :
        LET first == attemptWindow(rdClock).ordinal IN
        {<<recoveryCandidateScheduleIndex(w, "selector", m), recoveryCandidateScheduleIndex(w, "receiver", n)>> :
            w \in first..(first + ScheduleSize - 1)} = (0..(m - 1)) \X (0..(n - 1))

\* The next window is the first one that starts after now, also before the phase.
WindowsFollow ==
    LET w == attemptWindow(rdClock)  next == nextAttemptWindow(rdClock) IN
    /\ w.start <= rdClock /\ rdClock < w.start + Cycle
    /\ next > rdClock /\ next <= rdClock + Cycle /\ attemptWindow(next).start = next
    /\ attemptWindow(next).ordinal = w.ordinal + 1

CardSafe == NeverRefused /\ NewestKept /\ PortfolioRanked /\ ScheduleCovers /\ WindowsFollow
=============================================================================
