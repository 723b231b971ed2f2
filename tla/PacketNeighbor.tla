---------------------------- MODULE PacketNeighbor ----------------------------
(***************************************************************************)
(* The packet neighbour session of pkg/mesh at both ends of one edge: read *)
(* loop, keepalive loop, readiness and peer timeouts, in discrete time.    *)
(* Time passes only while nothing is due: a ticker, a poll deadline or the *)
(* longest delay of the network.                                           *)
(***************************************************************************)
EXTENDS Naturals, FiniteSets

CONSTANTS
    KeepAlive, PeerTimeout, Readiness, Poll,    \* PacketNeighborConfig.withDefaults
    Delay,          \* longest delay of a packet
    Skew,           \* longest time between the attachments of the two ends
    MaxLost,        \* bound: packets lost
    Closes,         \* the owner may close an end
    Fails           \* the transport of an end may fail

VARIABLES
    pkState,        \* "off", "open", "closed"
    pkCause,        \* closeCause: "none", "readiness", "timeout", "transport"
    pkReady,        \* ready is closed
    pkAge,          \* time since lastRx, before that since Start
    pkTimer,        \* time since the last keepalive
    pkPoll,         \* time since ReadPacket was called
    pkSince,        \* time since the end closed (or since the first end started)
    pkNet,          \* packets: [to, kind, age]
    pkLost

vars == <<pkState, pkCause, pkReady, pkAge, pkTimer, pkPoll, pkSince, pkNet, pkLost>>

Ends == {"a", "b"}
Far(e) == IF e = "a" THEN "b" ELSE "a"
Open(e) == pkState[e] = "open"

Init ==
    /\ pkState = [e \in Ends |-> "off"] /\ pkCause = [e \in Ends |-> "none"]
    /\ pkReady = [e \in Ends |-> FALSE]
    /\ pkAge = [e \in Ends |-> 0] /\ pkTimer = [e \in Ends |-> 0] /\ pkPoll = [e \in Ends |-> 0]
    /\ pkSince = [e \in Ends |-> 0]
    /\ pkNet = {} /\ pkLost = 0

-----------------------------------------------------------------------------
Sent(e, kind, net) == net \cup {[to |-> Far(e), kind |-> kind, age |-> 0]}

\* Start: the keepalive loop opens with a ping.
Start(e) ==
    /\ pkState[e] = "off"
    /\ pkState' = [pkState EXCEPT ![e] = "open"]
    /\ pkNet' = Sent(e, "ping", pkNet)
    /\ UNCHANGED <<pkCause, pkReady, pkAge, pkTimer, pkPoll, pkSince, pkLost>>

\* closeWithError; the first cause stays.
CloseWith(e, cause) ==
    /\ pkState' = [pkState EXCEPT ![e] = "closed"]
    /\ pkCause' = [pkCause EXCEPT ![e] = cause]
    /\ pkSince' = [pkSince EXCEPT ![e] = 0]
    /\ UNCHANGED <<pkReady, pkAge, pkTimer, pkPoll, pkNet, pkLost>>

\* Mutant: a silence of one keepalive interval is taken for a lost peer.
TimeoutCauseOfOneInterval(e) == IF pkAge[e] > KeepAlive THEN "timeout" ELSE "none"

\* timeoutCause
TimeoutCause(e) ==
    IF pkReady[e]
    THEN IF pkAge[e] >= PeerTimeout THEN "timeout" ELSE "none"
    ELSE IF pkAge[e] >= Readiness THEN "readiness" ELSE "none"

\* One tick of keepAliveLoop.
KeepAliveTick(e) ==
    /\ Open(e) /\ pkTimer[e] >= KeepAlive
    /\ IF TimeoutCause(e) # "none" THEN CloseWith(e, TimeoutCause(e))
       ELSE /\ pkTimer' = [pkTimer EXCEPT ![e] = 0]
            /\ pkNet' = Sent(e, "ping", pkNet)
            /\ UNCHANGED <<pkState, pkCause, pkReady, pkAge, pkPoll, pkSince, pkLost>>

\* readLoop: the poll deadline passed without a packet.
ReadTimeout(e) ==
    /\ Open(e) /\ pkPoll[e] >= Poll
    /\ IF TimeoutCause(e) # "none" THEN CloseWith(e, TimeoutCause(e))
       ELSE /\ pkPoll' = [pkPoll EXCEPT ![e] = 0]
            /\ UNCHANGED <<pkState, pkCause, pkReady, pkAge, pkTimer, pkSince, pkNet, pkLost>>

MarkReady(e, age) ==
    pkReady' = [pkReady EXCEPT ![e] = TRUE] /\ pkAge' = [pkAge EXCEPT ![e] = age]

Handle(p) ==
    /\ p \in pkNet /\ Open(p.to)
    /\ pkPoll' = [pkPoll EXCEPT ![p.to] = 0]
    /\ pkNet' = IF p.kind = "ping" THEN Sent(p.to, "pong", pkNet \ {p}) ELSE pkNet \ {p}
    /\ UNCHANGED <<pkState, pkCause, pkTimer, pkSince, pkLost>>

\* readLoop: a valid frame, markReady; a ping is answered.
ReadPacket(p) == Handle(p) /\ MarkReady(p.to, 0)

\* A packet for an end that is not open is gone.
Discard(p) ==
    /\ p \in pkNet /\ ~Open(p.to) /\ pkNet' = pkNet \ {p}
    /\ UNCHANGED <<pkState, pkCause, pkReady, pkAge, pkTimer, pkPoll, pkSince, pkLost>>

Lose(p) ==
    /\ p \in pkNet /\ pkLost < MaxLost
    /\ pkNet' = pkNet \ {p} /\ pkLost' = pkLost + 1
    /\ UNCHANGED <<pkState, pkCause, pkReady, pkAge, pkTimer, pkPoll, pkSince>>

\* A read fails and is no timeout, or a ping cannot be written (keepAliveLoop,
\* the first ping included).
TransportFails(e) == Fails /\ Open(e) /\ CloseWith(e, "transport")

\* readLoop: the ping was taken, but the pong cannot be written.
PongFails(p) ==
    /\ Fails /\ p \in pkNet /\ p.kind = "ping" /\ Open(p.to)
    /\ MarkReady(p.to, 0)
    /\ pkNet' = pkNet \ {p}
    /\ pkState' = [pkState EXCEPT ![p.to] = "closed"]
    /\ pkCause' = [pkCause EXCEPT ![p.to] = "transport"]
    /\ pkSince' = [pkSince EXCEPT ![p.to] = 0]
    /\ UNCHANGED <<pkTimer, pkPoll, pkLost>>

Close(e) == Closes /\ Open(e) /\ CloseWith(e, "none")

\* The second end is attached within Skew of the first.
Tick ==
    /\ \A e \in Ends: Open(e) => pkTimer[e] < KeepAlive /\ pkPoll[e] < Poll
    /\ \A p \in pkNet: p.age < Delay
    /\ \E e \in Ends: Open(e)
    /\ \A e \in Ends: pkState[e] = "off" => pkSince[e] < Skew
    /\ pkAge' = [e \in Ends |-> IF Open(e) THEN pkAge[e] + 1 ELSE pkAge[e]]
    /\ pkTimer' = [e \in Ends |-> IF Open(e) THEN pkTimer[e] + 1 ELSE pkTimer[e]]
    /\ pkPoll' = [e \in Ends |-> IF Open(e) THEN pkPoll[e] + 1 ELSE pkPoll[e]]
    /\ pkSince' = [e \in Ends |-> IF Open(e) THEN pkSince[e] ELSE pkSince[e] + 1]
    /\ pkNet' = {[p EXCEPT !.age = @ + 1]: p \in pkNet}
    /\ UNCHANGED <<pkState, pkCause, pkReady, pkLost>>

readLoop ==
    \/ \E e \in Ends: ReadTimeout(e) \/ TransportFails(e)
    \/ \E p \in pkNet: ReadPacket(p) \/ PongFails(p)

Next ==
    \/ readLoop
    \/ \E e \in Ends: Start(e) \/ KeepAliveTick(e) \/ Close(e)
    \/ \E p \in pkNet: Discard(p) \/ Lose(p)
    \/ Tick

Spec == Init /\ [][Next]_vars

-----------------------------------------------------------------------------
\* A session times out only when the other end is gone (its owner or a failing
\* transport closed it), although keepalives may be lost or late and the ends
\* start apart; and a peer that is gone is noticed within the timeout, one delay
\* and one poll.
KeepAliveSafe ==
    \A e \in Ends:
        /\ pkCause[e] \in {"readiness", "timeout"} => pkState[Far(e)] # "open"
        /\ Open(e) /\ pkState[Far(e)] = "closed" =>
             pkSince[Far(e)] <= Delay + Poll + (IF pkReady[e] THEN PeerTimeout ELSE Readiness)
=============================================================================
