------------------------------- MODULE Strategies -------------------------------
(***************************************************************************)
(* Two ends that run one of the small strategies against each other        *)
(* (pkg/solver/strategy): birthdaypunch, with the coordinated punch of     *)
(* pkg/nat/puncher under it, tcpframed and signalrelay.                    *)
(*                                                                         *)
(* Messages of the strategies travel over the session, in order, and may   *)
(* be lost; punch packets travel over UDP, and may be lost, repeated and   *)
(* reordered: a packet once sent stays in the network.                     *)
(***************************************************************************)
EXTENDS Naturals, Sequences, FiniteSets

CONSTANTS
    Kinds,          \* strategies run: "punch", "tcp", "relay"
    Open,           \* pairs <<initiator socket, responder socket>> the NATs let through
    QueueCap,       \* signalrelay: QueueSize
    MaxPackets,     \* bound: packets an end relays
    MaxAttempts,    \* bound: dial attempts
    MaxRetries,     \* bound: repeated ready and endpoint messages, both ends
    MaxLost,        \* bound: messages lost
    MaxFaults       \* bound: failing sends, abandoned dial attempts

VARIABLES
    stKind,         \* the strategy, fixed
    stAt,           \* per end: where Execute is
    stSig,          \* per end: strategy messages on their way to it
    stRelay,        \* per end: [transport, ready, recv, got, sent, missed]
    stTcp,          \* [listener, backlog, attempt, dialled, accepted, returned, leaked, dead]
    stPunch,        \* per end: [remote, start, pair, committed, late]
    stNet,          \* punch packets: [kind, pair]
    stRetries, stLost, stFaults

vars == <<stKind, stAt, stSig, stRelay, stTcp, stPunch, stNet, stRetries, stLost, stFaults>>
bounds == <<stRetries, stLost, stFaults>>

Ends == {"i", "r"}
Other(e) == IF e = "i" THEN "r" ELSE "i"
NoPair == <<0, 0>>

Init ==
    /\ stKind \in Kinds
    /\ stAt = [e \in Ends |-> "idle"] /\ stSig = [e \in Ends |-> <<>>]
    /\ stRelay = [e \in Ends |-> [transport |-> "none", ready |-> FALSE, recv |-> <<>>, got |-> <<>>,
                                  sent |-> 0, missed |-> FALSE]]
    /\ stTcp = [listener |-> "none", backlog |-> <<>>, attempt |-> 0, dialled |-> 0, accepted |-> 0,
                returned |-> 0, leaked |-> {}, dead |-> {}]
    /\ stPunch = [e \in Ends |-> [remote |-> FALSE, start |-> FALSE, pair |-> NoPair, committed |-> FALSE, late |-> FALSE]]
    /\ stNet = {} /\ stRetries = 0 /\ stLost = 0 /\ stFaults = 0

At(e, where) == stAt[e] = where
Goto(e, where) == stAt' = [stAt EXCEPT ![e] = where]
Send(e, m) == stSig' = [stSig EXCEPT ![Other(e)] = Append(@, m)]
Fault == stFaults < MaxFaults /\ stFaults' = stFaults + 1 /\ UNCHANGED <<stRetries, stLost>>

-----------------------------------------------------------------------------
(* signalrelay *)

Relay == stKind = "relay"
relayOthers == <<stKind, stTcp, stPunch, stNet>>
Msg(kind, n) == [kind |-> kind, n |-> n]

\* Execute: a transport, and the first ready message.
RelayExecute(e) ==
    /\ Relay /\ At(e, "idle")
    /\ stRelay' = [stRelay EXCEPT ![e].transport = "open"]
    /\ Send(e, Msg("ready", 0)) /\ Goto(e, "waiting")
    /\ UNCHANGED <<relayOthers, bounds>>
RelayRetry(e) ==
    /\ Relay /\ At(e, "waiting") /\ ~stRelay[e].ready
    /\ stRetries < MaxRetries /\ stRetries' = stRetries + 1
    /\ Send(e, Msg("ready", 0))
    /\ UNCHANGED <<relayOthers, stAt, stRelay, stLost, stFaults>>
WaitReady(e) ==
    /\ Relay /\ At(e, "waiting") /\ stRelay[e].ready
    /\ Goto(e, "ok")
    /\ UNCHANGED <<relayOthers, stSig, stRelay, bounds>>

\* signalTransport.Close: once, and the other end is told.
CloseTransport(e) ==
    /\ stRelay' = [stRelay EXCEPT ![e].transport = "closed"]
    /\ IF stRelay[e].transport = "open" THEN Send(e, Msg("close", 0)) ELSE stSig' = stSig

\* The ready timeout, also when a ready has just come; or the context ends.
RelayTimeout(e) ==
    /\ Relay /\ At(e, "waiting")
    /\ CloseTransport(e) /\ Goto(e, "failed")
    /\ UNCHANGED <<relayOthers, bounds>>
RelayClose(e) ==
    /\ Relay /\ At(e, "ok")
    /\ CloseTransport(e) /\ Goto(e, "closed")
    /\ UNCHANGED <<relayOthers, bounds>>
RelayWrite(e) ==
    /\ Relay /\ At(e, "ok") /\ stRelay[e].transport = "open" /\ stRelay[e].sent < MaxPackets
    /\ stRelay' = [stRelay EXCEPT ![e].sent = @ + 1]
    /\ Send(e, Msg("packet", stRelay[e].sent + 1))
    /\ UNCHANGED <<relayOthers, stAt, bounds>>
RelayRead(e) ==
    /\ Relay /\ At(e, "ok") /\ stRelay[e].recv # <<>>
    /\ stRelay' = [stRelay EXCEPT ![e].recv = Tail(@), ![e].got = Append(@, Head(stRelay[e].recv))]
    /\ UNCHANGED <<relayOthers, stAt, stSig, bounds>>

\* deliver: a full queue loses its oldest packet.
Delivered(recv, m) == Append(IF Len(recv) < QueueCap THEN recv ELSE Tail(recv), m)
\* HandleMessage: what finds no transport yet is dropped, except the ready mark.
RelayHandle(e, m) ==
    LET r == stRelay[e] IN
    stRelay' = [stRelay EXCEPT ![e] =
        CASE m.kind = "ready" -> [r EXCEPT !.ready = TRUE]
          [] m.kind = "close" -> [r EXCEPT !.transport = IF @ = "none" THEN "none" ELSE "closed",
                                      !.missed = r.transport = "none"]
          [] OTHER -> IF r.transport = "open" THEN [r EXCEPT !.recv = Delivered(@, m.n)] ELSE r]

-----------------------------------------------------------------------------
(* tcpframed: the initiator listens, the responder dials. *)

Tcp == stKind = "tcp"
tcpOthers == <<stKind, stRelay, stPunch, stNet>>

Listen ==
    /\ Tcp /\ At("i", "idle")
    /\ \/ /\ stTcp' = [stTcp EXCEPT !.listener = "open"]
          /\ Send("i", "offer") /\ Goto("i", "accepting") /\ UNCHANGED bounds
       \/ /\ Fault     \* no listener, no address to advertise, or the offer cannot be sent
          /\ Goto("i", "failed") /\ UNCHANGED <<stTcp, stSig>>
    /\ UNCHANGED tcpOthers

\* The goroutine in Accept: one connection, into a channel of one.
Accept ==
    /\ Tcp /\ stTcp.listener = "open" /\ stTcp.backlog # <<>> /\ stTcp.accepted = 0
    /\ stTcp' = [stTcp EXCEPT !.accepted = Head(stTcp.backlog), !.backlog = Tail(@)]
    /\ UNCHANGED <<tcpOthers, stAt, stSig, bounds>>
\* The listener closes: connections not accepted are reset.
ListenerClosed(t) == [t EXCEPT !.listener = "closed", !.backlog = <<>>,
                               !.dead = @ \cup {t.backlog[k] : k \in DOMAIN t.backlog}]
TakeAccepted ==
    /\ Tcp /\ At("i", "accepting") /\ stTcp.accepted # 0
    /\ stTcp' = [ListenerClosed(stTcp) EXCEPT !.returned = stTcp.accepted]
    /\ Goto("i", "ok")
    /\ UNCHANGED <<tcpOthers, stSig, bounds>>
\* The context ends: a connection already accepted stays in the channel.
ListenCancelled ==
    /\ Tcp /\ At("i", "accepting")
    /\ stTcp' = [ListenerClosed(stTcp) EXCEPT !.leaked = {stTcp.accepted} \ {0}]
    /\ Goto("i", "failed")
    /\ UNCHANGED <<tcpOthers, stSig, bounds>>

\* dialWithRetry: a connection, a refusal, or an attempt given up just as it was made.
DialAttempt ==
    /\ Tcp /\ At("r", "dialling") /\ stTcp.attempt < MaxAttempts
    /\ LET n == stTcp.attempt + 1 IN
       \/ /\ stTcp.listener = "open"
          /\ stTcp' = [stTcp EXCEPT !.attempt = n, !.backlog = Append(@, n), !.dialled = n]
          /\ Goto("r", "dialled") /\ UNCHANGED bounds
       \/ /\ stTcp.listener = "open" /\ Fault
          /\ stTcp' = [stTcp EXCEPT !.attempt = n, !.backlog = Append(@, n), !.dead = @ \cup {n}]
          /\ stAt' = stAt
       \/ /\ stTcp.listener # "open"
          /\ stTcp' = [stTcp EXCEPT !.attempt = n]
          /\ UNCHANGED <<stAt, bounds>>
    /\ UNCHANGED <<tcpOthers, stSig>>
\* The offer never comes, or the dial timeout passes.
DialTimeout ==
    /\ Tcp /\ stAt["r"] \in {"idle", "dialling"}
    /\ Goto("r", "failed")
    /\ IF At("r", "dialling") THEN Send("r", "answer") ELSE stSig' = stSig
    /\ UNCHANGED <<tcpOthers, stTcp, bounds>>
\* The answer nobody waits for; if it cannot be sent the connection is closed.
SendAnswer ==
    /\ Tcp /\ At("r", "dialled")
    /\ \/ Send("r", "answer") /\ Goto("r", "ok") /\ UNCHANGED <<stTcp, bounds>>
       \/ /\ Fault
          /\ stTcp' = [stTcp EXCEPT !.dead = @ \cup {stTcp.dialled}]
          /\ Goto("r", "failed") /\ stSig' = stSig
    /\ UNCHANGED tcpOthers

TcpHandle(e, m) ==
    stAt' = IF m = "offer" /\ stAt[e] = "idle" THEN [stAt EXCEPT ![e] = "dialling"] ELSE stAt

-----------------------------------------------------------------------------
(* birthdaypunch: the exchange before the punch. *)

Punching == stKind = "punch"
punchOthers == <<stKind, stRelay, stTcp>>

\* probeLocal, then the endpoint message, repeated until the other's has come.
ProbeLocal(e) ==
    /\ Punching /\ At(e, "idle")
    /\ \/ Send(e, "endpoint") /\ Goto(e, "exchange") /\ UNCHANGED bounds
       \/ Fault /\ Goto(e, "failed") /\ stSig' = stSig
    /\ UNCHANGED <<punchOthers, stPunch, stNet>>
RetryEndpoint(e) ==
    /\ Punching /\ At(e, "exchange") /\ ~stPunch[e].remote
    /\ stRetries < MaxRetries /\ stRetries' = stRetries + 1
    /\ Send(e, "endpoint")
    /\ UNCHANGED <<punchOthers, stAt, stPunch, stNet, stLost, stFaults>>
\* synchronize: the initiator names the start and goes; the responder waits for it.
Synchronize(e) ==
    /\ Punching /\ At(e, "exchange") /\ stPunch[e].remote
    /\ IF e = "i" THEN Send(e, "start") /\ Goto(e, "punch") ELSE stSig' = stSig /\ Goto(e, "sync")
    /\ UNCHANGED <<punchOthers, stPunch, stNet, bounds>>
StartPunch ==
    /\ Punching /\ At("r", "sync") /\ stPunch["r"].start
    /\ Goto("r", "punch")
    /\ UNCHANGED <<punchOthers, stSig, stPunch, stNet, bounds>>
ExchangeTimeout(e) ==
    /\ Punching /\ stAt[e] \in {"exchange", "sync"}
    /\ Goto(e, "failed")
    /\ UNCHANGED <<punchOthers, stSig, stPunch, stNet, bounds>>
PunchHandle(e, m) ==
    stPunch' = [stPunch EXCEPT ![e].remote = @ \/ m = "endpoint", ![e].start = @ \/ m = "start"]

-----------------------------------------------------------------------------
(* puncher.Punch: the initiator selects, the responder receives. *)

Packet(k, p) == [kind |-> k, pair |-> p]
punchSame == <<punchOthers, stSig, bounds>>
\* Readers run from the start of the punch to the end of the grace period; when the
\* context has ended a reader may still handle the packet it was waiting for.
Reads(e) == stAt[e] \in {"punch", "select", "done", "grace"} \/ (At(e, "drain") /\ ~stPunch[e].late)
Late(e) == stPunch[e].late \/ At(e, "drain")

\* punchSender: every socket probes every target until the context ends; a probe
\* over an open pair gets through, and its acknowledgement comes back.
ProbeMeets(p) == p \in Open /\ stAt["r"] \in {"punch", "grace", "drain"}

\* The first hit is taken, with a fresh token, and SELECT goes out on it.
SelectWinner(p) ==
    /\ Punching /\ At("i", "punch") /\ ProbeMeets(p)
    /\ stPunch' = [stPunch EXCEPT !["i"].pair = p]
    /\ stNet' = stNet \cup {Packet("select", p)}
    /\ Goto("i", "select")
    /\ UNCHANGED punchSame

\* exchangeControl: the acknowledgement that matches the pair and the token.
Exchange ==
    /\ Punching
    /\ LET p == stPunch["i"].pair IN
       \/ /\ At("i", "select") /\ Packet("selectAck", p) \in stNet
          /\ stNet' = stNet \cup {Packet("done", p)} /\ Goto("i", "done")
       \/ /\ At("i", "done") /\ Packet("doneAck", p) \in stNet
          /\ stNet' = stNet /\ Goto("i", "grace")
    /\ UNCHANGED <<stPunch, punchSame>>

\* adoptReceiverSelection: the first SELECT is the only one acknowledged.
adoptReceiverSelection(p) ==
    /\ Punching /\ Reads("r") /\ Packet("select", p) \in stNet
    /\ stPunch["r"].pair \in {NoPair, p}
    /\ stPunch' = [stPunch EXCEPT !["r"].pair = p, !["r"].late = Late("r")]
    /\ stNet' = stNet \cup {Packet("selectAck", p)}
    /\ UNCHANGED <<stAt, punchSame>>

\* commitReceiverSelection: DONE for what was selected, acknowledged every time.
commitReceiverSelection(p) ==
    /\ Punching /\ Reads("r") /\ Packet("done", p) \in stNet
    /\ stPunch["r"].pair = p
    /\ stPunch' = [stPunch EXCEPT !["r"].committed = TRUE, !["r"].late = Late("r")]
    /\ stNet' = stNet \cup {Packet("doneAck", p)}
    /\ UNCHANGED <<stAt, punchSame>>

\* receiveWinner
ReceiveWinner ==
    /\ Punching /\ At("r", "punch") /\ stPunch["r"].committed
    /\ Goto("r", "grace")
    /\ UNCHANGED <<stPunch, stNet, punchSame>>

\* The deadline of the punch: the selector may find its answer in the channel, the
\* receiver keeps what is committed (committedReceiverResult).
PunchDeadline(e) ==
    /\ Punching /\ stAt[e] \in {"punch", "select", "done"}
    /\ \/ Goto(e, "drain") /\ ~(e = "r" /\ stPunch[e].committed)
       \/ e = "r" /\ stPunch[e].committed /\ Goto(e, "grace")
    /\ UNCHANGED <<stPunch, stNet, punchSame>>

\* The grace period ends, or the readers have ended: every other socket is closed.
PunchReturns(e) ==
    /\ Punching /\ stAt[e] \in {"grace", "drain"}
    /\ Goto(e, IF At(e, "grace") THEN "ok" ELSE "failed")
    /\ UNCHANGED <<stPunch, stNet, punchSame>>

-----------------------------------------------------------------------------
(* The session between the ends. *)

Deliver(e) ==
    /\ stSig[e] # <<>>
    /\ stSig' = [stSig EXCEPT ![e] = Tail(@)]
    /\ \/ Relay /\ RelayHandle(e, Head(stSig[e])) /\ UNCHANGED <<stAt, stPunch>>
       \/ Tcp /\ TcpHandle(e, Head(stSig[e])) /\ UNCHANGED <<stRelay, stPunch>>
       \/ Punching /\ PunchHandle(e, Head(stSig[e])) /\ UNCHANGED <<stAt, stRelay>>
    /\ UNCHANGED <<stKind, stTcp, stNet, bounds>>
Lose(e) ==
    /\ stSig[e] # <<>> /\ stLost < MaxLost
    /\ stSig' = [stSig EXCEPT ![e] = Tail(@)] /\ stLost' = stLost + 1
    /\ UNCHANGED <<stKind, stAt, stRelay, stTcp, stPunch, stNet, stRetries, stFaults>>

Next ==
    \/ \E e \in Ends :
          \/ RelayExecute(e) \/ RelayRetry(e) \/ WaitReady(e) \/ RelayTimeout(e) \/ RelayClose(e)
          \/ RelayWrite(e) \/ RelayRead(e)
          \/ ProbeLocal(e) \/ RetryEndpoint(e) \/ Synchronize(e) \/ ExchangeTimeout(e)
          \/ PunchDeadline(e) \/ PunchReturns(e) \/ Deliver(e) \/ Lose(e)
    \/ Listen \/ Accept \/ TakeAccepted \/ ListenCancelled \/ DialAttempt \/ DialTimeout \/ SendAnswer
    \/ StartPunch \/ Exchange \/ ReceiveWinner
    \/ \E p \in Open : SelectWinner(p) \/ adoptReceiverSelection(p) \/ commitReceiverSelection(p)

Spec == Init /\ [][Next]_vars

-----------------------------------------------------------------------------
(* Properties. *)

Settled == \A e \in Ends : stSig[e] = <<>> /\ stAt[e] \in {"ok", "failed", "closed"}

\* Packets relayed over the signal stream arrive in the order they were sent, none
\* twice, whatever the bounded queue drops.
RelayInOrder ==
    \A e \in Ends : LET all == stRelay[e].got \o stRelay[e].recv IN
        /\ \A j, k \in DOMAIN all : j < k => all[j] < all[k]
        /\ \A k \in DOMAIN all : all[k] <= stRelay[Other(e)].sent

\* No end is left with an open relay whose other end is gone, unless a message was
\* lost or the close came before this end had a transport to close.
RelayNotHalfOpen ==
    Relay /\ Settled /\ stLost = 0 =>
        \A e \in Ends : stRelay[e].transport = "open" => stRelay[Other(e)].transport = "open" \/ stRelay[e].missed

\* When both ends of a TCP plan succeed they hold the two ends of one connection,
\* unless a dial attempt was abandoned after the listener had it.
ConnsMeet ==
    Tcp /\ At("i", "ok") /\ At("r", "ok") /\ stFaults = 0 =>
        stTcp.returned = stTcp.dialled /\ stTcp.dialled \notin stTcp.dead

\* "SELECT/ACK/DONE/DONE_ACK so both endpoints retain one reciprocal socket tuple":
\* the receiver keeps only the pair the selector chose; the selector succeeds only
\* on the pair the receiver committed; and the receiver then fails only when its
\* reader committed after its deadline had been looked at.
TuplesAgree ==
    Punching =>
        /\ At("r", "ok") => stPunch["r"].pair = stPunch["i"].pair /\ stAt["i"] \notin {"punch", "select"}
        /\ stAt["i"] \in {"grace", "ok"} =>
              /\ stPunch["r"].committed /\ stPunch["r"].pair = stPunch["i"].pair
              /\ stAt["r"] \in {"drain", "failed"} => stPunch["r"].late

StrategiesSafe == RelayInOrder /\ RelayNotHalfOpen /\ ConnsMeet /\ TuplesAgree
=============================================================================
