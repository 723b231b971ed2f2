------------------------------ MODULE MeshFlood ------------------------------
(***************************************************************************)
(* Messages between the routers of pkg/mesh: broadcast records flooded     *)
(* over every link, control messages and data frames forwarded hop by hop. *)
(* A route table may be stale, so a forwarding node picks any neighbour.   *)
(* Links may go down while a message travels, a send may fail, a packet    *)
(* link may lose or duplicate what it carries, and the handler of a node   *)
(* may refuse a record, which ends the flood at that node.  The seen       *)
(* window outlives a message.                                              *)
(***************************************************************************)
EXTENDS Naturals, Sequences, FiniteSets

CONSTANTS
    Nodes, Edges,       \* sets of nodes and of pairs {a, b}
    Origin, Target,
    HopLimit,
    Sends,              \* kinds that Origin sends: "flood", "control", "data"
    MaxFaults           \* bound: failures, losses, duplications

VARIABLES
    mfEdges,        \* links up
    mfTodo,         \* kinds not yet sent
    mfNet,          \* messages on links: [kind, from, to, hops, path, copy]
    mfSeen,         \* seen: kinds handled by each node
    mfGot,          \* deliveries: how often each kind was delivered at each node
    mfRefused,      \* nodes whose handler failed on the flood
    mfLost,         \* <<from, to>> on which the flood could not be sent or was lost
    mfFaults

vars == <<mfEdges, mfTodo, mfNet, mfSeen, mfGot, mfRefused, mfLost, mfFaults>>

Neighbors(n) == {m \in Nodes: {n, m} \in mfEdges /\ m # n}
Visited(path) == {path[k]: k \in DOMAIN path}

Init ==
    /\ mfEdges = Edges /\ mfTodo = Sends /\ mfNet = {}
    /\ mfSeen = [n \in Nodes |-> {}]
    /\ mfGot = [n \in Nodes |-> [k \in Sends |-> 0]]
    /\ mfRefused = {} /\ mfLost = {} /\ mfFaults = 0

Fault == mfFaults < MaxFaults /\ mfFaults' = mfFaults + 1

Packet(kind, from, to, hops, path) ==
    [kind |-> kind, from |-> from, to |-> to, hops |-> hops, path |-> path, copy |-> 0]

-----------------------------------------------------------------------------
\* flood: every neighbour but the sender and those on the path.
Flood(n, inbound, hops, path) ==
    {Packet("flood", n, m, hops, path): m \in Neighbors(n) \ ({inbound} \cup Visited(path))}

Deliver(n, kind) == mfGot' = [mfGot EXCEPT ![n][kind] = @ + 1]

\* A broadcast record is delivered, and flooded on unless the handler fails.
DeliverAndFlood(n, inbound, hops, path, rest) ==
    /\ mfSeen' = [mfSeen EXCEPT ![n] = @ \cup {"flood"}]
    /\ Deliver(n, "flood")
    /\ \/ /\ mfNet' = rest \cup (IF hops = 0 THEN {} ELSE Flood(n, inbound, hops, path))
          /\ UNCHANGED <<mfRefused, mfFaults>>
       \/ Fault /\ mfRefused' = mfRefused \cup {n} /\ mfNet' = rest

\* forward and forwardData: the next hop of the table, or the message is
\* dropped because there is none.
Forward(n, kind, hops, path, net) ==
    \/ \E m \in Neighbors(n): mfNet' = net \cup {Packet(kind, n, m, hops, path)}
    \/ mfNet' = net

\* SendData of Origin: a data frame is not entered in the seen table.
SendData ==
    /\ "data" \in mfTodo /\ mfTodo' = mfTodo \ {"data"}
    /\ Forward(Origin, "data", HopLimit, <<Origin>>, mfNet)
    /\ UNCHANGED <<mfSeen, mfGot, mfEdges, mfRefused, mfLost, mfFaults>>

\* Send of Origin, of a message to everyone or to Target.
Send(kind) ==
    /\ kind \in mfTodo \ {"data"} /\ mfTodo' = mfTodo \ {kind}
    /\ IF kind = "flood" THEN DeliverAndFlood(Origin, Origin, HopLimit, <<Origin>>, mfNet)
       ELSE /\ mfSeen' = [mfSeen EXCEPT ![Origin] = @ \cup {kind}]
            /\ Forward(Origin, kind, HopLimit, <<Origin>>, mfNet)
            /\ UNCHANGED <<mfGot, mfRefused, mfFaults>>
    /\ UNCHANGED <<mfEdges, mfLost>>

Unknown(m) == m.from \notin Neighbors(m.to)

Drop(m) == mfNet' = mfNet \ {m} /\ UNCHANGED <<mfSeen, mfGot, mfRefused, mfFaults>>

\* A control message: to this node, out of hops, or on to the next one.
InboundControl(n, m, rest) ==
    /\ mfSeen' = [mfSeen EXCEPT ![n] = @ \cup {m.kind}]
    /\ IF n = Target THEN Deliver(n, m.kind) /\ mfNet' = rest
       ELSE IF m.hops <= 1 THEN mfNet' = rest /\ UNCHANGED mfGot
       ELSE Forward(n, m.kind, m.hops - 1, Append(m.path, n), rest) /\ UNCHANGED mfGot
    /\ UNCHANGED <<mfRefused, mfFaults>>

\* One with this node on its path is dropped, but counts as seen.
Looped(n, m) ==
    /\ mfSeen' = [mfSeen EXCEPT ![n] = @ \cup {m.kind}]
    /\ mfNet' = mfNet \ {m} /\ UNCHANGED <<mfGot, mfRefused, mfFaults>>

Routed(m, dropped) ==
    LET n == m.to
        rest == mfNet \ {m}
    IN IF dropped THEN Drop(m)
       ELSE IF n \in Visited(m.path) THEN Looped(n, m)
       ELSE IF m.kind = "flood" THEN DeliverAndFlood(n, m.from, m.hops - 1, Append(m.path, n), rest)
       ELSE InboundControl(n, m, rest)

\* HandleInbound: a message from an unknown neighbour, one seen before and
\* one with this node on its path are dropped, in this order.
Inbound(m) == Routed(m, Unknown(m) \/ m.kind \in mfSeen[m.to])

\* HandleInboundData: only the hop limit ends a loop of data frames.
InboundData(m) ==
    LET rest == mfNet \ {m}
    IN IF Unknown(m) THEN Drop(m)
       ELSE /\ IF m.to = Target THEN Deliver(m.to, "data") /\ mfNet' = rest
               ELSE IF m.hops <= 1 THEN mfNet' = rest /\ UNCHANGED mfGot
               ELSE Forward(m.to, "data", m.hops - 1, Append(m.path, m.to), rest) /\ UNCHANGED mfGot
            /\ UNCHANGED <<mfSeen, mfRefused, mfFaults>>

HandleInbound(m) ==
    /\ m \in mfNet
    /\ IF m.kind = "data" THEN InboundData(m) ELSE Inbound(m)
    /\ UNCHANGED <<mfEdges, mfTodo, mfLost>>

-----------------------------------------------------------------------------
Duplicate(m) ==
    /\ m.copy = 0 /\ Fault
    /\ mfNet' = mfNet \cup {[m EXCEPT !.copy = 1]}
    /\ UNCHANGED <<mfEdges, mfTodo, mfSeen, mfGot, mfRefused, mfLost>>

\* A send that fails, the others being made all the same, or a packet lost on
\* a link that stays up.
Lose(m) ==
    /\ Fault /\ mfNet' = mfNet \ {m}
    /\ mfLost' = IF m.kind = "flood" THEN mfLost \cup {<<m.from, m.to>>} ELSE mfLost
    /\ UNCHANGED <<mfEdges, mfTodo, mfSeen, mfGot, mfRefused>>

LinkDown(e) ==
    /\ Fault /\ mfEdges' = mfEdges \ {e}
    /\ mfNet' = {m \in mfNet: {m.from, m.to} # e}
    /\ mfLost' = mfLost \cup {h \in Nodes \X Nodes: {h[1], h[2]} = e}
    /\ UNCHANGED <<mfTodo, mfSeen, mfGot, mfRefused>>

Next ==
    \/ SendData \/ \E kind \in Sends: Send(kind)
    \/ \E m \in mfNet: HandleInbound(m) \/ Duplicate(m) \/ Lose(m)
    \/ \E e \in mfEdges: LinkDown(e)

Spec == Init /\ [][Next]_vars

-----------------------------------------------------------------------------
\* A direction of a link on which no copy of the flood was lost.
Carried(a, b) == {a, b} \in Edges /\ <<a, b>> \notin mfLost

\* A control message is handled at most once by every node, also when a link
\* duplicates it or stale tables send it round; a forwarded one meets no more
\* nodes than its hop limit allows; and when a flood has ended, a node that has
\* it and did not refuse it has passed it to every neighbour that no loss cut
\* off, whatever copies came first: only refusals and losses keep the record
\* from a node, provided the hop limit spans the graph.
FloodSafe ==
    /\ \A n \in Nodes, k \in Sends \ {"data"}: mfGot[n][k] <= 1
    /\ \A m \in mfNet: Len(m.path) + m.hops = HopLimit + 1
    /\ "flood" \in Sends \ mfTodo /\ (\A m \in mfNet: m.kind # "flood") =>
         /\ mfGot[Origin]["flood"] = 1
         /\ \A a, b \in Nodes: mfGot[a]["flood"] = 1 /\ a \notin mfRefused /\ Carried(a, b)
                               => mfGot[b]["flood"] = 1
=============================================================================
