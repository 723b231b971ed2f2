------------------------------ MODULE MeshRoutes ------------------------------
(***************************************************************************)
(* The route computation of pkg/mesh (Topology.computeRoutesLocked), one   *)
(* round of its loop per step, over every link-state view of a few nodes.  *)
(* A pair of nodes is linked in the view when both advertise it; the cost  *)
(* of a path is its hops, then its round-trip times; a node that is not    *)
(* Transit is reached and never passed.                                    *)
(***************************************************************************)
EXTENDS Naturals, Sequences, FiniteSets, FiniteSetsExt

CONSTANTS
    Members,        \* node numbers, ordered as their names are
    Local,          \* the computing node
    Rtts            \* round-trip times that a confirmed link may have

VARIABLES
    mrLink,         \* the link-state view: RTT of each confirmed pair, 0 if only
                    \* one side or neither advertises it
    mrTransit,      \* members that allow transit
    mrPath,         \* dist and paths: the path of each member reached, <<>> else
    mrVisited

vars == <<mrLink, mrTransit, mrPath, mrVisited>>

Pairs == {S \in SUBSET Members: Cardinality(S) = 2}

Init ==
    /\ mrLink \in [Pairs -> Rtts \cup {0}]
    /\ mrTransit \in SUBSET (Members \ {Local})
    /\ mrPath = [m \in Members |-> IF m = Local THEN <<Local>> ELSE <<>>]
    /\ mrVisited = {}

-----------------------------------------------------------------------------
Hops(path) == Len(path) - 1
Rtt(path) == MapThenSumSet(LAMBDA k: mrLink[{path[k], path[k + 1]}], 1 .. Hops(path))

\* pathLess on paths of one length
PathLess(p, q) ==
    \E k \in 1 .. Len(p): p[k] < q[k] /\ \A j \in 1 .. k - 1: p[j] = q[j]

\* costLess, and pathLess when the costs are equal
Better(p, q) ==
    \/ Hops(p) < Hops(q)
    \/ Hops(p) = Hops(q) /\ Rtt(p) < Rtt(q)
    \/ Hops(p) = Hops(q) /\ Rtt(p) = Rtt(q) /\ PathLess(p, q)

\* The unvisited member of least cost, the first by name among equals.
Cheaper(m, n) ==
    \/ Hops(mrPath[m]) < Hops(mrPath[n])
    \/ Hops(mrPath[m]) = Hops(mrPath[n]) /\ Rtt(mrPath[m]) < Rtt(mrPath[n])
    \/ Hops(mrPath[m]) = Hops(mrPath[n]) /\ Rtt(mrPath[m]) = Rtt(mrPath[n]) /\ m < n

Open == {m \in Members \ mrVisited: mrPath[m] # <<>>}
Current == CHOOSE m \in Open: \A n \in Open \ {m}: Cheaper(m, n)

\* The edge c--n improves the path of n.
Relaxes(c, n) ==
    /\ c = Local \/ c \in mrTransit
    /\ {c, n} \in Pairs /\ mrLink[{c, n}] # 0 /\ n \notin mrVisited
    /\ mrPath[n] = <<>> \/ Better(Append(mrPath[c], n), mrPath[n])

Round ==
    /\ Open # {}
    /\ mrVisited' = mrVisited \cup {Current}
    /\ mrPath' = [n \in Members |-> IF n # Current /\ Relaxes(Current, n)
                                    THEN Append(mrPath[Current], n) ELSE mrPath[n]]
    /\ UNCHANGED <<mrLink, mrTransit>>

Next == Round
Spec == Init /\ [][Next]_vars

-----------------------------------------------------------------------------
\* The reference: the paths without repetition from Local through transit
\* members, and the best of those that end at d.
LegalPaths ==
    {p \in UNION {[1 .. n -> Members]: n \in 2 .. Cardinality(Members)}:
        /\ p[1] = Local
        /\ \A j, k \in DOMAIN p: p[j] = p[k] => j = k
        /\ \A k \in 1 .. Len(p) - 1: mrLink[{p[k], p[k + 1]}] # 0
        /\ \A k \in 2 .. Len(p) - 1: p[k] \in mrTransit}

\* When the loop ends every member that a legal path reaches has the best
\* one, and no other member has a route: two nodes with the same view agree,
\* so forwarding by next hop follows one shortest path.
BestPaths ==
    Open = {} =>
        LET legal == LegalPaths
        IN \A d \in Members \ {Local}:
            LET to == {p \in legal: p[Len(p)] = d}
            IN IF to = {} THEN mrPath[d] = <<>>
               ELSE mrPath[d] \in to /\ \A p \in to \ {mrPath[d]}: Better(mrPath[d], p)
=============================================================================
