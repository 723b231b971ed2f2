------------------------------- MODULE MeshNode -------------------------------
(***************************************************************************)
(* One node of pkg/mesh: the router's neighbour entries and route tables,  *)
(* the handler of neighbour events, the local link-state record, the       *)
(* records heard from two peers and the recomputation of the routes.       *)
(*                                                                         *)
(* Sessions attach, are promoted and leave at any time; each emits an      *)
(* event after the router's lock, so events of one peer are handled in any *)
(* order.  A task reads the topology, then the capabilities, then replaces *)
(* the tables, each under a lock of its own.                               *)
(***************************************************************************)
EXTENDS Naturals, FiniteSets

CONSTANTS
    Peers,          \* two neighbours
    Attaching,      \* the neighbours that sessions attach to
    Leaves,         \* whether the node may be closed
    Kinds,          \* sessions that attach: [adv, data] of a stream or a packet session
    MaxSessions,    \* bound: sessions attached
    MaxRev,         \* bound: revisions of a peer's link state
    None

VARIABLES
    mnNbr,          \* neighbors: None or [id, adv, data]
    mnNext,         \* sessions attached so far
    mnEvents,       \* emitted events not yet handled, per peer
    mnRoutes, mnData,   \* routes and dataRoutes: next hop or None
    mnLinks,        \* links: "no", "data" or "control" (ControlOnly)
    mnHandles,      \* neighborHandles: session id, 0 if none
    mnLocal,        \* the topology's local record
    mnRemote,       \* revision of a peer's record in the topology, 0 if absent
    mnHandler,      \* handleNeighborChange, under neighborMu: None or its state
    mnSync,         \* syncRoutes of its callers
    mnClosed        \* "no", "closing", "closed"

vars == <<mnNbr, mnNext, mnEvents, mnRoutes, mnData, mnLinks, mnHandles, mnLocal,
          mnRemote, mnHandler, mnSync, mnClosed>>

Other(p) == CHOOSE q \in Peers: q # p

\* The callers of syncRoutes: the handler of neighbour events, the maintenance loop and the
\* reader of a session, which brings the records of any peer.
Tasks == {"neighbor", "maintenance", "message"}
Idle == [pc |-> "no"]
Want == [pc |-> "want"]
Up(p) == mnNbr[p] # None

Init ==
    /\ mnNbr = [p \in Peers |-> None] /\ mnNext = 0
    /\ mnEvents = [p \in Peers |-> 0]
    /\ mnRoutes = [p \in Peers |-> None] /\ mnData = [p \in Peers |-> None]
    /\ mnLinks = [p \in Peers |-> "no"] /\ mnHandles = [p \in Peers |-> 0]
    /\ mnLocal = [p \in Peers |-> "no"]
    /\ mnRemote = [p \in Peers |-> 0]
    /\ mnHandler = None /\ mnSync = [t \in Tasks |-> Idle]
    /\ mnClosed = "no"

-----------------------------------------------------------------------------
(* The router's neighbour entries. *)

nodeVars == <<mnLinks, mnHandles, mnLocal, mnRemote, mnHandler, mnSync, mnClosed>>
Emit(p) == mnEvents' = [mnEvents EXCEPT ![p] = @ + 1]

\* addNeighborWithAdvertisement
Add(p, kind) ==
    /\ mnClosed # "closed" /\ ~Up(p) /\ mnNext < MaxSessions
    /\ mnNext' = mnNext + 1
    /\ mnNbr' = [mnNbr EXCEPT ![p] = [id |-> mnNext + 1, adv |-> kind.adv, data |-> kind.data]]
    /\ Emit(p)
    /\ UNCHANGED <<mnRoutes, mnData>> /\ UNCHANGED nodeVars

\* PromoteNeighborHandle of the attached session; a stale handle changes nothing.
Promote(p) ==
    /\ mnClosed # "closed" /\ Up(p) /\ ~mnNbr[p].adv
    /\ mnNbr' = [mnNbr EXCEPT ![p].adv = TRUE]
    /\ Emit(p)
    /\ UNCHANGED <<mnNext, mnRoutes, mnData>> /\ UNCHANGED nodeVars

Without(table, p) == [d \in Peers |-> IF table[d] = p THEN None ELSE table[d]]

\* RemoveNeighbor and the removals by handle: the routes that use the peer go
\* with it, before the event is emitted.
Remove(p) ==
    /\ mnClosed # "closed" /\ Up(p)
    /\ mnNbr' = [mnNbr EXCEPT ![p] = None]
    /\ mnRoutes' = Without(mnRoutes, p) /\ mnData' = Without(mnData, p)
    /\ Emit(p)
    /\ UNCHANGED mnNext /\ UNCHANGED nodeVars

-----------------------------------------------------------------------------
(* The topology. *)

\* What revision r of a peer's record lists: its link to this node and
\* whether it lists the other peer.  Peers agree on the link between them.
Record(r) ==
    CASE r = 0 -> [us |-> "no", other |-> FALSE]
      [] r % 3 = 1 -> [us |-> "data", other |-> TRUE]
      [] r % 3 = 2 -> [us |-> "control", other |-> TRUE]
      [] r % 3 = 0 -> [us |-> "no", other |-> FALSE]

\* A link counts when both sides list it, for data when neither side calls it
\* control-only.
Direct(p, dataOnly) ==
    LET us == Record(mnRemote[p]).us
    IN /\ mnLocal[p] # "no" /\ us # "no"
       /\ dataOnly => mnLocal[p] = "data" /\ us = "data"
Between == \A p \in Peers: Record(mnRemote[p]).other

\* recomputeLocked and NextHops or DataNextHops, for three nodes.
NextHops(dataOnly) ==
    [d \in Peers |->
        IF Direct(d, dataOnly) THEN d
        ELSE IF Direct(Other(d), dataOnly) /\ Between THEN Other(d)
        ELSE None]

-----------------------------------------------------------------------------
(* syncRoutes, under routeMu: three reads, then replaceRouteTables. *)

SyncFree == \A t \in Tasks: mnSync[t].pc \in {"no", "want"}
syncRest == <<mnNbr, mnNext, mnEvents, mnLinks, mnHandles, mnLocal, mnRemote, mnClosed>>

\* Mutant: the routes are computed without the lock that orders two syncs.
SyncUnlocked(t) ==
    /\ mnSync[t].pc = "want"
    /\ mnSync' = [mnSync EXCEPT ![t] = [pc |-> "data", routes |-> NextHops(FALSE)]]
    /\ UNCHANGED <<mnRoutes, mnData, mnHandler>> /\ UNCHANGED syncRest

SyncRoutes(t) ==
    /\ mnSync[t].pc = "want" /\ SyncFree
    /\ mnSync' = [mnSync EXCEPT ![t] = [pc |-> "data", routes |-> NextHops(FALSE)]]
    /\ UNCHANGED <<mnRoutes, mnData, mnHandler>> /\ UNCHANGED syncRest

SyncData(t) ==
    /\ mnSync[t].pc = "data"
    /\ mnSync' = [mnSync EXCEPT ![t] = [pc |-> "caps", routes |-> @.routes, data |-> NextHops(TRUE)]]
    /\ UNCHANGED <<mnRoutes, mnData, mnHandler>> /\ UNCHANGED syncRest

\* The data routes through a neighbour that cannot carry data are dropped.
SyncCaps(t) ==
    /\ mnSync[t].pc = "caps"
    /\ LET able == {p \in Peers: Up(p) /\ mnNbr[p].data}
           kept == [d \in Peers |-> IF mnSync[t].data[d] \in able THEN mnSync[t].data[d] ELSE None]
       IN mnSync' = [mnSync EXCEPT ![t] = [pc |-> "replace", routes |-> @.routes, data |-> kept]]
    /\ UNCHANGED <<mnRoutes, mnData, mnHandler>> /\ UNCHANGED syncRest

ReplaceTables(t) ==
    /\ mnSync[t].pc = "replace"
    /\ IF mnClosed = "closed" THEN UNCHANGED <<mnRoutes, mnData>>
       ELSE mnRoutes' = mnSync[t].routes /\ mnData' = mnSync[t].data
    /\ mnSync' = [mnSync EXCEPT ![t] = Idle]
    /\ mnHandler' = IF t = "neighbor" THEN None ELSE mnHandler
    /\ UNCHANGED syncRest

-----------------------------------------------------------------------------
(* handleNeighborChange. *)

tables == <<mnNbr, mnNext, mnRoutes, mnData, mnRemote, mnClosed>>

\* The entry is read again: the event says only which peer changed.
NeighborRead(p) ==
    /\ mnEvents[p] > 0 /\ mnHandler = None
    /\ mnEvents' = [mnEvents EXCEPT ![p] = @ - 1]
    /\ mnHandler' = [pc |-> "read", peer |-> p, nbr |-> IF mnClosed = "closed" THEN None ELSE mnNbr[p]]
    /\ UNCHANGED <<mnLinks, mnHandles, mnLocal, mnSync>> /\ UNCHANGED tables

Wanted(nbr) == IF nbr = None \/ ~nbr.adv THEN "no" ELSE IF nbr.data THEN "data" ELSE "control"
HandleId(nbr) == IF nbr = None THEN 0 ELSE nbr.id

\* The link, its capability or the session behind an advertised link changed.
LinkChanged(p, nbr) ==
    \/ Wanted(nbr) # mnLinks[p]
    \/ Wanted(nbr) # "no" /\ HandleId(nbr) # mnHandles[p]

\* The node's critical section; an unchanged link still rebuilds the tables.
NeighborDecide ==
    /\ mnHandler # None /\ mnHandler.pc = "read"
    /\ LET p == mnHandler.peer
           nbr == mnHandler.nbr
       IN \/ /\ mnClosed # "no"
             /\ mnHandler' = None
             /\ UNCHANGED <<mnLinks, mnHandles, mnSync>>
          \/ /\ mnClosed = "no" /\ ~LinkChanged(p, nbr)
             /\ mnHandles' = [mnHandles EXCEPT ![p] = HandleId(nbr)]
             /\ mnSync' = [mnSync EXCEPT !["neighbor"] = Want]
             /\ mnHandler' = [pc |-> "sync", peer |-> p]
             /\ UNCHANGED mnLinks
          \/ /\ mnClosed = "no" /\ LinkChanged(p, nbr)
             /\ mnLinks' = [mnLinks EXCEPT ![p] = Wanted(nbr)]
             /\ mnHandles' = [mnHandles EXCEPT ![p] = HandleId(nbr)]
             /\ mnHandler' = [pc |-> "set", peer |-> p]
             /\ UNCHANGED mnSync
    /\ UNCHANGED <<mnEvents, mnLocal>> /\ UNCHANGED tables

\* SetLocalLinkState, then the tables.
NeighborSet ==
    /\ mnHandler # None /\ mnHandler.pc = "set"
    /\ mnLocal' = mnLinks
    /\ mnSync' = [mnSync EXCEPT !["neighbor"] = Want]
    /\ mnHandler' = [mnHandler EXCEPT !.pc = "sync"]
    /\ UNCHANGED <<mnEvents, mnLinks, mnHandles>> /\ UNCHANGED tables

-----------------------------------------------------------------------------
(* Records of the peers. *)

remoteRest == <<mnNbr, mnNext, mnEvents, mnRoutes, mnData, mnLinks, mnHandles, mnLocal,
                mnHandler, mnClosed>>

\* ApplyLinkState or ApplyMember: an older revision changes nothing, an equal
\* one renews the lease.
ApplyLinkState(p, rev) ==
    /\ rev > mnRemote[p]
    /\ mnRemote' = [mnRemote EXCEPT ![p] = rev]

\* handleMessage: a change makes the reader rebuild the tables.
HandleMessage(p, rev) ==
    /\ mnSync["message"] = Idle
    /\ ApplyLinkState(p, rev)
    /\ mnSync' = [mnSync EXCEPT !["message"] = Want]
    /\ UNCHANGED remoteRest

\* The maintenance loop: a lease that has run out, and the tables without it.
Expire(p) ==
    /\ mnSync["maintenance"] = Idle /\ mnRemote[p] # 0 /\ mnClosed = "no"
    /\ mnRemote' = [mnRemote EXCEPT ![p] = 0]
    /\ mnSync' = [mnSync EXCEPT !["maintenance"] = Want]
    /\ UNCHANGED remoteRest

-----------------------------------------------------------------------------
\* Close: first the node, then the router with its entries and tables.
CloseNode ==
    /\ Leaves /\ mnClosed = "no" /\ mnClosed' = "closing"
    /\ UNCHANGED <<mnNbr, mnNext, mnEvents, mnRoutes, mnData, mnLinks, mnHandles, mnLocal,
                   mnRemote, mnHandler, mnSync>>

CloseRouter ==
    /\ mnClosed = "closing" /\ mnClosed' = "closed"
    /\ mnNbr' = [p \in Peers |-> None]
    /\ mnRoutes' = [p \in Peers |-> None] /\ mnData' = [p \in Peers |-> None]
    /\ UNCHANGED <<mnNext, mnEvents, mnLinks, mnHandles, mnLocal, mnRemote, mnHandler,
                   mnSync>>

handleNeighborChange == (\E p \in Peers: NeighborRead(p)) \/ NeighborDecide \/ NeighborSet

syncRoutes(t) == SyncRoutes(t) \/ SyncData(t)
Next ==
    \/ \E p \in Attaching, kind \in Kinds: Add(p, kind)
    \/ \E p \in Peers: Promote(p) \/ Remove(p) \/ Expire(p)
    \/ \E p \in Peers, rev \in 1 .. MaxRev: HandleMessage(p, rev)
    \/ \E t \in Tasks: syncRoutes(t) \/ SyncCaps(t) \/ ReplaceTables(t)
    \/ handleNeighborChange \/ CloseNode \/ CloseRouter

Spec == Init /\ [][Next]_vars

-----------------------------------------------------------------------------
\* lookup: an attached destination, else its route through an attached one.
Lookup(d) ==
    IF Up(d) THEN d ELSE IF mnRoutes[d] # None /\ Up(mnRoutes[d]) THEN mnRoutes[d] ELSE None
\* lookupData: the data table decides, the neighbour must carry data.
LookupData(d) ==
    IF mnData[d] # None /\ Up(mnData[d]) /\ mnNbr[mnData[d]].data THEN mnData[d] ELSE None

Quiescent ==
    /\ mnClosed = "no" /\ mnHandler = None
    /\ \A p \in Peers: mnEvents[p] = 0
    /\ \A t \in Tasks: mnSync[t] = Idle

\* Whatever the order in which neighbour events, records and rebuilds meet:
\* when no event is left to handle, the node advertises exactly its advertised
\* neighbours, and control and data reach exactly the destinations that the
\* topology gives a next hop; and
\* a closed router keeps no route.
NodeSafe ==
    /\ Quiescent =>
        /\ \A p \in Peers: mnLinks[p] = Wanted(mnNbr[p]) /\ mnHandles[p] = HandleId(mnNbr[p])
        /\ mnLocal = mnLinks
        /\ \A d \in Peers: /\ ~Up(d) => Lookup(d) = NextHops(FALSE)[d]
                           /\ LookupData(d) = NextHops(TRUE)[d]
    /\ mnClosed = "closed" => \A d \in Peers: mnRoutes[d] = None /\ mnData[d] = None
=============================================================================
