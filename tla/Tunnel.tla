------------------------------- MODULE Tunnel -------------------------------
(***************************************************************************)
(* The WireGuard tunnel over peer transports (pkg/tunnel/tunnel_wggo.go)   *)
(* in one lifetime: the peer table, the bind that maps a peer to its bound *)
(* transport, the loop that reads each transport, the receive functions    *)
(* the WireGuard device runs, and Stop.                                    *)
(*                                                                         *)
(* Calls of AddPeer, ReplacePeer and RemovePeer check under one lock, work *)
(* without it and record under it again, so calls interleave with each     *)
(* other and with Stop.  Transport Bundle is a multipath transport that    *)
(* carries transport Child, borrowed until the bind lets it be adopted.    *)
(* The WireGuard device is external: configuring it may fail, and closing  *)
(* it waits for its receive functions.  Statistics, addresses and events   *)
(* are left out.                                                           *)
(***************************************************************************)
EXTENDS Naturals, FiniteSets

CONSTANTS
    Keys,           \* peers' public keys
    Plain,          \* plain transports
    Bundle, Child,  \* a multipath transport and the member of Plain it carries
    Callers,        \* concurrent callers of the peer operations
    Cycles,         \* 1..n, bound: receive cycles (Open calls of the device)
    QueueCap,       \* capacity of recvCh
    Reliable,       \* transports whose reads fail only once they are closed
    None

Transports == Plain \cup {Bundle}

VARIABLES
    tnOwner,        \* Start and Stop: "new", "up", "marked", "shut", "stopped"
    tnPeers,        \* keys in the peer table
    tnMap,          \* bind.transports
    tnOpen,         \* transports whose connection is open
    tnUsed,         \* transports handed to a call so far
    tnLate,         \* transports attached after the bind was shut down
    tnBorrowed,     \* the bundle does not own its child
    tnStop,         \* bound transports whose stopCh is closed
    tnLoop,         \* readTransportLoop per transport
    tnQueue,        \* packets in recvCh
    tnRecv,         \* receive function per cycle
    tnCall          \* per caller [op, key, tr, pc]

vars == <<tnOwner, tnPeers, tnMap, tnOpen, tnUsed, tnLate, tnBorrowed, tnStop,
          tnLoop, tnQueue, tnRecv, tnCall>>
connVars == <<tnMap, tnOpen, tnLate, tnBorrowed, tnStop, tnLoop>>

Idle == [op |-> "none", key |-> None, tr |-> None, pc |-> "idle"]
Shut == tnOwner \in {"shut", "stopped"}
Started == tnOwner = "up"
Range(f) == {f[x]: x \in DOMAIN f}

\* What boundTransport.Close closes: a bundle also closes the child it owns.
Closes(t, borrowed) == {t} \cup IF t = Bundle /\ ~borrowed THEN {Child} ELSE {}

Init ==
    /\ tnOwner = "new" /\ tnPeers = {} /\ tnMap = [k \in Keys |-> None]
    /\ tnOpen = Transports /\ tnUsed = {} /\ tnLate = {} /\ tnBorrowed = TRUE
    /\ tnStop = {} /\ tnLoop = [t \in Transports |-> "none"] /\ tnQueue = 0
    /\ tnRecv = [i \in Cycles |-> "unopened"] /\ tnCall = [c \in Callers |-> Idle]

-----------------------------------------------------------------------------
(* The bind. *)

\* The transport attached before it, when the new one does not carry it.
ReplacedClosed(t, old) == ~(t = Bundle /\ old = Child)

\* AttachTransport: a transport that the new one carries only stops being
\* read and changes owner, any other is closed.
Attach(k, t) ==
    LET old == tnMap[k]
        closed == IF old # None /\ ReplacedClosed(t, old)
                    THEN Closes(old, tnBorrowed) ELSE {}
    IN /\ tnMap' = [tnMap EXCEPT ![k] = t]
       /\ tnOpen' = tnOpen \ closed
       /\ tnStop' = tnStop \cup (IF old = None THEN {} ELSE {old})
       /\ tnBorrowed' = (tnBorrowed /\ ~(t = Bundle /\ old = Child))
       /\ tnLate' = IF Shut THEN tnLate \cup {t} ELSE tnLate
       /\ tnLoop' = [tnLoop EXCEPT ![t] = "reading"]

\* DetachTransport, under the lock: the key has no transport any more.
Detach(k) == tnMap' = [tnMap EXCEPT ![k] = None] /\ UNCHANGED <<tnOpen, tnStop, tnBorrowed, tnLate, tnLoop>>

\* Open: a new receive cycle; the previous one is told to end.
Tell(f) == [i \in Cycles |-> IF f[i] = "waiting" THEN "told" ELSE f[i]]

BindOpen(i) ==
    /\ tnOwner = "up" /\ tnRecv[i] = "unopened"
    /\ \A j \in Cycles: j < i => tnRecv[j] # "unopened"
    /\ tnRecv' = [Tell(tnRecv) EXCEPT ![i] = "waiting"]
    /\ UNCHANGED <<tnOwner, tnPeers, connVars, tnUsed, tnQueue, tnCall>>

\* Close: the device rebinds, the current cycle ends.
BindClose ==
    /\ tnOwner = "up" /\ \E i \in Cycles: tnRecv[i] = "waiting"
    /\ tnRecv' = Tell(tnRecv)
    /\ UNCHANGED <<tnOwner, tnPeers, connVars, tnUsed, tnQueue, tnCall>>

\* receiveFromTransportsUntil: any ready case of the select.
Receive(i) ==
    /\ tnRecv[i] \in {"waiting", "told"}
    /\ \/ tnQueue > 0 /\ tnQueue' \in 0..(tnQueue - 1) /\ UNCHANGED tnRecv
       \/ /\ tnRecv[i] = "told" \/ Shut
          /\ tnRecv' = [tnRecv EXCEPT ![i] = "gone"]
          /\ UNCHANGED tnQueue
    /\ UNCHANGED <<tnOwner, tnPeers, connVars, tnUsed, tnCall>>

-----------------------------------------------------------------------------
(* readTransportLoop. *)

LoopTo(t, s) == tnLoop' = [tnLoop EXCEPT ![t] = s]

\* The poll ends with a packet, with an error of a transport that is closed or
\* broke, or with a timeout after which the loop looks at its stop channels.
LoopRead(t) ==
    /\ tnLoop[t] = "reading"
    /\ \/ t \in tnOpen /\ LoopTo(t, "holding")
       \/ t \notin tnOpen \cap Reliable /\ LoopTo(t, "ended")
       \/ (t \in tnStop \/ Shut) /\ LoopTo(t, "ended")
    /\ UNCHANGED <<tnOwner, tnPeers, tnMap, tnOpen, tnUsed, tnLate, tnBorrowed,
                   tnStop, tnQueue, tnRecv, tnCall>>

\* The packet is queued, or dropped when the transport or the bind stopped.
LoopPush(t) ==
    /\ tnLoop[t] = "holding"
    /\ \/ tnQueue < QueueCap /\ tnQueue' = tnQueue + 1 /\ LoopTo(t, "reading")
       \/ (t \in tnStop \/ Shut) /\ LoopTo(t, "ended") /\ UNCHANGED tnQueue
    /\ UNCHANGED <<tnOwner, tnPeers, tnMap, tnOpen, tnUsed, tnLate, tnBorrowed,
                   tnStop, tnRecv, tnCall>>

-----------------------------------------------------------------------------
(* The peer operations. *)

Goto(c, pc) == tnCall' = [tnCall EXCEPT ![c].pc = pc]
Finish(c) == tnCall' = [tnCall EXCEPT ![c] = Idle]
Closing(c) == tnCall' = [tnCall EXCEPT ![c].pc = "closing", ![c].tr = tnMap[tnCall[c].key]]

\* The checks every operation makes before it lets the lock go.
Begin(c, op, k, t) ==
    /\ tnCall[c] = Idle /\ Started
    /\ op = "add" => k \notin tnPeers
    /\ op = "remove" => k \in tnPeers /\ t = None
    /\ t # None => t \notin tnUsed
    /\ t = Bundle => Child \in tnUsed
    /\ tnUsed' = IF t = None THEN tnUsed ELSE tnUsed \cup {t}
    /\ tnCall' = [tnCall EXCEPT ![c] =
                    [op |-> op, key |-> k, tr |-> t,
                     pc |-> IF op = "add" /\ t # None THEN "bind" ELSE "ipc"]]
    /\ UNCHANGED <<tnOwner, tnPeers, connVars, tnQueue, tnRecv>>

\* The bind's part: before the device is configured in AddPeer, after it in
\* ReplacePeer and RemovePeer.
BindStep(c) ==
    /\ tnCall[c].pc = "bind"
    /\ IF tnCall[c].tr = None
       THEN Detach(tnCall[c].key) /\ Closing(c)
       ELSE /\ Attach(tnCall[c].key, tnCall[c].tr)
            /\ Goto(c, IF tnCall[c].op = "add" THEN "ipc" ELSE "commit")
    /\ UNCHANGED <<tnOwner, tnPeers, tnUsed, tnQueue, tnRecv>>

\* Mutant: a detach that leaves the transport open.
CloseDetachedNot(c) ==
    /\ tnCall[c].pc = "closing"
    /\ UNCHANGED tnOpen /\ tnStop' = tnStop \cup ({tnCall[c].tr} \ {None})
    /\ IF tnCall[c].op = "add" THEN Finish(c) ELSE Goto(c, "commit")
    /\ UNCHANGED <<tnOwner, tnPeers, tnMap, tnUsed, tnLate, tnBorrowed, tnLoop, tnQueue, tnRecv>>

\* DetachTransport, after the lock: what the key had is closed, although the
\* key may have another transport by now.
CloseDetached(c) ==
    LET t == tnCall[c].tr IN
    /\ tnCall[c].pc = "closing"
    /\ tnOpen' = IF t = None THEN tnOpen ELSE tnOpen \ Closes(t, tnBorrowed)
    /\ tnStop' = tnStop \cup ({t} \ {None})
    /\ IF tnCall[c].op = "add" THEN Finish(c) ELSE Goto(c, "commit")
    /\ UNCHANGED <<tnOwner, tnPeers, tnMap, tnUsed, tnLate, tnBorrowed, tnLoop, tnQueue, tnRecv>>

\* IpcSet: AddPeer takes its transport out again when the device refuses.
Configure(c) ==
    /\ tnCall[c].pc = "ipc"
    /\ \/ /\ Goto(c, IF tnCall[c].op = "add" THEN "commit" ELSE "bind")
          /\ UNCHANGED connVars
       \/ IF tnCall[c].op = "add" /\ tnCall[c].tr # None
          THEN Detach(tnCall[c].key) /\ Closing(c)
          ELSE Finish(c) /\ UNCHANGED connVars
    /\ UNCHANGED <<tnOwner, tnPeers, tnUsed, tnQueue, tnRecv>>

Commit(c) ==
    /\ tnCall[c].pc = "commit"
    /\ tnPeers' = IF tnCall[c].op = "remove" THEN tnPeers \ {tnCall[c].key}
                                             ELSE tnPeers \cup {tnCall[c].key}
    /\ Finish(c)
    /\ UNCHANGED <<tnOwner, connVars, tnUsed, tnQueue, tnRecv>>

-----------------------------------------------------------------------------
(* The owner. *)

\* A Start whose IpcSet or Up fails closes the device it made and changes nothing.
Start ==
    /\ tnOwner = "new"
    /\ tnOwner' = "up"
    /\ UNCHANGED <<tnPeers, connVars, tnUsed, tnQueue, tnRecv, tnCall>>

StopMark ==
    /\ tnOwner = "up"
    /\ tnOwner' = "marked"
    /\ UNCHANGED <<tnPeers, connVars, tnUsed, tnQueue, tnRecv, tnCall>>

\* Shutdown of the bind: every attached transport is closed.
StopShutdown ==
    /\ tnOwner = "marked"
    /\ tnOwner' = "shut"
    /\ tnOpen' = tnOpen \ UNION {Closes(t, tnBorrowed): t \in Range(tnMap) \ {None}}
    /\ tnStop' = tnStop \cup (Range(tnMap) \ {None})
    /\ tnMap' = [k \in Keys |-> None]
    /\ tnRecv' = Tell(tnRecv)
    /\ UNCHANGED <<tnPeers, tnUsed, tnLate, tnBorrowed, tnLoop, tnQueue, tnCall>>

\* device.Close waits for the receive functions; then the fields are cleared.
StopDevice ==
    /\ tnOwner = "shut"
    /\ \A i \in Cycles: tnRecv[i] \in {"unopened", "gone"}
    /\ tnOwner' = "stopped"
    /\ UNCHANGED <<tnPeers, connVars, tnUsed, tnQueue, tnRecv, tnCall>>

AddPeer(c) ==
    \/ Configure(c)
    \/ \E op \in {"add", "replace", "remove"}, k \in Keys, t \in Transports \cup {None}:
          Begin(c, op, k, t)
CallStep(c) == BindStep(c) \/ CloseDetached(c) \/ AddPeer(c) \/ Commit(c)
LoopStep(t) == LoopRead(t) \/ LoopPush(t)
OwnerStep == StopShutdown \/ StopDevice
Stop == StopMark \/ OwnerStep

\* A select takes each ready case with the same probability, so a stop
\* channel that stays closed is taken in the end: strong fairness.
LoopLeave(t) == LoopStep(t) /\ tnLoop'[t] = "ended"
ReceiveLeave(i) == Receive(i) /\ tnRecv'[i] = "gone"

Next ==
    \/ Start \/ Stop \/ BindClose
    \/ \E i \in Cycles: BindOpen(i) \/ Receive(i)
    \/ \E t \in Transports: LoopStep(t)
    \/ \E c \in Callers: CallStep(c)

Spec == Init /\ [][Next]_vars

-----------------------------------------------------------------------------
\* No connection leaks and none is closed under a bundle: a transport once
\* attached is closed, still attached, about to be closed by the call that
\* detached it, or owned by a bundle that was attached, unless it was attached
\* after Shutdown had run; and the child that an
\* attached bundle has adopted is open (AttachTransport, DetachTransport,
\* Shutdown).
Safe ==
    /\ \A t \in Transports:
        (tnLoop[t] # "none" /\ t \in tnOpen) =>
            \/ t \in Range(tnMap) \cup tnLate
            \/ \E c \in Callers: tnCall[c].pc = "closing" /\ tnCall[c].tr = t
            \/ t = Child /\ ~tnBorrowed /\ Bundle \in tnOpen
    /\ (Bundle \in Range(tnMap) /\ ~tnBorrowed) => Child \in tnOpen

\* What must not last: a Stop that has begun, although receive functions may wait
\* and loops may hold packets that nobody takes, and the loop of a transport
\* that was stopped.
Stopping == tnOwner \in {"marked", "shut"}
LoopStopping(t) == t \in tnStop /\ tnLoop[t] # "ended"
=============================================================================
