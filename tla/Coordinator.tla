----------------------------- MODULE Coordinator -----------------------------
(***************************************************************************)
(* The coordinator: its node store (memory or SQLite), the gRPC service    *)
(* that forwards signals between the streams nodes bind, and the client    *)
(* that registers, sends heartbeats and keeps one signal stream.           *)
(*                                                                         *)
(* Payloads are tokens; authentication and the transport are left out.     *)
(***************************************************************************)
EXTENDS Naturals, Sequences, FiniteSets, FiniteSetsExt, Functions

CONSTANTS Clients,     \* the nodes' public keys
          Stores,      \* "memory", "sqlite"
          Restartable, \* the stores whose server may restart
          LeaseTTL, MaxClock,
          MaxStreams,  \* streams opened altogether
          MaxSignals,  \* signals each client sends, by client
          Outbound,    \* capacity of a session's outbound channel
          MaxBreaks    \* broken streams, server restarts and store errors

VARIABLES coStore,     \* [kind, nodes, nextID, nextIP, signals]
          coNow,       \* the server's clock, in seconds
          coClient,    \* the gRPC clients
          coStream,    \* the signal streams and their server sessions
          coBound,     \* node id -> stream bound for it
          coGot,       \* what each client was handed
          coSent,
          coBack,      \* history: signals a failed flush left in or put back into the store
          coBreaks
coVars == <<coStore, coNow, coClient, coStream, coBound, coGot, coSent, coBack, coBreaks>>

None == 0
Ids == DOMAIN coStore.nodes
Node(i) == coStore.nodes[i]

Client0 == [id |-> None, stream |-> None, fetch |-> {}, known |-> [k \in {} |-> FALSE]]

Store0(kind) == [kind |-> kind, nodes |-> <<>>, nextID |-> 0, nextIP |-> 1, signals |-> <<>>]

Init == /\ coStore \in {Store0(kind): kind \in Stores}
        /\ coNow = 0
        /\ coClient = [c \in Clients |-> Client0]
        /\ coStream = <<>>
        /\ coBound = <<>>
        /\ coGot = [c \in Clients |-> <<>>]
        /\ coSent = [c \in Clients |-> 0]
        /\ coBack = {}
        /\ coBreaks = 0

----------------------------------------------------------------------------
(* The store.  A node's "dirty" set holds the nodes whose last sync is     *)
(* older than its last change: ChangedAt.After(LastSync) in the memory     *)
(* store, whose instants are distinct.  SQLite compares whole seconds.     *)

Touched(n, others) == [n EXCEPT !.changed = coNow, !.dirty = others]

\* refreshExpiredLocked: an expired lease takes its node offline.
Refreshed(s) ==
  [s EXCEPT !.nodes = [i \in DOMAIN s.nodes |->
     IF s.nodes[i].online /\ coNow > s.nodes[i].expires
     THEN [Touched(s.nodes[i], DOMAIN s.nodes \ {i}) EXCEPT !.online = FALSE]
     ELSE s.nodes[i]]]

Lookup(s, key) == {i \in DOMAIN s.nodes: s.nodes[i].key = key}
UsedIPs(s) == {s.nodes[i].ip: i \in DOMAIN s.nodes}

\* allocateIPLocked scans upwards from the last address handed out; SQLite's
\* allocateIPTx takes the first free address of the network.
FirstFree(s, from) == CHOOSE a \in from..(from + Cardinality(DOMAIN s.nodes)):
                        a \notin UsedIPs(s) /\ \A b \in from..(a - 1): b \in UsedIPs(s)


allocateIP(s) == FirstFree(s, IF s.kind = "memory" THEN s.nextIP ELSE 1)

nextNodeID(s) == IF s.kind = "memory" THEN s.nextID + 1 ELSE Cardinality(DOMAIN s.nodes) + 1

\* A known key keeps its node and address and gets a new lease.
Renewed(s, i) ==
  [s EXCEPT !.nodes[i] = [Touched(@, DOMAIN s.nodes \ {i}) EXCEPT !.online = TRUE, !.expires = coNow + LeaseTTL]]

\* A new key gets the next node id and a free address; every other node is
\* news to it, because it has never synced.
Added(s, key) ==
  LET i == nextNodeID(s)
      ip == allocateIP(s)
      others == DOMAIN s.nodes
      node == [key |-> key, ip |-> ip, online |-> TRUE, expires |-> coNow + LeaseTTL, changed |-> coNow,
               sync |-> 0, dirty |-> others]
  IN [s EXCEPT !.nodes = [x \in others \cup {i} |-> IF x = i THEN node ELSE [s.nodes[x] EXCEPT !.dirty = @ \cup {i}]],
               !.signals = [x \in others \cup {i} |-> IF x = i THEN <<>> ELSE s.signals[x]],
               !.nextID = i, !.nextIP = ip + 1]

\* Register; only SQLite's refreshes the expired leases first.
StoreRegister(key) ==
  LET s == IF coStore.kind = "sqlite" THEN Refreshed(coStore) ELSE coStore
      mine == Lookup(s, key)
      i == CHOOSE x \in mine: TRUE
  IN IF mine # {} THEN [id |-> i, store |-> Renewed(s, i)]
                  ELSE [id |-> nextNodeID(s), store |-> Added(s, key)]

\* The peers that changed since the node's last sync.
UpdatedPeers(s, i) ==
  {j \in DOMAIN s.nodes \ {i}: IF s.kind = "memory" THEN i \in s.nodes[j].dirty
                                                    ELSE s.nodes[j].changed > s.nodes[i].sync}

\* Heartbeat: renews the lease, reports the changes and moves the sync mark.
StoreHeartbeat(s, i) ==
  [s EXCEPT !.nodes = [j \in DOMAIN s.nodes |->
     IF j = i THEN [Touched(s.nodes[j], DOMAIN s.nodes \ {i}) EXCEPT !.online = TRUE, !.expires = coNow + LeaseTTL, !.sync = coNow]
     ELSE [s.nodes[j] EXCEPT !.dirty = @ \ {i}]]]

\* ForwardSignal: unknown nodes are errors, an offline target drops it.
ForwardResult(s, m) == IF {m.from, m.to} \subseteq DOMAIN s.nodes
                       THEN IF s.nodes[m.to].online THEN "stored" ELSE "dropped"
                       ELSE "error"
StoreForward(s, m) == IF ForwardResult(s, m) = "stored" THEN [s EXCEPT !.signals[m.to] = Append(@, m)] ELSE s

----------------------------------------------------------------------------
(* The client.                                                             *)

\* closeSignalStream and clearSignalStream: the stream's context is
\* cancelled, which both ends see.
Dropped(c) == [coClient[c] EXCEPT !.stream = None]
Cancelled(k) == IF k = None THEN coStream ELSE [coStream EXCEPT ![k].broken = TRUE]

\* Register: the RPC, then the node id is stored.
Register(c) ==
  /\ coClient[c].id = None
  /\ LET r == StoreRegister(c)
     IN coStore' = r.store /\ coClient' = [coClient EXCEPT ![c].id = r.id]
  /\ UNCHANGED <<coNow, coStream, coBound, coGot, coSent, coBack, coBreaks>>

\* ensureSignalStream, at Register's end or from SendSignal: one stream, whose
\* first envelope binds the node id.
EnsureSignalStream(c) ==
  /\ coClient[c].id # None
  /\ coClient[c].stream = None
  /\ Len(coStream) < MaxStreams
  /\ coStream' = Append(coStream, [node |-> coClient[c].id, owner |-> c, state |-> "opening", in |-> <<>>, out |-> <<>>,
                                   done |-> FALSE, loop |-> FALSE, broken |-> FALSE,
                                   flush |-> [to |-> None, via |-> None, queue |-> <<>>]])
  /\ coClient' = [coClient EXCEPT ![c].stream = Len(coStream')]
  /\ UNCHANGED <<coStore, coNow, coBound, coGot, coSent, coBack, coBreaks>>

SendSignal(c, d) ==
  /\ c # d
  /\ coSent[c] < MaxSignals[c]
  /\ coClient[d].id # None
  /\ LET k == coClient[c].stream
     IN /\ k # None
        /\ ~coStream[k].broken
        /\ coStream' = [coStream EXCEPT ![k].in = Append(@, [from |-> coStream[k].node, to |-> coClient[d].id,
                                                              by |-> c, n |-> coSent[c] + 1])]
  /\ coSent' = [coSent EXCEPT ![c] = @ + 1]
  /\ UNCHANGED <<coStore, coNow, coClient, coBound, coGot, coBack, coBreaks>>

\* receiveSignals, or a failed Send, finds the stream over.
ClearSignalStream(c) ==
  /\ coClient[c].stream # None
  /\ coStream[coClient[c].stream].broken
  /\ coClient' = [coClient EXCEPT ![c] = Dropped(c)]
  /\ UNCHANGED <<coStore, coNow, coStream, coBound, coGot, coSent, coBack, coBreaks>>

\* sendHeartbeat: NotFound closes the stream and registers again, otherwise
\* the updated peers are fetched one by one.
SendHeartbeat(c) ==
  /\ coClient[c].id # None
  /\ coClient[c].fetch = {}
  /\ LET i == coClient[c].id
         s == Refreshed(coStore)
     IN IF i \in Ids
        THEN /\ coStore' = StoreHeartbeat(s, i)
             /\ coClient' = [coClient EXCEPT ![c].fetch = UpdatedPeers(s, i)]
             /\ UNCHANGED coStream
        ELSE LET r == StoreRegister(c)
             IN /\ coStore' = r.store
                /\ coClient' = [coClient EXCEPT ![c] = [Dropped(c) EXCEPT !.id = r.id]]
                /\ coStream' = Cancelled(coClient[c].stream)
  /\ UNCHANGED <<coNow, coBound, coGot, coSent, coBack, coBreaks>>

\* GetPeer and dispatchPeer.
FetchPeer(c, i) ==
  /\ i \in coClient[c].fetch
  /\ LET s == Refreshed(coStore)
         known == coClient[c].known
     IN /\ coStore' = s
        /\ coClient' = [coClient EXCEPT ![c].fetch = @ \ {i},
                          ![c].known = IF i \in DOMAIN s.nodes
                                       THEN [x \in DOMAIN known \cup {i} |-> IF x = i THEN s.nodes[i].online ELSE known[x]]
                                       ELSE known]
  /\ UNCHANGED <<coNow, coStream, coBound, coGot, coSent, coBack, coBreaks>>

----------------------------------------------------------------------------
(* The service.                                                            *)

Flushing(k) == coStream[k].flush.to # None
Session(i) == IF i \in DOMAIN coBound THEN coBound[i] ELSE None
Unbind(k) == IF Session(coStream[k].node) = k THEN [i \in DOMAIN coBound \ {coStream[k].node} |-> coBound[i]] ELSE coBound
Over(st) == [st EXCEPT !.state = "ended", !.done = TRUE, !.broken = TRUE, !.flush.to = None]

\* Signal returns: unbindSession, the session is closed, the stream ends.
Return(k) == coStream' = [coStream EXCEPT ![k] = Over(@)] /\ coBound' = Unbind(k)

\* Signal, first envelope: the node must exist; bindSession gives the session it
\* replaces, which is closed next; then the send loop starts and the pending
\* signals are flushed.
NewFlush(i) == [to |-> i, via |-> None, queue |-> <<>>]
Bound(st) == [st EXCEPT !.state = "bound", !.loop = TRUE, !.flush = NewFlush(st.node)]

bindSession(k) ==
  /\ coStream[k].state = "opening"
  /\ LET i == coStream[k].node
         prev == Session(i)
     IN IF coStream[k].broken \/ i \notin Ids THEN Return(k)
        ELSE /\ coStream' = [coStream EXCEPT ![k] =
                  IF prev = None THEN Bound(@)
                  ELSE [@ EXCEPT !.state = "replacing", !.flush = [NewFlush(i) EXCEPT !.via = prev]]]
             /\ coBound' = [j \in DOMAIN coBound \cup {i} |-> IF j = i THEN k ELSE coBound[j]]
  /\ coStore' = Refreshed(coStore)
  /\ UNCHANGED <<coNow, coClient, coGot, coSent, coBack, coBreaks>>

ClosePrevious(k) ==
  /\ coStream[k].state = "replacing"
  /\ coStream' = [coStream EXCEPT ![k] = Bound(@), ![coStream[k].flush.via].done = TRUE]
  /\ UNCHANGED <<coStore, coNow, coClient, coBound, coGot, coSent, coBack, coBreaks>>

\* flushPending: the session is looked up, then the queue is drained.
DrainSignals(k) ==
  /\ coStream[k].state = "bound"
  /\ Flushing(k)
  /\ coStream[k].flush.via = None
  /\ LET i == coStream[k].flush.to
     IN IF Session(i) = None
        THEN coStream' = [coStream EXCEPT ![k].flush.to = None] /\ UNCHANGED coStore
        ELSE /\ coStream' = [coStream EXCEPT ![k].flush.via = Session(i), ![k].flush.queue = coStore.signals[i]]
             /\ coStore' = [coStore EXCEPT !.signals[i] = <<>>]
  /\ UNCHANGED <<coNow, coClient, coBound, coGot, coSent, coBack, coBreaks>>

\* DrainSignals fails in SQLite: the handler returns, the signals stay.
DrainFails(k) ==
  /\ coStore.kind = "sqlite" /\ coBreaks < MaxBreaks
  /\ coStream[k].state = "bound"
  /\ Flushing(k)
  /\ coStream[k].flush.via = None
  /\ Session(coStream[k].flush.to) # None
  /\ coBack' = coBack \cup Range(coStore.signals[coStream[k].flush.to])
  /\ coBreaks' = coBreaks + 1
  /\ Return(k)
  /\ UNCHANGED <<coStore, coNow, coClient, coGot, coSent>>

\* enqueue: a closed session puts the signal back in the store, a full one
\* makes the handler wait.
Enqueue(k) ==
  /\ coStream[k].state = "bound"
  /\ Flushing(k)
  /\ coStream[k].flush.via # None
  /\ LET f == coStream[k].flush
         rest == [coStream EXCEPT ![k].flush.queue = Tail(@)]
     IN IF f.queue = <<>>
        THEN coStream' = [coStream EXCEPT ![k].flush = [to |-> None, via |-> None, queue |-> <<>>]] /\ UNCHANGED <<coStore, coBack>>
        ELSE IF coStream[f.via].done
        THEN /\ coStream' = rest
             /\ coStore' = StoreForward(Refreshed(coStore), Head(f.queue))
             /\ coBack' = coBack \cup {Head(f.queue)}
        ELSE /\ Len(coStream[f.via].out) < Outbound
             /\ coStream' = [rest EXCEPT ![f.via].out = Append(@, Head(f.queue))]
             /\ UNCHANGED <<coStore, coBack>>
  /\ UNCHANGED <<coNow, coClient, coBound, coGot, coSent, coBreaks>>

\* The receive loop: the send loop's end is noticed before the next envelope;
\* a signal is stored and its target's queue flushed; an unknown target ends
\* the sender's stream.
ReceiveSignal(k) ==
  /\ coStream[k].state = "bound"
  /\ ~Flushing(k)
  /\ \/ /\ ~coStream[k].loop \/ coStream[k].broken
        /\ Return(k)
        /\ UNCHANGED coStore
     \/ /\ ~coStream[k].broken
        /\ coStream[k].in # <<>>
        /\ LET m == Head(coStream[k].in)
               s == Refreshed(coStore)
               r == ForwardResult(s, m)
               next == [coStream EXCEPT ![k].in = Tail(@)]
           IN /\ coStore' = StoreForward(s, m)
              /\ IF r = "error" THEN Return(k)
                 ELSE /\ coStream' = IF r = "stored" THEN [next EXCEPT ![k].flush = [to |-> m.to, via |-> None, queue |-> <<>>]] ELSE next
                      /\ UNCHANGED coBound
  /\ UNCHANGED <<coNow, coClient, coGot, coSent, coBack, coBreaks>>

\* sendLoop: delivers, or ends with the session or the stream; what is still
\* queued then is lost.
SendLoop(k) ==
  /\ coStream[k].loop
  /\ \/ /\ coStream[k].done \/ coStream[k].broken
        /\ coStream' = [coStream EXCEPT ![k].loop = FALSE]
        /\ UNCHANGED coGot
     \/ /\ ~coStream[k].broken
        /\ coStream[k].out # <<>>
        /\ coStream' = [coStream EXCEPT ![k].out = Tail(@)]
        /\ coGot' = [coGot EXCEPT ![coStream[k].owner] = Append(@, Head(coStream[k].out))]
  /\ UNCHANGED <<coStore, coNow, coClient, coBound, coSent, coBack, coBreaks>>

----------------------------------------------------------------------------
(* The environment.                                                        *)

Break(k) ==
  /\ coBreaks < MaxBreaks
  /\ ~coStream[k].broken
  /\ coStream' = [coStream EXCEPT ![k].broken = TRUE]
  /\ coBreaks' = coBreaks + 1
  /\ UNCHANGED <<coStore, coNow, coClient, coBound, coGot, coSent, coBack>>

\* The memory store starts empty, SQLite keeps its nodes and signals.
Restart ==
  /\ coStore.kind \in Restartable
  /\ coBreaks < MaxBreaks
  /\ coStore' = IF coStore.kind = "memory" THEN Store0("memory") ELSE coStore
  /\ coStream' = [k \in DOMAIN coStream |-> [Over(coStream[k]) EXCEPT !.loop = FALSE]]
  /\ coBound' = <<>>
  /\ coBreaks' = coBreaks + 1
  /\ UNCHANGED <<coNow, coClient, coGot, coSent, coBack>>

Tick == /\ coNow < MaxClock
        /\ coNow' = coNow + 1
        /\ UNCHANGED <<coStore, coClient, coStream, coBound, coGot, coSent, coBack, coBreaks>>

ClientStep(c) == \/ Register(c) \/ EnsureSignalStream(c) \/ ClearSignalStream(c) \/ SendHeartbeat(c)
                 \/ \E d \in Clients: SendSignal(c, d)
                 \/ \E i \in coClient[c].fetch: FetchPeer(c, i)
Signal(k) == bindSession(k) \/ ClosePrevious(k) \/ ReceiveSignal(k)
flushPending(k) == DrainSignals(k) \/ DrainFails(k) \/ Enqueue(k)
StreamStep(k) == Signal(k) \/ flushPending(k) \/ SendLoop(k) \/ Break(k)

Next == \/ \E c \in Clients: ClientStep(c)
        \/ \E k \in DOMAIN coStream: StreamStep(k)
        \/ Restart \/ Tick

Spec == Init /\ [][Next]_coVars

----------------------------------------------------------------------------
(* Properties.                                                             *)

\* Two nodes never share a virtual address and a key never has two nodes.
DistinctNodes == \A i, j \in Ids: i # j => Node(i).ip # Node(j).ip /\ Node(i).key # Node(j).key

\* The node id a client uses in heartbeats and streams is its own: with a
\* store that forgets at a restart, another client may be given it.
OwnIdentity == \A c \in Clients: coClient[c].id \in Ids => Node(coClient[c].id).key = c

\* A signal is in one place only, is handed over at most once, and only to
\* the client it was addressed to.
Count(seq, m) == Cardinality({x \in DOMAIN seq: seq[x] = m})
Places(m) ==
  MapThenSumSet(LAMBDA k: Count(coStream[k].out, m) + Count(IF Flushing(k) THEN coStream[k].flush.queue ELSE <<>>, m)
                          + Count(IF coStream[k].state = "ended" THEN <<>> ELSE coStream[k].in, m), DOMAIN coStream)
  + MapThenSumSet(LAMBDA i: Count(coStore.signals[i], m), Ids)
  + MapThenSumSet(LAMBDA c: Count(coGot[c], m), Clients)

AtMostOnce ==
  /\ \A c \in Clients: \A x \in DOMAIN coGot[c]: Places(coGot[c][x]) = 1 /\ Node(coGot[c][x].to).key = c
  /\ \A i \in Ids: \A x \in DOMAIN coStore.signals[i]: Places(coStore.signals[i][x]) = 1

\* No wake-up is lost: a stored signal whose target has a live session is
\* about to be flushed, unless a failed flush left it or put it back.
StoredIsFlushed ==
  \A i \in Ids: \A x \in DOMAIN coStore.signals[i]:
    \/ Session(i) = None
    \/ coStream[Session(i)].broken \/ coStream[Session(i)].done
    \/ \E k \in DOMAIN coStream: Flushing(k) /\ coStream[k].flush.to = i
    \/ \E y \in 1..x: coStore.signals[i][y] \in coBack

\* Signals may overtake each other between two flushes, never in the store: one
\* that is stored while a later one of its sender has left was put back.
StoredNotOvertaken ==
  \A i \in Ids: \A x \in DOMAIN coStore.signals[i]:
    LET m == coStore.signals[i][x]
        Later(seq) == \E y \in DOMAIN seq: seq[y].by = m.by /\ seq[y].to = m.to /\ seq[y].n > m.n
    IN (\/ \E c \in Clients: Later(coGot[c])
        \/ \E k \in DOMAIN coStream: Later(coStream[k].out) \/ Later(coStream[k].flush.queue))
       => m \in coBack

\* What a client of a memory store last heard of a peer is that peer's state,
\* unless the peer changed since its last heartbeat or is still to be fetched.
KnownIsCurrent ==
  coStore.kind = "memory" =>
    \A c \in Clients: LET i == coClient[c].id
                      IN i \in Ids => \A j \in Ids \ {i}:
                           \/ i \in Node(j).dirty
                           \/ j \in coClient[c].fetch
                           \/ j \in DOMAIN coClient[c].known /\ coClient[c].known[j] = Node(j).online

CoordSafe ==
  /\ DistinctNodes /\ OwnIdentity /\ AtMostOnce
  /\ StoredIsFlushed /\ StoredNotOvertaken /\ KnownIsCurrent
=============================================================================
