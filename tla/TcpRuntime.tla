----------------------------- MODULE TcpRuntime -----------------------------
(***************************************************************************)
(* The routed TCP listeners of a mesh runtime: configured and runtime      *)
(* forwards (pkg/meshruntime/tcp.go) over the listeners of the routed      *)
(* forwarder (pkg/dataplane/routed/tcp_forward.go) and the reference       *)
(* counted loopback aliases of virtual addresses.                          *)
(*                                                                         *)
(* AddForward and Start run under r.mu.  RemoveForward, the watcher of a   *)
(* listener, the listener's own accept loop and Close drop r.mu before     *)
(* they close a socket or release an alias, so they interleave.            *)
(***************************************************************************)
EXTENDS Naturals, FiniteSets

CONSTANTS
    Configured,  \* configured forwards: [id: <<"config", n>>, addr, virtual]
    Addrs,       \* addresses a runtime forward may ask for
    MaxDynamic,  \* maxDynamicTCPForwards
    MaxIds       \* bound on nextDynamicID

VARIABLES
    trState,     \* "new", "ready", "ended" (runtimeCtx is over), "closed"
    trFwd,       \* activeTCPForward and its TCPListener, by id
    trDyn,       \* dynamicCount
    trNext,      \* nextDynamicID
    trTarget,    \* targetSource
    trAlias,     \* references the alias manager holds
    trClose      \* progress of the Close call that won

vars == <<trState, trFwd, trDyn, trNext, trTarget, trAlias, trClose>>

ConfigIds == {c.id : c \in Configured}
Runtime(n) == <<"runtime", n>>
Ids == ConfigIds \cup {Runtime(n) : n \in 1..MaxIds}
ConfigAddrs == {c.addr : c \in Configured}

\* reg: the id is in r.listeners; sock: the listening socket; closer: a task
\* that will close it; loop: acceptLoop; watch: watchForward.
Absent == [addr |-> "none", virtual |-> FALSE, reg |-> FALSE, sock |-> "none",
           closer |-> FALSE, loop |-> "off", watch |-> "off"]

\* StartListenerWithPolicy, registration and the two tasks it starts.
Listening(addr, virtual) ==
    [addr |-> addr, virtual |-> virtual, reg |-> TRUE, sock |-> "open",
     closer |-> FALSE, loop |-> "accepting", watch |-> "waiting"]

Init ==
    /\ trState = "new"
    /\ trFwd = [id \in Ids |-> Absent]
    /\ trDyn = 0
    /\ trNext = 0
    /\ trTarget \in {"", "config"}
    /\ trAlias = 0
    /\ trClose = "idle"

Open(id) == trFwd[id].sock = "open"

\* net.Listen: no two sockets on one address; an ephemeral port is always free.
Bindable(addr) == addr = "ephemeral" \/ \A id \in Ids : Open(id) => trFwd[id].addr # addr

\* conflictingForwardLocked: a configured address stays reserved after its
\* listener ended.
Conflict(addr) ==
    /\ addr # "ephemeral"
    /\ \/ addr \in ConfigAddrs
       \/ \E id \in Ids : trFwd[id].reg /\ trFwd[id].addr = addr

\* mutableLocked: started, not closed, and runtimeCtx not ended.
Mutable == trState = "ready"

(***************************************************************************)
(* Start, AddForward, RemoveForward, the target.                           *)
(***************************************************************************)

Start ==
    /\ trState = "new"
    /\ trState' = "ready"
    /\ trFwd' = [id \in Ids |->
          IF id \in ConfigIds
          THEN LET c == CHOOSE c \in Configured : c.id = id IN Listening(c.addr, c.virtual)
          ELSE Absent]
    /\ trAlias' = Cardinality({c \in Configured : c.virtual})
    /\ UNCHANGED <<trDyn, trNext, trTarget, trClose>>

\* One spec fails to get its alias or to listen: those already started, and
\* perhaps the alias of the failing one, are left to Close, which Start calls.
StartFails ==
    /\ trState = "new"
    /\ \E done \in SUBSET Configured :
          /\ done # Configured
          /\ trFwd' = [id \in Ids |->
                IF \E c \in done : c.id = id
                THEN LET c == CHOOSE c \in done : c.id = id IN Listening(c.addr, c.virtual)
                ELSE Absent]
          /\ \E extra \in {0} \cup {1 : c \in {d \in Configured \ done : d.virtual}} :
                trAlias' = Cardinality({c \in done : c.virtual}) + extra
    /\ trState' = "ready"
    /\ trClose' = "called"
    /\ UNCHANGED <<trDyn, trNext, trTarget>>

\* AddForward and addForwardLocked.
AddForward(addr) ==
    /\ Mutable /\ trClose = "idle"
    /\ trDyn < MaxDynamic /\ trNext < MaxIds
    /\ trNext' = trNext + 1
    /\ IF Conflict(addr) \/ ~Bindable(addr)
       THEN UNCHANGED <<trFwd, trDyn>>
       ELSE /\ trFwd' = [trFwd EXCEPT ![Runtime(trNext + 1)] = Listening(addr, FALSE)]
            /\ trDyn' = trDyn + 1
    /\ UNCHANGED <<trState, trTarget, trAlias, trClose>>

\* RemoveForward under the lock; the listener is closed after it.
RemoveForward(id) ==
    /\ Mutable /\ trClose = "idle"
    /\ id \notin ConfigIds /\ trFwd[id].reg
    /\ trFwd' = [trFwd EXCEPT ![id].reg = FALSE, ![id].closer = TRUE]
    /\ trDyn' = trDyn - 1
    /\ UNCHANGED <<trState, trNext, trTarget, trAlias, trClose>>

\* SetTarget and ClearTarget: a configured target cannot be changed.
SetTarget ==
    /\ Mutable /\ trTarget # "config"
    /\ trTarget' \in {"", "runtime"}
    /\ UNCHANGED <<trState, trFwd, trDyn, trNext, trAlias, trClose>>

\* runtimeCtx ends before Close is called: nothing changes any more, and the
\* context watcher of every listener closes it.
ContextEnds ==
    /\ trState = "ready"
    /\ trState' = "ended"
    /\ trFwd' = [id \in Ids |-> [trFwd[id] EXCEPT !.closer = @ \/ Open(id)]]
    /\ UNCHANGED <<trDyn, trNext, trTarget, trAlias, trClose>>

(***************************************************************************)
(* Listeners.                                                              *)
(***************************************************************************)

\* TCPListener.Close by whoever decided to: RemoveForward, Close, the context
\* watcher.
CloseListener(id) ==
    /\ trFwd[id].closer
    /\ trFwd' = [trFwd EXCEPT ![id].closer = FALSE, ![id].sock = "closed"]
    /\ UNCHANGED <<trState, trDyn, trNext, trTarget, trAlias, trClose>>

\* acceptLoop meets an error that is not temporary.
AcceptFails(id) ==
    /\ trFwd[id].loop = "accepting" /\ Open(id)
    /\ trFwd' = [trFwd EXCEPT ![id].sock = "closed"]
    /\ UNCHANGED <<trState, trDyn, trNext, trTarget, trAlias, trClose>>

\* acceptLoop leaves: done is closed.
AcceptEnds(id) ==
    /\ trFwd[id].loop = "accepting" /\ trFwd[id].sock = "closed"
    /\ trFwd' = [trFwd EXCEPT ![id].loop = "ended"]
    /\ UNCHANGED <<trState, trDyn, trNext, trTarget, trAlias, trClose>>

\* watchForward: whoever took the forward out of the map has accounted for it.
WatchForward(id) ==
    /\ trFwd[id].watch = "waiting" /\ trFwd[id].loop = "ended"
    /\ IF trFwd[id].reg
       THEN /\ trFwd' = [trFwd EXCEPT ![id].reg = FALSE,
                              ![id].watch = IF trFwd[id].virtual THEN "alias" ELSE "ended"]
            /\ trDyn' = IF id \notin ConfigIds /\ trDyn > 0 THEN trDyn - 1 ELSE trDyn
       ELSE trFwd' = [trFwd EXCEPT ![id].watch = "ended"] /\ UNCHANGED trDyn
    /\ UNCHANGED <<trState, trNext, trTarget, trAlias, trClose>>

\* aliasManager.Remove; after the manager closed there is nothing to drop.
WatchAlias(id) ==
    /\ trFwd[id].watch = "alias"
    /\ trFwd' = [trFwd EXCEPT ![id].watch = "ended"]
    /\ trAlias' = IF trAlias > 0 THEN trAlias - 1 ELSE 0
    /\ UNCHANGED <<trState, trDyn, trNext, trTarget, trClose>>

(***************************************************************************)
(* Close.                                                                  *)
(***************************************************************************)

CallClose ==
    /\ trClose = "idle"
    /\ trClose' = "called"
    /\ UNCHANGED <<trState, trFwd, trDyn, trNext, trTarget, trAlias>>

\* Under the lock: closed, the maps are emptied, the listeners remembered.
CloseLocked ==
    /\ trClose = "called"
    /\ trState' = "closed"
    /\ trFwd' = [id \in Ids |->
          [trFwd[id] EXCEPT !.reg = FALSE, !.closer = @ \/ (trFwd[id].reg /\ Open(id))]]
    /\ trDyn' = 0
    /\ trClose' = "closing"
    /\ UNCHANGED <<trNext, trTarget, trAlias>>

\* listener.Close for each, then forwarder.Close, which closes what the
\* forwarder still has and waits for every accept loop.
CloseForwarder ==
    /\ trClose = "closing"
    /\ \A id \in Ids : ~trFwd[id].closer /\ trFwd[id].loop # "accepting"
    /\ trClose' = "forwarder"
    /\ UNCHANGED <<trState, trFwd, trDyn, trNext, trTarget, trAlias>>

CloseAliases ==
    /\ trClose = "forwarder"
    /\ trAlias' = 0
    /\ trClose' = "returned"
    /\ UNCHANGED <<trState, trFwd, trDyn, trNext, trTarget>>

\* A later Close call only asks the alias manager to close again.
CloseAgain ==
    /\ trState = "closed"
    /\ trAlias' = 0
    /\ UNCHANGED <<trState, trFwd, trDyn, trNext, trTarget, trClose>>

Close == CallClose \/ CloseLocked \/ CloseForwarder \/ CloseAliases \/ CloseAgain
acceptLoop(id) == AcceptFails(id) \/ AcceptEnds(id)
ForwardWatcher(id) == WatchForward(id) \/ WatchAlias(id)

Next ==
    \/ Start \/ StartFails \/ ContextEnds \/ SetTarget \/ Close
    \/ \E a \in Addrs : AddForward(a)
    \/ \E id \in Ids :
          \/ RemoveForward(id) \/ CloseListener(id) \/ acceptLoop(id) \/ ForwardWatcher(id)

Spec == Init /\ [][Next]_vars

(***************************************************************************)
(* Properties.                                                             *)
(***************************************************************************)

\* However removals, failing listeners and their watchers interleave:
\* dynamicCount is the number of runtime forwards, so the limit neither
\* leaks nor overflows; no listening socket is forgotten (it is registered or
\* somebody is about to close it); an alias is held as long as a virtual
\* listener on it is open; a runtime forward never takes a configured
\* address; and when Close has returned nothing listens and no alias is held.
ForwardsAccounted ==
    /\ trDyn = Cardinality({id \in Ids \ ConfigIds : trFwd[id].reg})
    /\ \A id \in Ids : Open(id) => trFwd[id].reg \/ trFwd[id].closer
    /\ trState \in {"ready", "ended"} =>
          trAlias >= Cardinality({id \in ConfigIds : Open(id) /\ trFwd[id].virtual})
    /\ \A id \in Ids \ ConfigIds : trFwd[id].addr \notin ConfigAddrs
    /\ trClose = "returned" =>
          trAlias = 0 /\ \A id \in Ids : ~Open(id) /\ trFwd[id].loop # "accepting"
=============================================================================
