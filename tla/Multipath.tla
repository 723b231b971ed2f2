------------------------------ MODULE Multipath ------------------------------
(***************************************************************************)
(* The transport that binds several retained paths to one peer            *)
(* (pkg/transport/multipath) as the session builds it: the best outcome    *)
(* first, the retained ones behind it in falling priority.                 *)
(*                                                                         *)
(* Every path has a reading goroutine; a writer, a reader of the bundle,   *)
(* a health ticker and the owner that adopts or closes run beside them.    *)
(* A step is one critical section of t.mu or one call of a path's own      *)
(* transport.  A packet is the ID of the path it came from; counters and   *)
(* texts are left out, time is "this path has been silent for the timeout".*)
(*                                                                         *)
(* The session may give a bundle one path twice, or two paths of one ID    *)
(* (SessionPaths).  The code looks paths up by their ID and finds the      *)
(* first, so here an ID is the index of the first path that has it; a      *)
(* transport is the index of the first path over it.                       *)
(***************************************************************************)
EXTENDS Naturals, Sequences, FiniteSets, Folds, SequencesExt

CONSTANTS
    Bundles,        \* sequences of [id, tr, role, direct, borrowed] that New may be given
    Policies,       \* set of [shadow, silence]: ShadowWrite, a silence timeout is set
    MaxEvents       \* bound: packets, writes, failures and marks from outside

VARIABLES
    mpPaths,        \* what New was given, a member of Bundles
    mpPath,         \* sequence of path states [healthy, rx, reader]
    mpOpen,         \* the transports that are open
    mpActive,       \* activeID, 0 before New
    mpPrimary,      \* primaryID
    mpQueue,        \* readCh
    mpClose,        \* the path Close comes to next, 0 before it
    mpWriter,       \* the WritePacket in progress
    mpReadFrom,     \* the packet a ReadPacket took and has not returned, or 0
    mpPolicy,       \* the member of Policies
    mpEvents,       \* events so far
    mpEverFailed    \* history: IDs ever marked unhealthy

vars == <<mpPaths, mpPath, mpOpen, mpActive, mpPrimary, mpQueue, mpClose, mpWriter,
          mpReadFrom, mpPolicy, mpEvents, mpEverFailed>>

Indices == 1..Len(mpPaths)
ID(i) == mpPaths[i].id
IsOpen(i) == mpPaths[i].tr \in mpOpen
Closed == mpClose > 0

\* Every path with the ID of the best outcome gets its priority.
Priority(i) == IF ID(i) = 1 THEN 100 ELSE 100 - i + 1
IdleWriter == [pc |-> "idle", path |-> 0, failed |-> {}, shadow |-> {}]

\* A protected direct path with no explicit dependency.
isProtectedDirectPath(i) ==
    mpPaths[i].role = "protected_direct" /\ mpPaths[i].direct

\* The next best path: one pass over the paths in order.
bestStandby(excluded) ==
    LET Better(i, best) ==
            IF ID(i) \in excluded \/ ~mpPath[i].healthy THEN best
            ELSE IF best = 0 THEN i
            ELSE IF isProtectedDirectPath(i) /\ ~isProtectedDirectPath(best) THEN i
            ELSE IF /\ mpPaths[i].role = mpPaths[best].role
                    /\ Priority(i) > Priority(best) THEN i
            ELSE best
    IN FoldLeft(LAMBDA best, i: Better(i, best), 0, [i \in Indices |-> i])

\* markPathUnhealthy and markPathHealthy, by ID.
Mark(id, h) == [mpPath EXCEPT ![id].healthy = h]

\* One of the bounded events happens; a call on a closed transport is free.
Event == mpEvents < MaxEvents /\ mpEvents' = mpEvents + 1
Fault(i) == IF IsOpen(i) THEN Event ELSE UNCHANGED mpEvents
NoteFailed(S) == mpEverFailed' = mpEverFailed \cup S

-----------------------------------------------------------------------------
Init ==
    /\ mpPaths = <<>> /\ mpPath = <<>> /\ mpOpen = {} /\ mpActive = 0 /\ mpPrimary = 0
    /\ mpQueue = <<>> /\ mpClose = 0 /\ mpWriter = IdleWriter
    /\ mpReadFrom = 0 /\ mpPolicy = [shadow |-> FALSE, silence |-> FALSE]
    /\ mpEvents = 0 /\ mpEverFailed = {}

\* New: every path healthy, the highest priority active and primary, one
\* reader per path.
New ==
    /\ mpPaths = <<>>
    /\ mpPaths' \in Bundles
    /\ mpPath' = [i \in 1..Len(mpPaths') |-> [healthy |-> TRUE, rx |-> "never",
                                               reader |-> "reading"]]
    /\ mpOpen' = {mpPaths'[i].tr: i \in 1..Len(mpPaths')}
    /\ mpActive' = 1
    /\ mpPrimary' = 1
    /\ mpPolicy' \in Policies
    /\ UNCHANGED <<mpQueue, mpClose, mpWriter, mpReadFrom, mpEvents, mpEverFailed>>

-----------------------------------------------------------------------------
(* Readers of the paths. *)

\* readLoop: a packet arrives, the path counts as healthy again.
ReadArrives(i) ==
    /\ mpPath[i].reader = "reading" /\ IsOpen(i)
    /\ Event
    /\ mpPath' = [mpPath EXCEPT ![i] = [@ EXCEPT !.healthy = TRUE, !.rx = "fresh",
                                                 !.reader = "holding"]]
    /\ UNCHANGED <<mpOpen, mpPaths, mpActive, mpPrimary, mpQueue, mpClose, mpWriter,
                   mpReadFrom, mpPolicy, mpEverFailed>>

\* readLoop: the transport reports an error, always when it is closed.
ReadFails(i) ==
    /\ mpPath[i].reader = "reading"
    /\ Fault(i)
    /\ mpPath' = [Mark(ID(i), FALSE) EXCEPT ![i].reader = "ended"]
    /\ NoteFailed({ID(i)})
    /\ UNCHANGED <<mpOpen, mpPaths, mpActive, mpPrimary, mpQueue, mpClose, mpWriter,
                   mpReadFrom, mpPolicy>>

\* Mutant: a reader that cannot leave while its packet is not taken.
DeliverAlways(i) ==
    /\ mpPath[i].reader = "holding"
    /\ Len(mpQueue) < Len(mpPaths)
    /\ mpQueue' = Append(mpQueue, ID(i))
    /\ mpPath' = [mpPath EXCEPT ![i].reader = "reading"]
    /\ UNCHANGED <<mpOpen, mpPaths, mpActive, mpPrimary, mpClose, mpWriter, mpReadFrom,
                   mpPolicy, mpEvents, mpEverFailed>>

\* readLoop: hand the packet over, or leave when the bundle is closed.
Deliver(i) ==
    /\ mpPath[i].reader = "holding"
    /\ \/ /\ Len(mpQueue) < Len(mpPaths)
          /\ mpQueue' = Append(mpQueue, ID(i))
          /\ mpPath' = [mpPath EXCEPT ![i].reader = "reading"]
       \/ /\ Closed
          /\ mpPath' = [mpPath EXCEPT ![i].reader = "ended"]
          /\ UNCHANGED mpQueue
    /\ UNCHANGED <<mpOpen, mpPaths, mpActive, mpPrimary, mpClose, mpWriter, mpReadFrom,
                   mpPolicy, mpEvents, mpEverFailed>>

\* The silence timeout of a path passes.
SilencePasses(i) ==
    /\ mpPolicy.silence /\ mpPath[i].rx = "fresh"
    /\ mpPath' = [mpPath EXCEPT ![i].rx = "stale"]
    /\ UNCHANGED <<mpOpen, mpPaths, mpActive, mpPrimary, mpQueue, mpClose, mpWriter,
                   mpReadFrom, mpPolicy, mpEvents, mpEverFailed>>

\* failoverStaleActivePath: nothing unless the active path was heard before,
\* is silent now and another one is healthy.
failoverStaleActivePath ==
    LET standby == bestStandby({mpActive})
    IN IF /\ mpPolicy.silence /\ mpPath[mpActive].rx = "stale" /\ standby # 0
       THEN /\ mpPath' = Mark(mpActive, FALSE)
            /\ mpActive' = ID(standby)
            /\ NoteFailed({mpActive})
       ELSE UNCHANGED <<mpPath, mpActive, mpEverFailed>>

\* healthLoop's ticker.
HealthTick ==
    /\ mpPaths # <<>> /\ mpPolicy.silence /\ ~Closed
    /\ failoverStaleActivePath
    /\ UNCHANGED <<mpOpen, mpPaths, mpPrimary, mpQueue, mpClose, mpWriter, mpReadFrom,
                   mpPolicy, mpEvents>>

-----------------------------------------------------------------------------
(* ReadPacket of the bundle. *)

\* A packet is taken; if it fits the caller's buffer, the active path is
\* examined.
ReadPacket ==
    /\ mpQueue # <<>> /\ mpReadFrom = 0
    /\ mpQueue' = Tail(mpQueue)
    /\ \/ mpReadFrom' = Head(mpQueue) /\ failoverStaleActivePath
       \/ UNCHANGED <<mpReadFrom, mpPath, mpActive, mpEverFailed>>
    /\ UNCHANGED <<mpOpen, mpPaths, mpPrimary, mpClose, mpWriter, mpPolicy, mpEvents>>

\* A packet from a standby is a reason to move while the primary is down.
shouldPromoteReadPath(i) ==
    i # mpActive /\ mpPath[i].healthy /\ ~mpPath[mpPrimary].healthy

\* shouldPromoteReadPath under the read lock, then promote under the write
\* lock: the verdict may be stale.
ReadVerdict ==
    /\ mpReadFrom \in Indices
    /\ mpReadFrom' = IF shouldPromoteReadPath(mpReadFrom)
                       THEN mpReadFrom + Len(mpPaths) ELSE 0
    /\ UNCHANGED <<mpOpen, mpPaths, mpPath, mpActive, mpPrimary, mpQueue, mpClose,
                   mpWriter, mpPolicy, mpEvents, mpEverFailed>>

ReadPromote ==
    /\ mpReadFrom > Len(mpPaths)
    /\ mpActive' = mpReadFrom - Len(mpPaths)
    /\ mpReadFrom' = 0
    /\ UNCHANGED <<mpOpen, mpPaths, mpPath, mpPrimary, mpQueue, mpClose, mpWriter,
                   mpPolicy, mpEvents, mpEverFailed>>

-----------------------------------------------------------------------------
(* WritePacket of the bundle. *)

WriteBegin ==
    /\ mpPaths # <<>> /\ mpWriter.pc = "idle"
    /\ Event
    /\ failoverStaleActivePath
    /\ mpWriter' = [IdleWriter EXCEPT !.pc = "pick"]
    /\ UNCHANGED <<mpOpen, mpPaths, mpPrimary, mpQueue, mpClose, mpReadFrom, mpPolicy>>

WritePick ==
    /\ mpWriter.pc = "pick"
    /\ mpWriter' = [mpWriter EXCEPT !.pc = "first", !.path = mpActive]
    /\ UNCHANGED <<mpOpen, mpPaths, mpPath, mpActive, mpPrimary, mpQueue, mpClose,
                   mpReadFrom, mpPolicy, mpEvents, mpEverFailed>>

\* writePath succeeds: this path is healthy whatever its reader does.
WriteOK ==
    /\ mpWriter.pc \in {"first", "retry"} /\ IsOpen(mpWriter.path)
    /\ mpPath' = Mark(mpWriter.path, TRUE)
    /\ mpWriter' =
        IF mpWriter.pc = "retry" THEN [mpWriter EXCEPT !.pc = "promote"]
        ELSE IF mpPolicy.shadow
             /\ \E i \in Indices: ID(i) # ID(mpWriter.path)
          THEN [mpWriter EXCEPT !.pc = "shadow",
                                !.shadow = {i \in Indices: ID(i) # ID(mpWriter.path)}]
        ELSE IdleWriter
    /\ UNCHANGED <<mpOpen, mpPaths, mpActive, mpPrimary, mpQueue, mpClose, mpReadFrom,
                   mpPolicy, mpEvents, mpEverFailed>>

\* writePath fails: the path is marked and excluded from this write.
WriteFails ==
    /\ mpWriter.pc \in {"first", "retry"}
    /\ Fault(mpWriter.path)
    /\ mpPath' = Mark(ID(mpWriter.path), FALSE)
    /\ NoteFailed({ID(mpWriter.path)})
    /\ mpWriter' = [mpWriter EXCEPT !.pc = "standby", !.failed = @ \cup {ID(mpWriter.path)}]
    /\ UNCHANGED <<mpOpen, mpPaths, mpActive, mpPrimary, mpQueue, mpClose, mpReadFrom, mpPolicy>>

\* selectStandby: another healthy path, or the write gives up.
WriteStandby ==
    /\ mpWriter.pc = "standby"
    /\ LET standby == bestStandby(mpWriter.failed)
       IN mpWriter' = IF standby = 0 THEN IdleWriter
                      ELSE [mpWriter EXCEPT !.pc = "retry", !.path = standby]
    /\ UNCHANGED <<mpOpen, mpPaths, mpPath, mpActive, mpPrimary, mpQueue, mpClose,
                   mpReadFrom, mpPolicy, mpEvents, mpEverFailed>>

WritePromote ==
    /\ mpWriter.pc = "promote"
    /\ mpActive' = ID(mpWriter.path)
    /\ mpWriter' = IdleWriter
    /\ UNCHANGED <<mpOpen, mpPaths, mpPath, mpPrimary, mpQueue, mpClose, mpReadFrom,
                   mpPolicy, mpEvents, mpEverFailed>>

\* shadowWrite: the same packet on every other path, healthy or not, in order.
ShadowWrite ==
    /\ mpWriter.pc = "shadow"
    /\ LET i == CHOOSE i \in mpWriter.shadow: \A j \in mpWriter.shadow: i <= j
       IN /\ \/ /\ IsOpen(i)
                /\ mpPath' = Mark(i, TRUE)
                /\ UNCHANGED <<mpEvents, mpEverFailed>>
             \/ /\ Fault(i)
                /\ mpPath' = Mark(ID(i), FALSE)
                /\ NoteFailed({ID(i)})
          /\ mpWriter' = IF mpWriter.shadow = {i} THEN IdleWriter
                         ELSE [mpWriter EXCEPT !.shadow = @ \ {i}]
    /\ UNCHANGED <<mpOpen, mpPaths, mpActive, mpPrimary, mpQueue, mpClose, mpReadFrom, mpPolicy>>

-----------------------------------------------------------------------------
(* The owner. *)

\* AdoptTransport: a borrowed transport becomes the bundle's own.
AdoptTransport(tr) ==
    /\ \E i \in Indices: mpPaths[i].tr = tr /\ mpPaths[i].borrowed
    /\ mpPaths' = [i \in Indices |->
                    [mpPaths[i] EXCEPT !.borrowed = @ /\ mpPaths[i].tr # tr]]
    /\ UNCHANGED <<mpOpen, mpPath, mpActive, mpPrimary, mpQueue, mpClose, mpWriter,
                   mpReadFrom, mpPolicy, mpEvents, mpEverFailed>>

\* Close: once; closeCh is closed, then every path that is not borrowed, in
\* order.
Close ==
    /\ mpPaths # <<>> /\ ~Closed
    /\ mpClose' = 1
    /\ UNCHANGED <<mpPaths, mpPath, mpOpen, mpActive, mpPrimary, mpQueue, mpWriter, mpReadFrom,
                   mpPolicy, mpEvents, mpEverFailed>>

ClosePath ==
    /\ mpClose \in Indices
    /\ mpOpen' = IF mpPaths[mpClose].borrowed THEN mpOpen ELSE mpOpen \ {mpPaths[mpClose].tr}
    /\ mpClose' = mpClose + 1
    /\ UNCHANGED <<mpPaths, mpPath, mpActive, mpPrimary, mpQueue, mpWriter, mpReadFrom,
                   mpPolicy, mpEvents, mpEverFailed>>

\* The health controller's verdict from outside (MarkPathUnhealthy/Healthy).
MarkPath(i, h) ==
    /\ ID(i) = i /\ mpPath[i].healthy # h
    /\ Event
    /\ mpPath' = Mark(i, h)
    /\ NoteFailed(IF h THEN {} ELSE {i})
    /\ UNCHANGED <<mpOpen, mpPaths, mpActive, mpPrimary, mpQueue, mpClose, mpWriter,
                   mpReadFrom, mpPolicy>>

\* The calls and the loop of a path, each step by step.
WriterStep == WritePick \/ WriteOK \/ WriteFails \/ WriteStandby \/ WritePromote \/ ShadowWrite
WritePacket == WriteBegin \/ WriterStep
readLoop(i) == ReadArrives(i) \/ ReadFails(i) \/ Deliver(i)

Next ==
    \/ New \/ HealthTick \/ ReadPacket \/ ReadVerdict \/ ReadPromote \/ WritePacket
    \/ Close \/ ClosePath
    \/ \E i \in Indices:
        \/ readLoop(i) \/ SilencePasses(i)
        \/ AdoptTransport(i)
        \/ \E h \in BOOLEAN: MarkPath(i, h)

Spec == Init /\ [][Next]_vars

ReaderStep(i) == i \in Indices /\ (ReadFails(i) \/ Deliver(i))

-----------------------------------------------------------------------------
\* The bundle leaves its primary only after the primary failed, although the
\* verdict and the promotion are separate critical sections; and whatever is
\* excluded, the standby chosen is a protected direct path when a healthy one
\* is left (bestStandbyLocked, selectStandby, shouldPromoteReadPath).
Safe ==
    mpPaths # <<>> =>
        /\ mpActive # mpPrimary => mpPrimary \in mpEverFailed
        /\ \A excluded \in SUBSET {ID(i): i \in Indices}:
            LET candidates == {i \in Indices: ID(i) \notin excluded /\ mpPath[i].healthy}
                standby == bestStandby(excluded)
            IN /\ standby = 0 <=> candidates = {}
               /\ (\E i \in candidates: isProtectedDirectPath(i)) =>
                     isProtectedDirectPath(standby)

\* What must not last: a write, and after Close the reader of a path the bundle
\* closed, also one that holds a packet nobody takes.
Writing == mpWriter.pc # "idle"
ReaderLeft(i) == Closed /\ i \in Indices /\ ~IsOpen(i) /\ mpPath[i].reader # "ended"
=============================================================================
