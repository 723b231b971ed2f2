------------------------------ MODULE Recovery ------------------------------
(***************************************************************************)
(* The direct-edge recovery supervisor of a mesh node                      *)
(* (pkg/meshruntime/recovery.go).                                          *)
(*                                                                         *)
(* One goroutine reconciles every maintained peer when its timer fires and *)
(* starts at most one automatic shortcut attempt.  Everything it reads may *)
(* change under it, between two peers of one pass and between the pass and *)
(* the action; an attempt is followed by a result and a change by a        *)
(* Notify, unless it is of a session that was never advertised.            *)
(*                                                                         *)
(* The maintained peers reach each other over rcLink, so a peer's other    *)
(* route goes through another attached peer.  Instants are not numbered:   *)
(* a retry or reset instant is "wait" until it passes, then "due", and an  *)
(* armed timer names the instant it was set to.                            *)
(***************************************************************************)
EXTENDS Naturals, FiniteSets, Sequences

CONSTANTS
    Peers,       \* MaintainedPeers, as a sequence in the sorted order
    Owned,       \* the peers whose OwnerID is this node
    MaxChanges,  \* bound on topology changes
    MaxAttempts  \* bound on attempts

VARIABLES
    rcNb,        \* the attached neighbor of each peer: its kind and handle
    rcLink,      \* the peers see each other
    rcTold,      \* FALSE while a change has not been followed by its Notify
    rcSilent,    \* peers whose session ended with no Notify since
    rcEdge,      \* recoveryEdge of each peer
    rcAttempt,   \* shortcut attempt of each peer as its waiter sees it
    rcRun,       \* the reconcile pass in progress
    rcWake,      \* the wake channel holds a token
    rcTimer,     \* "off", "soon" or the instant the timer is armed for
    rcResults,   \* results channel
    rcCount,     \* changes and attempts so far
    rcClosed

vars == <<rcNb, rcLink, rcTold, rcSilent, rcEdge, rcAttempt, rcRun, rcWake, rcTimer,
          rcResults, rcCount, rcClosed>>

Members == {Peers[i] : i \in 1..Len(Peers)}
Kinds == {"none", "stream", "other", "hidden", "packet", "stable"}

Idle == [at |-> 0, busy |-> FALSE, queued |-> FALSE, plan |-> "none", seen |-> 0,
         next |-> {}, past |-> {}]

\* newRecoverySupervisor and Start: the first pass is due at once.
Init ==
    /\ rcNb = [p \in Members |-> [kind |-> "none", handle |-> 0]]
    /\ rcLink = FALSE
    /\ rcTold = TRUE /\ rcSilent = {}
    /\ rcEdge = [p \in Members |-> [attempt |-> FALSE, failed |-> FALSE, retry |-> "none",
                                    reset |-> "none", state |-> "waiting_route"]]
    /\ rcAttempt = [p \in Members |-> "none"]
    /\ rcRun = Idle
    /\ rcWake = TRUE
    /\ rcTimer = "soon"
    /\ rcResults = {}
    /\ rcCount = [changes |-> 0, attempts |-> 0]
    /\ rcClosed = FALSE

(***************************************************************************)
(* The node under the supervisor.                                          *)
(***************************************************************************)

\* Neighbor and stablePacketNeighbor: a packet neighbor is trusted ("stable")
\* when the shortcut manager or self-bootstrap vouched for this handle; one in
\* probation is attached and not advertised ("hidden").
Kind(p) == rcNb[p].kind
Packet(p) == Kind(p) \in {"hidden", "packet"}

\* usableRecoveryRoute: at least two hops, not through the peer itself.
RouteVia(p, kinds) == rcLink /\ \E q \in Members \ {p} : Kind(q) \in kinds
Route(p) == RouteVia(p, Kinds \ {"none", "hidden"})

\* stableAlternateFirstHop.
AlternateStable(p) == RouteVia(p, {"stable"})

Attached(p, kind) == rcNb' = [rcNb EXCEPT ![p] = [kind |-> kind, handle |-> rcCount.changes + 1]]

\* An advertised neighbor attaches, is trusted or leaves, one in probation is promoted,
\* or the link between the peers changes: the topology handler, ObserveShortcut or
\* ObserveStablePacket follows.  It follows also when an attempt fails that has removed
\* its edge.
Advertised ==
    /\ \/ \E p \in Members, k \in Kinds \ {"stable", "hidden"} : k # Kind(p) /\ Attached(p, k) /\ UNCHANGED rcLink
       \/ \E p \in Members : Kind(p) = "packet" /\ rcNb' = [rcNb EXCEPT ![p].kind = "stable"] /\ UNCHANGED rcLink
       \/ rcLink' = ~rcLink /\ UNCHANGED rcNb
    /\ rcTold' = FALSE /\ UNCHANGED rcSilent

\* A session that is not advertised changes no link: it attaches, or leaves after the
\* status of its attempt (an edge that is not ready) or before its promotion.
Unadvertised ==
    /\ \E p \in Members :
          \/ Kind(p) = "none" /\ Attached(p, "hidden") /\ UNCHANGED rcSilent
          \/ Kind(p) = "hidden" /\ Attached(p, "none") /\ rcSilent' = rcSilent \cup {p}
    /\ UNCHANGED <<rcLink, rcTold>>

Change ==
    /\ rcTold /\ rcCount.changes < MaxChanges
    /\ rcCount' = [rcCount EXCEPT !.changes = @ + 1]
    /\ Advertised \/ Unadvertised
    /\ UNCHANGED <<rcEdge, rcAttempt, rcRun, rcWake, rcTimer, rcResults, rcClosed>>

\* Notify: a token that is already there is enough.
Notify ==
    /\ ~rcTold
    /\ rcTold' = TRUE /\ rcSilent' = {} /\ rcWake' = TRUE
    /\ UNCHANGED <<rcNb, rcLink, rcEdge, rcAttempt, rcRun, rcTimer, rcResults, rcCount, rcClosed>>

\* An instant passes.
Elapse(p) ==
    /\ \/ rcEdge[p].retry = "wait" /\ rcEdge' = [rcEdge EXCEPT ![p].retry = "due"]
       \/ rcEdge[p].reset = "wait" /\ rcEdge' = [rcEdge EXCEPT ![p].reset = "due"]
    /\ UNCHANGED <<rcNb, rcLink, rcTold, rcSilent, rcAttempt, rcRun, rcWake, rcTimer, rcResults,
                   rcCount, rcClosed>>

(***************************************************************************)
(* Attempts.                                                               *)
(***************************************************************************)

\* The shortcut becomes stable: a trusted packet neighbor is attached and the
\* waiter sees the phase.
AttemptStable(p) ==
    /\ rcAttempt[p] = "running"
    /\ rcAttempt' = [rcAttempt EXCEPT ![p] = "stable"]
    /\ rcNb' = [rcNb EXCEPT ![p] = [kind |-> "stable", handle |-> 0]]
    /\ rcTold' = FALSE
    /\ UNCHANGED <<rcLink, rcSilent, rcEdge, rcRun, rcWake, rcTimer, rcResults, rcCount, rcClosed>>

\* It fails, or waitAttempt runs into its timeout and cancels it.
AttemptFails(p) ==
    /\ rcAttempt[p] = "running"
    /\ rcAttempt' = [rcAttempt EXCEPT ![p] = "failed"]
    /\ UNCHANGED <<rcNb, rcLink, rcTold, rcSilent, rcEdge, rcRun, rcWake, rcTimer, rcResults,
                   rcCount, rcClosed>>

\* waitAttempt's last step.
WaitAttempt(p) ==
    /\ rcAttempt[p] \in {"stable", "failed"}
    /\ rcResults' = IF rcClosed THEN rcResults ELSE rcResults \cup {<<p, rcAttempt[p]>>}
    /\ rcAttempt' = [rcAttempt EXCEPT ![p] = "none"]
    /\ UNCHANGED <<rcNb, rcLink, rcTold, rcSilent, rcEdge, rcRun, rcWake, rcTimer, rcCount, rcClosed>>

\* recordFailureLocked and retryDelay.
RecordFailure(edge) ==
    [edge EXCEPT !.failed = TRUE, !.retry = "wait", !.reset = "none", !.state = "backoff"]

\* handleAttemptResult.
HandleAttemptResult(edge, status) ==
    LET e == [edge EXCEPT !.attempt = FALSE]
    IN IF status = "stable"
       THEN [e EXCEPT !.retry = "none", !.state = "healthy",
                      !.reset = IF e.failed THEN "wait" ELSE "none"]
       ELSE RecordFailure(e)

(***************************************************************************)
(* The run loop.                                                           *)
(***************************************************************************)

Running == rcRun.at = 0 /\ ~rcClosed

\* schedule: an armed timer is only moved forward.  "soon" is before every
\* instant; of two instants the one set first may be the earlier one.
Schedule(t) ==
    rcTimer' \in IF rcTimer = "off" THEN {t}
                 ELSE IF t = "soon" THEN {"soon"}
                 ELSE IF rcTimer = "soon" THEN {"soon"} ELSE {rcTimer, t}

TakeWake ==
    /\ Running /\ rcWake
    /\ rcWake' = FALSE
    /\ Schedule("soon")
    /\ UNCHANGED <<rcNb, rcLink, rcTold, rcSilent, rcEdge, rcAttempt, rcRun, rcResults, rcCount, rcClosed>>

TakeResult ==
    /\ Running
    /\ \E r \in rcResults :
          /\ rcResults' = rcResults \ {r}
          /\ rcEdge' = [rcEdge EXCEPT ![r[1]] = HandleAttemptResult(@, r[2])]
    /\ Schedule("soon")
    /\ UNCHANGED <<rcNb, rcLink, rcTold, rcSilent, rcAttempt, rcRun, rcWake, rcCount, rcClosed>>

Pending(t) == t # "off" /\ t # "soon" /\ rcEdge[t[2]][t[1]] = "wait"

\* Mutant: a pass that does not look for an attempt of an earlier one.
TimerFiresUnaware ==
    /\ Running /\ rcTimer # "off" /\ ~Pending(rcTimer)
    /\ rcTimer' = "off"
    /\ rcRun' = [Idle EXCEPT !.at = 1, !.past = {p \in Members : rcEdge[p].retry = "due"}]
    /\ UNCHANGED <<rcNb, rcLink, rcTold, rcSilent, rcEdge, rcAttempt, rcWake, rcResults, rcCount, rcClosed>>

\* The timer fires and reconcile begins; its now is one instant for the whole
\* pass: past are the retries that are over by then.
TimerFires ==
    /\ Running /\ rcTimer # "off" /\ ~Pending(rcTimer)
    /\ rcTimer' = "off"
    /\ rcRun' = [Idle EXCEPT !.at = 1, !.busy = \E p \in Members : rcEdge[p].attempt,
                             !.past = {p \in Members : rcEdge[p].retry = "due"}]
    /\ UNCHANGED <<rcNb, rcLink, rcTold, rcSilent, rcEdge, rcAttempt, rcWake, rcResults, rcCount, rcClosed>>

\* The decision reconcile takes for one peer from what it reads of the node.
Decide(p, busy, waiting) ==
    CASE rcEdge[p].attempt -> "attempting"
      [] Kind(p) = "stable" -> "healthy"
      [] Packet(p) -> "unknown_direct"
      [] p \notin Owned -> "standby"
      [] Kind(p) = "other" -> "unknown_direct"
      [] waiting -> "backoff"
      [] Kind(p) = "stream" /\ ~AlternateStable(p) -> "bootstrap_only"
      [] Kind(p) = "none" /\ ~Route(p) -> "waiting_route"
      [] busy -> "queued"
      [] OTHER -> "act"

\* NextRetryAt.After(now).
Ahead(p) == rcEdge[p].retry # "none" /\ p \notin rcRun.past

\* reconcile's loop body: one peer is decided on; a repair is planned for the
\* first peer that needs one, the others are queued.
ReconcilePeer ==
    LET p == Peers[rcRun.at]
        d == Decide(p, rcRun.busy \/ rcRun.plan # "none", Ahead(p))
        e == rcEdge[p]
        clears == d \in {"bootstrap_only", "waiting_route", "queued", "act"}
        healed == d = "healthy" /\ e.failed /\ e.reset = "due"
    IN /\ rcRun.at \in 1..Len(Peers) /\ ~rcClosed
       /\ rcEdge' = [rcEdge EXCEPT ![p] =
             [e EXCEPT !.state = IF d = "act" THEN @ ELSE d,
                       !.failed = @ /\ ~healed,
                       !.retry = IF healed \/ clears THEN "none" ELSE @,
                       !.reset = IF d # "healthy" \/ healed \/ ~e.failed THEN "none"
                                 ELSE IF @ = "none" THEN "wait" ELSE @]]
       /\ rcRun' = [rcRun EXCEPT
             !.at = @ + 1, !.past = IF clears THEN @ \ {p} ELSE @, !.queued = @ \/ d = "queued",
             !.plan = IF d = "act" THEN p ELSE @,
             !.seen = IF d = "act" /\ Kind(p) = "stream" THEN rcNb[p].handle ELSE @,
             !.next = CASE d = "backoff" -> @ \cup {<<"retry", p>>}
                        [] d = "healthy" /\ e.failed /\ ~healed -> @ \cup {<<"reset", p>>}
                        [] OTHER -> @]
       /\ UNCHANGED <<rcNb, rcLink, rcTold, rcSilent, rcAttempt, rcWake, rcTimer, rcResults, rcCount, rcClosed>>

Planned == rcRun.at = Len(Peers) + 1 /\ rcRun.plan # "none" /\ ~rcClosed

\* The action of a bootstrap stream: release this very handle first (a handle
\* that is no longer attached is left alone); a close error is a failed start.
ReleaseBootstrap ==
    LET p == rcRun.plan
        attached == rcNb[p].handle = rcRun.seen
    IN /\ Planned /\ rcRun.seen # 0
       /\ rcNb' = IF attached THEN [rcNb EXCEPT ![p] = [kind |-> "none", handle |-> 0]] ELSE rcNb
       /\ rcTold' = (rcTold /\ ~attached)
       /\ \/ rcRun' = [rcRun EXCEPT !.seen = 0] /\ UNCHANGED rcEdge
          \/ /\ attached
             /\ rcEdge' = [rcEdge EXCEPT ![p] = RecordFailure(@)]
             /\ rcRun' = [rcRun EXCEPT !.plan = "none"]
       /\ UNCHANGED <<rcLink, rcSilent, rcAttempt, rcWake, rcTimer, rcResults, rcCount, rcClosed>>

\* startAttempt; when the manager refuses, recordStartFailure.
StartAttempt ==
    LET p == rcRun.plan IN
    /\ Planned /\ rcRun.seen = 0
    /\ \/ /\ rcCount.attempts < MaxAttempts
          /\ rcCount' = [rcCount EXCEPT !.attempts = @ + 1]
          /\ rcEdge' = [rcEdge EXCEPT ![p].attempt = TRUE, ![p].state = "attempting"]
          /\ rcAttempt' = [rcAttempt EXCEPT ![p] = "running"]
       \/ /\ rcEdge' = [rcEdge EXCEPT ![p] = RecordFailure(@)]
          /\ UNCHANGED <<rcAttempt, rcCount>>
    /\ rcRun' = [rcRun EXCEPT !.plan = "none"]
    /\ UNCHANGED <<rcNb, rcLink, rcTold, rcSilent, rcWake, rcTimer, rcResults, rcClosed>>

\* The end of reconcile: every backoff instant that is still ahead, and another
\* pass soon when something is queued and no attempt was running.
ReconcileEnds ==
    LET instants == rcRun.next \cup {<<"retry", p>> : p \in {q \in Members : Ahead(q)}}
        again == rcRun.queued /\ ~rcRun.busy
    IN /\ rcRun.at = Len(Peers) + 1 /\ rcRun.plan = "none" /\ ~rcClosed
       /\ IF again THEN Schedule("soon")
          ELSE IF instants = {} THEN UNCHANGED rcTimer
          ELSE \E t \in instants : Schedule(t)
       /\ rcRun' = Idle
       /\ UNCHANGED <<rcNb, rcLink, rcTold, rcSilent, rcEdge, rcAttempt, rcWake, rcResults, rcCount, rcClosed>>

\* Close: unregister, cancel, and wait for the loop and the waiters.
Close ==
    /\ ~rcClosed
    /\ rcClosed' = TRUE
    /\ UNCHANGED <<rcNb, rcLink, rcTold, rcSilent, rcEdge, rcAttempt, rcRun, rcWake, rcTimer,
                   rcResults, rcCount>>

run == TakeWake \/ TakeResult
reconcile == TimerFires \/ ReconcilePeer \/ ReleaseBootstrap \/ StartAttempt \/ ReconcileEnds

Next ==
    \/ Change \/ Notify \/ run \/ reconcile \/ Close
    \/ \E p \in Members : Elapse(p) \/ AttemptStable(p) \/ AttemptFails(p) \/ WaitAttempt(p)

Spec == Init /\ [][Next]_vars

(***************************************************************************)
(* Properties.                                                             *)
(***************************************************************************)

\* Nothing is left that would make the loop run another pass.
Quiescent ==
    /\ Running /\ rcTold /\ ~rcWake /\ rcTimer = "off" /\ rcResults = {}

\* The supervisor never has two automatic attempts; an edge that says it is
\* attempting has a waiter or a result on its way; and it never goes to sleep
\* on an edge it should repair, has queued, or has put into backoff, unless all
\* that changed since the last notice is a session nobody was told of.
Supervised ==
    /\ Cardinality({p \in Members : rcEdge[p].attempt}) <= 1
    /\ \A p \in Members :
          rcEdge[p].attempt /\ ~rcClosed =>
             rcAttempt[p] # "none" \/ \E r \in rcResults : r[1] = p
    /\ Quiescent /\ (\A p \in Members : ~rcEdge[p].attempt) =>
          \A p \in Members \ rcSilent :
             Decide(p, FALSE, rcEdge[p].retry = "wait") \notin {"act", "backoff"}
=============================================================================
