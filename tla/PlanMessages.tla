----------------------------- MODULE PlanMessages -----------------------------
(***************************************************************************)
(* The strategy messages of one session (pkg/session/selection.go,         *)
(* envelope.go, planning.go) and the preflight probe (probe.go).           *)
(*                                                                         *)
(* A message of the peer goes to the bound transport, to the executor of   *)
(* the active plan, or waits in pending for a later plan.  The pass        *)
(* installs an executor, flushes pending into it, executes it and discards *)
(* what is left for its plan.  Each HandleMessage is a call of its own:    *)
(* it chooses a target under strategyMu and delivers after the unlock.     *)
(***************************************************************************)
EXTENDS Naturals, Sequences, SequencesExt

CONSTANTS
    Strategies,     \* [factory, probes, plans]: plans are groups of plan ids
    Messages,       \* [plan, body]; plan is NoPlan or a plan id
    Copies,         \* bound: how often the peer sends each message
    Calls,          \* concurrent calls of HandleMessage
    BoundPlan,      \* plan whose transport takes messages once bound, or NoPlan
    NoPlan

\* A plan id is [family, hint]; hint 0 is the id without a _hint_n suffix.

VARIABLES
    pmPass,         \* the pass: [pc, s, g, deliver, reused]
    pmExec,         \* executor: the group of plans it stands for, {} if none
    pmActive,       \* activePlan
    pmPending,      \* pending
    pmBound,        \* boundMsgPlanID, NoPlan if there is no target
    pmCall,         \* per call: [msg, target] or idle
    pmLeft,         \* copies the peer has still to send
    pmGot,          \* messages an executor was handed: [s, plan] -> set
    pmFlushed,      \* reusable messages a flush handed over: [s, active] -> sequence
    pmSeen,         \* messages routed since pending was last emptied
    pmProbe         \* the preflight probe: [sent, net, back, cache, flag]

vars == <<pmPass, pmExec, pmActive, pmPending, pmBound, pmCall, pmLeft, pmGot, pmFlushed,
          pmSeen, pmProbe>>

-----------------------------------------------------------------------------
(* Plan ids. *)

strategyMessagePlanID(m) == m.plan

strategyPlanIDsMatch(p, q) == p # NoPlan /\ q # NoPlan /\ p.family = q.family

shouldBufferForFuturePlan(m, active) ==
    active # NoPlan /\ m.plan # NoPlan /\ ~strategyPlanIDsMatch(m.plan, active)

shouldRetainForLaterPlanAfterDelivery(m, active) ==
    /\ active # NoPlan /\ m.plan # NoPlan /\ m.plan # active
    /\ strategyPlanIDsMatch(m.plan, active)

Family(p) == [p EXCEPT !.hint = 0]

\* messageTargets: the exact plan, or every plan of the group.
messageTargets(group, m) == IF m.plan \in group THEN {m.plan} ELSE group

-----------------------------------------------------------------------------
Strategy == Strategies[pmPass.s]
Group == Strategy.plans[pmPass.g]

\* The plan id an executor is installed under: the family for a group.
ActiveOf(group) ==
    IF \E p, q \in group: p # q THEN Family(CHOOSE p \in group: TRUE)
    ELSE CHOOSE p \in group: TRUE

Execs == UNION {{[s |-> s, plan |-> p]: p \in UNION Range(Strategies[s].plans)}:
                s \in 1..Len(Strategies)}
NoTarget == [s |-> 0, to |-> {}, direct |-> FALSE]
NoMsg == [plan |-> NoPlan, body |-> "none"]
IdleCall == [pc |-> "idle", msg |-> NoMsg, target |-> NoTarget]
NewProbe == [pc |-> "idle", sent |-> 0, net |-> {}, back |-> {}, cache |-> {}, flag |-> FALSE]

Init ==
    /\ pmPass = [pc |-> "select", s |-> 1, g |-> 0, deliver |-> <<>>, reused |-> {}]
    /\ pmExec = {} /\ pmActive = NoPlan /\ pmPending = <<>> /\ pmBound = NoPlan
    /\ pmCall = [c \in Calls |-> IdleCall]
    /\ pmLeft = [m \in Messages |-> Copies]
    /\ pmGot = [e \in Execs |-> {}] /\ pmFlushed = [e \in Execs |-> <<>>]
    /\ pmSeen = {} /\ pmProbe = NewProbe

\* HandleMessage of an executor, a group or a strategy.
Hand(s, to, m) == pmGot' = [e \in Execs |->
    IF e.s = s /\ e.plan \in to THEN pmGot[e] \cup {m} ELSE pmGot[e]]

passVars == <<pmPass, pmExec, pmActive, pmBound, pmFlushed, pmProbe>>
callVars == <<pmCall, pmLeft>>

-----------------------------------------------------------------------------
(* HandleMessage, called for each strategy message. *)

\* boundTransportMessageTarget
AcceptedByBound(m) == strategyPlanIDsMatch(m.plan, pmBound)

Arrives(c, m) ==
    /\ pmCall[c].pc = "idle" /\ pmLeft[m] > 0
    /\ pmLeft' = [pmLeft EXCEPT ![m] = @ - 1]
    /\ pmCall' = IF AcceptedByBound(m) THEN pmCall
                 ELSE [pmCall EXCEPT ![c] = [IdleCall EXCEPT !.pc = "route", !.msg = m]]
    /\ UNCHANGED <<passVars, pmPending, pmGot, pmSeen>>

\* A strategy that executes its plans itself takes messages itself.
HandlesItself == pmPass.s <= Len(Strategies) /\ pmPass.pc # "select" /\ ~Strategy.factory

routeTarget(m) ==
    IF pmExec # {} /\ ~shouldBufferForFuturePlan(m, pmActive)
    THEN [s |-> pmPass.s, to |-> messageTargets(pmExec, m), direct |-> TRUE]
    ELSE IF pmExec = {} /\ HandlesItself
    THEN [s |-> pmPass.s, to |-> UNION Range(Strategy.plans), direct |-> TRUE]
    ELSE NoTarget

routeStrategyMessage(c) ==
    LET m == pmCall[c].msg
        target == routeTarget(m)
    IN
    /\ pmCall[c].pc = "route"
    /\ pmSeen' = pmSeen \cup {m}
    /\ IF target.direct
       THEN /\ pmCall' = [pmCall EXCEPT ![c].pc = "deliver", ![c].target = target]
            /\ UNCHANGED pmPending
       ELSE /\ pmCall' = [pmCall EXCEPT ![c] = IdleCall]
            /\ pmPending' = Append(pmPending, m)
    /\ UNCHANGED <<passVars, pmLeft, pmGot>>

\* The target may have been closed since it was chosen.
Deliver(c) ==
    /\ pmCall[c].pc = "deliver"
    /\ Hand(pmCall[c].target.s, pmCall[c].target.to, pmCall[c].msg)
    /\ pmCall' = [pmCall EXCEPT ![c] = IdleCall]
    /\ UNCHANGED <<passVars, pmPending, pmLeft, pmSeen>>

-----------------------------------------------------------------------------
(* The pass. *)

To(pc) == pmPass' = [pmPass EXCEPT !.pc = pc]

\* setSelectedStrategy, and the preflight probe where the strategy plans one.
SelectStrategy ==
    /\ pmPass.pc = "select" /\ pmPass.s <= Len(Strategies)
    /\ To(IF Strategy.probes THEN "probe" ELSE IF Strategy.factory THEN "open" ELSE "flush")
    /\ UNCHANGED <<pmExec, pmActive, pmBound, pmFlushed, pmProbe, callVars, pmPending, pmGot, pmSeen>>

\* executePlan and executeCandidateGroup: the executor of the next plan.
setActiveExecutor ==
    /\ pmPass.pc = "open" /\ pmPass.g < Len(Strategy.plans)
    /\ LET group == Strategy.plans[pmPass.g + 1] IN
       /\ pmExec' = group /\ pmActive' = ActiveOf(group)
       /\ pmPass' = [pmPass EXCEPT !.pc = "flush", !.g = @ + 1, !.reused = {}]
    /\ UNCHANGED <<pmBound, pmFlushed, pmProbe, callVars, pmPending, pmGot, pmSeen>>

Retains(m) == shouldBufferForFuturePlan(m, pmActive) \/ shouldRetainForLaterPlanAfterDelivery(m, pmActive)

\* Of equal reusable messages the first is delivered, in one flush of one executor.
Delivers(n) ==
    LET m == pmPending[n] IN
    /\ ~shouldBufferForFuturePlan(m, pmActive)
    /\ shouldRetainForLaterPlanAfterDelivery(m, pmActive) =>
        m \notin pmPass.reused /\ \A k \in 1..(n - 1): pmPending[k] # m

FlushTake ==
    LET pick == {n \in 1..Len(pmPending): Delivers(n)}
        reusable == {pmPending[n]: n \in {k \in pick: Retains(pmPending[k])}}
        deliver == SetToSortSeq(pick, <)
    IN
    /\ pmPass.pc = "flush"
    /\ pmPending' = SelectSeq(pmPending, Retains)
    /\ pmPass' = [pmPass EXCEPT !.pc = IF pick = {} THEN "execute" ELSE "deliver",
                                !.deliver = [n \in 1..Len(deliver) |-> pmPending[deliver[n]]],
                                !.reused = @ \cup reusable]
    /\ UNCHANGED <<pmExec, pmActive, pmBound, pmFlushed, pmProbe, callVars, pmGot, pmSeen>>

Everyone == IF Strategy.factory THEN pmExec ELSE UNION Range(Strategy.plans)

\* HandleMessage of the flush; an error ends the plan.
FlushDeliver ==
    LET m == Head(pmPass.deliver) IN
    /\ pmPass.pc = "deliver"
    /\ Hand(pmPass.s, messageTargets(Everyone, m), m)
    /\ pmFlushed' = [e \in Execs |->
        IF e.s = pmPass.s /\ e.plan \in messageTargets(Everyone, m) /\ Retains(m)
        THEN Append(pmFlushed[e], m) ELSE pmFlushed[e]]
    /\ \/ pmPass' = [pmPass EXCEPT !.deliver = Tail(@),
                                   !.pc = IF Tail(pmPass.deliver) = <<>> THEN "flush" ELSE "deliver"]
       \/ pmPass' = [pmPass EXCEPT !.deliver = <<>>,
                                   !.pc = IF Strategy.factory THEN "clear" ELSE "end"]
    /\ UNCHANGED <<pmExec, pmActive, pmBound, pmProbe, callVars, pmPending, pmSeen>>

\* Execute returns.
Executed ==
    /\ pmPass.pc = "execute"
    /\ To(IF Strategy.factory THEN "clear" ELSE "end")
    /\ UNCHANGED <<pmExec, pmActive, pmBound, pmFlushed, pmProbe, callVars, pmPending, pmGot, pmSeen>>

clearActiveExecutor ==
    /\ pmPass.pc = "clear"
    /\ pmExec' = {} /\ pmActive' = NoPlan
    /\ To("discard")
    /\ UNCHANGED <<pmBound, pmFlushed, pmProbe, callVars, pmPending, pmGot, pmSeen>>

\* What discardPendingStrategyMessagesForPlan keeps, or ForPlanFamily after a group.
discardForPlan(p, m) == m.plan # NoPlan /\ m.plan # p

discardForFamily(p, m) == m.plan = NoPlan \/ ~strategyPlanIDsMatch(m.plan, p)

Survives(m) ==
    LET p == ActiveOf(Group) IN
    IF \E q, r \in Group: q # r THEN discardForFamily(p, m) ELSE discardForPlan(p, m)

DiscardForPlan ==
    /\ pmPass.pc = "discard"
    /\ pmPending' = SelectSeq(pmPending, Survives)
    /\ To(IF pmPass.g < Len(Strategy.plans) THEN "open" ELSE "end")
    /\ UNCHANGED <<pmExec, pmActive, pmBound, pmFlushed, pmProbe, callVars, pmGot, pmSeen>>

\* The end of executeStrategyOutcomes: discardPendingStrategyMessages; then a
\* path is bound, or the next strategy is tried (clearSelectedStrategy).
EndStrategy ==
    /\ pmPass.pc = "end"
    /\ pmPending' = <<>> /\ pmSeen' = {}
    /\ \/ /\ pmPass' = [pmPass EXCEPT !.pc = "done"]
          /\ pmBound' \in {NoPlan, BoundPlan}
       \/ /\ pmPass' = [pmPass EXCEPT !.pc = "select", !.s = @ + 1, !.g = 0]
          /\ UNCHANGED pmBound
    /\ UNCHANGED <<pmExec, pmActive, pmFlushed, pmProbe, callVars, pmGot>>

-----------------------------------------------------------------------------
(* runStrategyPreflightProbe.  A script is named by its number; every script *)
(* of a strategy has the same type, and the peer runs each in a goroutine.   *)

ProbeUnchanged == UNCHANGED <<pmExec, pmActive, pmBound, pmFlushed, callVars, pmPending, pmGot, pmSeen>>

SendScript ==
    /\ pmPass.pc = "probe"
    /\ LET n == pmProbe.sent + 1 IN
       pmProbe' = [pmProbe EXCEPT !.sent = n, !.net = @ \cup {n}, !.flag = FALSE, !.cache = {}]
    /\ To("wait")
    /\ ProbeUnchanged

\* runProbeScript of the peer.
PeerAnswers(n, ok) ==
    /\ n \in pmProbe.net
    /\ pmProbe' = [pmProbe EXCEPT !.net = @ \ {n}, !.back = @ \cup {<<n, ok>>}]
    /\ UNCHANGED pmPass /\ ProbeUnchanged

\* handleProbeResult: the last result of the type that arrived since the script
\* was sent, also through the channel.
ResultArrives(r) ==
    /\ r \in pmProbe.back
    /\ pmProbe' = [pmProbe EXCEPT !.back = @ \ {r}, !.cache = {r}]
    /\ UNCHANGED pmPass /\ ProbeUnchanged

AfterProbe == To(IF Strategy.factory THEN "open" ELSE "flush")

ProbeCompletes ==
    /\ pmPass.pc = "wait" /\ pmProbe.cache # {}
    /\ pmProbe' = [pmProbe EXCEPT !.flag = \E r \in pmProbe.cache: r[2]]
    /\ AfterProbe /\ ProbeUnchanged

\* A probe that fails does not stop the strategy.
ProbeTimesOut ==
    /\ pmPass.pc = "wait"
    /\ AfterProbe /\ UNCHANGED pmProbe /\ ProbeUnchanged

flushPendingStrategyMessages == FlushTake \/ FlushDeliver

Next ==
    \/ \E c \in Calls, m \in Messages: Arrives(c, m)
    \/ \E c \in Calls: routeStrategyMessage(c) \/ Deliver(c)
    \/ SelectStrategy \/ setActiveExecutor \/ flushPendingStrategyMessages \/ Executed
    \/ clearActiveExecutor \/ DiscardForPlan \/ EndStrategy
    \/ SendScript \/ ProbeCompletes \/ ProbeTimesOut
    \/ \E n \in 1..Len(Strategies), ok \in BOOLEAN: PeerAnswers(n, ok) \/ ResultArrives(<<n, ok>>)

Spec == Init /\ [][Next]_vars

-----------------------------------------------------------------------------
(* Properties. *)

Executing == pmPass.pc = "execute" /\ Strategy.factory

\* Once an executor has had its last flush, what waits in pending is for
\* another plan, or is kept for one and was delivered to this executor too.
NothingStranded ==
    Executing => \A n \in 1..Len(pmPending):
        LET m == pmPending[n] IN
        \/ shouldBufferForFuturePlan(m, pmActive)
        \/ \E p \in pmExec: m \in pmGot[[s |-> pmPass.s, plan |-> p]]

\* A message that names a plan, and came while its strategy was under way,
\* has reached the executor of that plan when it executes, or is in the hands
\* of a call; the plans tried before it do not lose it.
ReachesItsPlan ==
    Executing => \A m \in pmSeen: m.plan \in pmExec =>
        \/ m \in pmGot[[s |-> pmPass.s, plan |-> m.plan]]
        \/ \E c \in Calls: pmCall[c].pc = "deliver" /\ pmCall[c].msg = m

\* A message kept for several plans is flushed into each executor once.
ReusedOnce == \A e \in Execs: \A n, k \in 1..Len(pmFlushed[e]):
    pmFlushed[e][n] = pmFlushed[e][k] => n = k

\* A message of one plan family never reaches an executor of another.
OwnFamilyOnly == \A e \in Execs: \A m \in pmGot[e]:
    Strategies[e.s].factory /\ m.plan # NoPlan => m.plan.family = e.plan.family

MessagesSafe == NothingStranded /\ ReachesItsPlan /\ ReusedOnce /\ OwnFamilyOnly
=============================================================================
