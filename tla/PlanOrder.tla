------------------------------ MODULE PlanOrder ------------------------------
(***************************************************************************)
(* How the two ends of a session choose what to try from what they have    *)
(* seen: the order of strategies (pkg/client/strategy_factory.go and       *)
(* pkg/session/strategy_portfolio.go) and the plans of legacy_ice_udp      *)
(* (strategy.go, evidence.go, observation.go, ranking.go, refine.go).      *)
(*                                                                         *)
(* Each end executes plans in passes, records what came of them and tells  *)
(* the peer.  An observation is [plan, event, scope]; events are "failed", *)
(* "direct" and "relay" (a success over such a path).  Only observations   *)
(* that carry this session and peer may prune plans.                       *)
(***************************************************************************)
EXTENDS Integers, Sequences, SequencesExt

CONSTANTS
    Configs,        \* [mode, turn, symmetric, bases, bare, order] an end may have
    Histories,      \* sequences of observations an end starts with
    SessionWindow,  \* observations a session keeps of each end (100)
    StoreWindow,    \* observations it reads from the store (64)
    StrategyWindow, \* scoped observations that order strategies (32)
    MaxPasses,      \* bound: passes of each end, [i, r]
    MaxLost         \* bound: observations lost on the way to the peer

VARIABLES
    poConfig,       \* configuration of each end, fixed
    poOld,          \* the observation store of each end before the session
    poLocal,        \* all observations of the session, the old ones too
    poRemote,       \* all observations received from the peer
    poChan,         \* observations on their way to an end
    poOrder,        \* strategies of the pass, in order
    poNext,         \* strategies of the pass not begun
    poPlans,        \* plans of legacy_ice_udp in the pass, in order
    poTodo,         \* plans still to execute
    poProbe,        \* the last preflight result: "none", "ok", "failed"
    poPasses, poLost

vars == <<poConfig, poOld, poLocal, poRemote, poChan, poOrder, poNext, poPlans, poTodo,
          poProbe, poPasses, poLost>>

Ends == {"i", "r"}
Other(e) == IF e = "i" THEN "r" ELSE "i"

Legacy == "legacy_ice_udp"
RelayOnly == "relay_only"

-----------------------------------------------------------------------------
(* The configured order. *)

relayOnlyMode(c) == c.mode = "relay_only"
disableLegacyRelayPlan(c) == ~relayOnlyMode(c) /\ ~c.turn
preferRelayForSymmetricNAT(c) == c.mode = "auto" /\ c.turn /\ c.symmetric

preferRelayOnly(order) == <<RelayOnly>> \o SelectSeq(order, LAMBDA n: n # RelayOnly)

ensureLegacyFallback(order) ==
    IF \E n \in 1..Len(order): order[n] = Legacy THEN order ELSE Append(order, Legacy)

connectivityStrategyOrder(c) ==
    ensureLegacyFallback(IF relayOnlyMode(c) \/ preferRelayForSymmetricNAT(c)
                         THEN preferRelayOnly(c.order) ELSE c.order)

mutualStrategies(local, remote) ==
    SelectSeq(local, LAMBDA n: \E k \in 1..Len(remote): remote[k] = n)

-----------------------------------------------------------------------------
(* Evidence. *)

Count(seq, P(_)) == Len(SelectSeq(seq, P))

\* appendObservation and the store's Recent keep the last ones.
Recent(seq, n) == IF Len(seq) <= n THEN seq ELSE SubSeq(seq, Len(seq) - n + 1, Len(seq))

Observations(e) == Recent(poLocal[e], SessionWindow)
remoteObservations(e) == Recent(poRemote[e], SessionWindow)

\* localObservationHistory: the store is sink and history, so an observation
\* of this session is in it and in the session's own list.
localObservationHistory(e) == Recent(poOld[e] \o poLocal[e], StoreWindow) \o Observations(e)

\* observationScopeCompatible and observationCanDrivePruning
ScopeCompatible(o) == o.scope # "other"
CanDrivePruning(o) == o.scope = "session"

\* The one plan of the strategy relay_only; the plan relay_only of
\* legacy_ice_udp is another.
TurnRelay == <<"turn_relay", 0>>

DirectPlan(p) == p[1] \in {"direct_prefer", "public_direct"}
Strategy(o) == IF o.plan = TurnRelay THEN RelayOnly ELSE Legacy

Relevant(e) == SelectSeq(localObservationHistory(e) \o remoteObservations(e),
                         LAMBDA o: ScopeCompatible(o) /\ Strategy(o) = Legacy)
Pruning(e) == SelectSeq(Relevant(e), CanDrivePruning)

DirectFailure(o) == DirectPlan(o.plan) /\ o.event = "failed"
DirectSuccess(o) == o.event = "direct"
RelaySuccess(o) == o.event = "relay"

strongRelayEvidence(e) ==
    /\ Count(Pruning(e), DirectFailure) >= 2
    /\ Count(Pruning(e), RelaySuccess) > 0
    /\ poProbe[e] # "ok"
    /\ Count(Pruning(e), DirectSuccess) = 0

relayPreferred(e) == Count(Relevant(e), DirectFailure) > 0 /\ Count(Relevant(e), RelaySuccess) > 0
directSuccessful(e) == Count(Relevant(e), DirectSuccess) > 0

-----------------------------------------------------------------------------
(* Plans of legacy_ice_udp. *)

Direct == <<"direct_prefer", 0>>
Public(n) == <<"public_direct", n>>
Relay == <<"relay_only", 0>>

\* publicDirectPlans: one plan per local base when the hints name several, and
\* one for the hints that name none.
publicDirectPlans(c) ==
    IF c.bases <= 1 THEN <<Public(0)>>
    ELSE [n \in 1..c.bases |-> Public(n)] \o (IF c.bare THEN <<Public(0)>> ELSE <<>>)

Hinted(c) == c.bases > 0 \/ c.bare

basePlans(c) ==
    <<Direct>> \o publicDirectPlans(c) \o
    (IF ~disableLegacyRelayPlan(c) \/ relayOnlyMode(c) THEN <<Relay>> ELSE <<>>)

pruneDirectPreferPlan(plans) == SelectSeq(plans, LAMBDA p: p # Direct)

\* Mutant: unscoped history counts when plans are pruned.
PruneOnRelevant(e, plans) ==
    IF /\ ~disableLegacyRelayPlan(poConfig[e])
       /\ Count(Relevant(e), DirectFailure) >= 2 /\ relayPreferred(e) /\ ~directSuccessful(e)
    THEN pruneDirectPreferPlan(plans) ELSE plans

\* Plan, and RefinePlans again before the pass.
Pruned(e, plans) ==
    IF ~disableLegacyRelayPlan(poConfig[e]) /\ strongRelayEvidence(e)
    THEN pruneDirectPreferPlan(plans) ELSE plans

\* planMatchesOrderedID and reorderPlans: the named families first.
Of(plans, family) == SelectSeq(plans, LAMBDA p: p[1] = family)

reorderPlans(plans, first, second, third) ==
    Of(plans, first) \o Of(plans, second) \o Of(plans, third)

Has(plans, family) == Of(plans, family) # <<>>

RankPlans(e, plans) ==
    LET c == poConfig[e]
        direct == Has(plans, "direct_prefer") \/ Has(plans, "public_direct")
        relay == ~disableLegacyRelayPlan(c) /\ direct /\ Has(plans, "relay_only") /\ relayPreferred(e)
    IN
    IF relay /\ Hinted(c)
    THEN reorderPlans(plans, "relay_only", "public_direct", "direct_prefer")
    ELSE IF relay
    THEN reorderPlans(plans, "relay_only", "direct_prefer", "public_direct")
    ELSE IF ~directSuccessful(e) /\ direct /\ Has(plans, "public_direct") /\ Hinted(c)
    THEN reorderPlans(plans, "public_direct", "direct_prefer", "relay_only")
    ELSE plans

\* rankPlans of the session keeps its own order unless it gets a permutation.
samePlanSet(p, q) == Len(p) = Len(q) /\ ToSet(p) = ToSet(q)
rankPlans(e, plans) ==
    LET ranked == RankPlans(e, plans) IN IF samePlanSet(plans, ranked) THEN ranked ELSE plans

isPlanSubset(plans, refined) == ToSet(refined) \subseteq ToSet(plans)
refinePlans(e, plans) ==
    LET refined == Pruned(e, plans) IN IF isPlanSubset(plans, refined) THEN refined ELSE plans

-----------------------------------------------------------------------------
(* The order of strategies. *)

\* observationScopeMatchesResolveInput; a relay path counts for the relay
\* strategy, whichever strategy made it.
Scoped(e) == Recent(SelectSeq(localObservationHistory(e) \o remoteObservations(e), CanDrivePruning),
                  StrategyWindow)

RelayStrategySuccess(o) == o.event # "failed" /\ (Strategy(o) = RelayOnly \/ o.event = "relay")
RelayStrategyFailure(o) == o.event = "failed" /\ Strategy(o) = RelayOnly
DirectStrategySuccess(o) == o.event = "direct" /\ ~RelayStrategySuccess(o)
DirectStrategyFailure(o) == o.event = "failed" /\ Strategy(o) = Legacy

Bonus(e, name) ==
    LET seen == Scoped(e) IN
    IF name = RelayOnly
    THEN (IF Count(seen, RelayStrategySuccess) > 0 THEN 30 ELSE 0)
         + (IF Count(seen, DirectStrategyFailure) >= 2 THEN 40 ELSE 0)
         - (IF Count(seen, RelayStrategyFailure) > 0 THEN 20 ELSE 0)
    ELSE IF name = Legacy /\ Count(seen, DirectStrategySuccess) > 0 THEN 30 ELSE 0

scoreStrategyOrder(e, names) ==
    [n \in 1..Len(names) |-> (Len(names) + 1 - n) * 10 + Bonus(e, names[n])]

orderStrategiesFromObservations(e, names) ==
    LET score == scoreStrategyOrder(e, names)
        before(n, k) == score[n] > score[k] \/ (score[n] = score[k] /\ n < k)
        order == SetToSortSeq(1..Len(names), before)
    IN IF Len(names) <= 1 THEN names
       ELSE IF relayOnlyMode(poConfig[e]) /\ RelayOnly \in ToSet(names)
       THEN preferRelayOnly(names)
       ELSE [n \in 1..Len(names) |-> names[order[n]]]

-----------------------------------------------------------------------------
Init ==
    /\ poConfig \in [Ends -> Configs] /\ poOld \in [Ends -> Histories]
    /\ poLocal = [e \in Ends |-> <<>>] /\ poRemote = [e \in Ends |-> <<>>]
    /\ poChan = [e \in Ends |-> <<>>]
    /\ poOrder = [e \in Ends |-> <<>>] /\ poPlans = [e \in Ends |-> <<>>]
    /\ poNext = [e \in Ends |-> <<>>] /\ poTodo = [e \in Ends |-> <<>>]
    /\ poProbe = [e \in Ends |-> "none"] /\ poPasses = [e \in Ends |-> 0] /\ poLost = 0

Idle(e) == poTodo[e] = <<>> /\ poNext[e] = <<>> /\ poPasses[e] < MaxPasses[e]

\* ResolveAll
BeginPass(e) ==
    LET names == mutualStrategies(connectivityStrategyOrder(poConfig[e]),
                                  connectivityStrategyOrder(poConfig[Other(e)]))
        order == orderStrategiesFromObservations(e, names)
    IN
    /\ Idle(e)
    /\ poPasses' = [poPasses EXCEPT ![e] = @ + 1]
    /\ poOrder' = [poOrder EXCEPT ![e] = order]
    /\ poNext' = [poNext EXCEPT ![e] = SelectSeq(order, LAMBDA n: n \in {Legacy, RelayOnly})]
    /\ UNCHANGED <<poConfig, poOld, poLocal, poRemote, poChan, poPlans, poTodo, poProbe, poLost>>

\* The next strategy of the pass: Plan, refinePlans and rankPlans.
BeginStrategy(e) ==
    LET ranked == rankPlans(e, refinePlans(e, Pruned(e, basePlans(poConfig[e])))) IN
    /\ poTodo[e] = <<>> /\ poNext[e] # <<>>
    /\ poNext' = [poNext EXCEPT ![e] = Tail(@)]
    /\ \/ /\ Head(poNext[e]) = Legacy
          /\ poPlans' = [poPlans EXCEPT ![e] = ranked] /\ poTodo' = [poTodo EXCEPT ![e] = ranked]
       \/ /\ Head(poNext[e]) = RelayOnly
          /\ poTodo' = [poTodo EXCEPT ![e] = <<TurnRelay>>] /\ UNCHANGED poPlans
    /\ UNCHANGED <<poConfig, poOld, poLocal, poRemote, poChan, poOrder, poProbe, poPasses, poLost>>

\* The preflight probe of the initiator.
Probe(e) ==
    /\ e = "i" /\ Idle(e)
    /\ \E result \in {"ok", "failed"}: poProbe' = [poProbe EXCEPT ![e] = result]
    /\ poProbe' # poProbe
    /\ UNCHANGED <<poConfig, poOld, poLocal, poRemote, poChan, poOrder, poNext, poPlans, poTodo,
                   poPasses, poLost>>

Outcomes(p) ==
    CASE p[1] = "direct_prefer" -> {"failed", "direct", "relay"}
      [] p[1] = "public_direct" -> {"failed", "direct"}
      [] OTHER -> {"failed", "relay"}

\* A plan ends, with a success perhaps the whole pass; reportObservation
\* records it in the session and the store and sends it, perhaps in vain.
Execute(e) ==
    /\ poTodo[e] # <<>>
    /\ \E event \in Outcomes(Head(poTodo[e])):
         LET o == [plan |-> Head(poTodo[e]), event |-> event, scope |-> "session"] IN
         /\ \/ poTodo' = [poTodo EXCEPT ![e] = Tail(@)] /\ UNCHANGED poNext
            \/ /\ event # "failed"
               /\ poTodo' = [poTodo EXCEPT ![e] = <<>>] /\ poNext' = [poNext EXCEPT ![e] = <<>>]
         /\ poLocal' = [poLocal EXCEPT ![e] = Append(@, o)]
         /\ \/ poChan' = [poChan EXCEPT ![Other(e)] = Append(@, o)] /\ UNCHANGED poLost
            \/ poLost < MaxLost /\ poLost' = poLost + 1 /\ UNCHANGED poChan
    /\ UNCHANGED <<poConfig, poOld, poRemote, poOrder, poPlans, poProbe, poPasses>>

\* recordRemoteObservation
Hear(e) ==
    /\ poChan[e] # <<>>
    /\ poRemote' = [poRemote EXCEPT ![e] = Append(@, Head(poChan[e]))]
    /\ poChan' = [poChan EXCEPT ![e] = Tail(@)]
    /\ UNCHANGED <<poConfig, poOld, poLocal, poOrder, poNext, poPlans, poTodo, poProbe, poPasses,
                   poLost>>

Next == \E e \in Ends: BeginPass(e) \/ BeginStrategy(e) \/ Probe(e) \/ Execute(e) \/ Hear(e)

Spec == Init /\ [][Next]_vars

-----------------------------------------------------------------------------
(* Properties. *)

\* What happened in this session, at either end.
Happened(P(_)) == \E e \in Ends: Count(poLocal[e], P) > 0

\* A pass always has plans, each of the base plans at most once; the public
\* plans are never pruned, and direct_prefer only while a relay is left.
PlansUsable == \A e \in Ends: poPlans[e] # <<>> =>
    /\ IsInjective(poPlans[e]) /\ ToSet(poPlans[e]) \subseteq ToSet(basePlans(poConfig[e]))
    /\ ToSet(publicDirectPlans(poConfig[e])) \subseteq ToSet(poPlans[e])
    /\ Direct \notin ToSet(poPlans[e]) => Relay \in ToSet(poPlans[e])

\* History of other sessions, and history without a scope, prunes nothing: a
\* missing direct_prefer follows from this session's failures and relay.
PruneIsScoped == \A e \in Ends:
    poPlans[e] # <<>> /\ Direct \notin ToSet(poPlans[e]) =>
        Happened(DirectFailure) /\ Happened(RelaySuccess)

\* An end that made a direct path itself does not prune direct_prefer while the
\* session remembers it: until SessionWindow other observations push it out.
DirectSuccessProtects == \A e \in Ends:
    poTodo[e] # <<>> /\ poTodo[e] = poPlans[e] /\ Count(Observations(e), DirectSuccess) > 0 =>
        Direct \in ToSet(poPlans[e])

\* The strategies tried are the mutual ones, and unless the configuration puts
\* it first, the relay overtakes the direct one only after this session failed
\* directly or used a relay.
OrderJustified == \A e \in Ends: poPasses[e] > 0 =>
    LET order == poOrder[e] IN
    /\ ToSet(order) = ToSet(connectivityStrategyOrder(poConfig["i"])) \cap
                      ToSet(connectivityStrategyOrder(poConfig["r"]))
    /\ \A n, k \in 1..Len(order):
         /\ order[n] = RelayOnly /\ order[k] = Legacy /\ n < k
         /\ ~relayOnlyMode(poConfig[e]) /\ ~preferRelayForSymmetricNAT(poConfig[e])
         => Happened(DirectStrategyFailure) \/ Happened(RelayStrategySuccess)

OrderSafe == PlansUsable /\ PruneIsScoped /\ DirectSuccessProtects /\ OrderJustified
=============================================================================
