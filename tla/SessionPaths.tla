----------------------------- MODULE SessionPaths -----------------------------
(***************************************************************************)
(* The transports one session makes, and who owns them (pkg/session):      *)
(* planning.go tries strategies and their plans, path_retention.go and     *)
(* path_multipath.go choose what to keep, binder.go hands the choice to    *)
(* the tunnel.  Start's goroutine and ImproveProtectedDirect run under     *)
(* executeMu; Close does not take it.                                      *)
(*                                                                         *)
(* A plan fails or makes a transport over a path of some kind.  A bundle   *)
(* is a multipath transport over others.  Selection agreement, probes and  *)
(* strategy messages are in SelectionAgreement and PlanMessages.           *)
(***************************************************************************)
EXTENDS Naturals, Sequences, FiniteSets

CONSTANTS
    Strategies,     \* resolved candidates in order: [plans, direct]
    Configs,        \* [multipath: the PathPolicy enables multipath and protects
                    \*  direct paths, agreement: the session negotiates]
    MaxPaths,       \* PathPolicy.MaxPaths
    MaxFaults,      \* bound: capability, Bind and path commit calls that fail
    MaxImproves,    \* bound: calls of ImproveProtectedDirect
    Forced          \* the peer may force an improvement

VARIABLES
    spConfig,       \* the configuration, fixed
    spState,        \* the state machine
    spTr,           \* transports made: [open, kind, key, members]
    spBound,        \* what the tunnel carries for the peer, 0 if nothing
    spLast,         \* lastRes.Transport
    spRetained,     \* retained outcomes
    spPass,         \* the pass under executeMu
    spClose,        \* steps of Close
    spDone,         \* the context of the pass has ended
    spFaults, spImproves

vars == <<spConfig, spState, spTr, spBound, spLast, spRetained, spPass, spClose, spDone,
          spFaults, spImproves>>

Multipath == spConfig.multipath
Agreement == spConfig.agreement

-----------------------------------------------------------------------------
(* state_machine.go *)

Later == {"selecting", "planning", "bound", "failed", "closed"}

validStateTransitions ==
    [new |-> {"capability", "failed", "closed"},
     capability |-> {"selecting", "bound", "failed", "closed"},
     selecting |-> {"planning", "bound", "failed", "closed"},
     planning |-> Later \cup {"executing"},
     executing |-> Later \cup {"executing", "binding"},
     binding |-> Later,
     bound |-> {"capability", "selecting", "planning", "failed", "closed"},
     failed |-> {"capability", "closed"},
     closed |-> {"closed"}]

\* transition: an invalid one is reported and changes nothing.
After(state, next) == IF next \in validStateTransitions[state] THEN next ELSE state
transition(next) == spState' = After(spState, next)

-----------------------------------------------------------------------------
(* Outcomes and scores. *)

\* An outcome: the transport it made (0: the plan failed), whether it is
\* borrowed, and its place in the list, which stands for its address.
Outcome(id, borrowed) == [id |-> id, borrowed |-> borrowed]
isSuccessfulOutcome(o) == o.id # 0
outcomeKey(o) == spTr[o.id].key
KindOf(o) == spTr[o.id].kind

IsProtectedDirectPath(o) == isSuccessfulOutcome(o) /\ KindOf(o) = "protected"

\* ScoreOutcome, and with a policy the penalty of a dependency and the bonus of
\* a protected path: the order of the three kinds.
ScoreOutcome(o) ==
    IF ~isSuccessfulOutcome(o) THEN 0
    ELSE CASE KindOf(o) = "relay" -> 1
           [] KindOf(o) = "direct" -> 2
           [] OTHER -> IF Multipath THEN 3 ELSE 2

outcomeTieRank(o) == IF IsProtectedDirectPath(o) THEN 1 ELSE 0

Better(o, p) ==
    \/ ScoreOutcome(o) > ScoreOutcome(p)
    \/ ScoreOutcome(o) = ScoreOutcome(p) /\ outcomeTieRank(o) > outcomeTieRank(p)

\* SelectBestOutcome: the index of the first outcome nothing beats, 0 if none
\* succeeded.
SelectBest(outs) ==
    LET ok == {n \in 1..Len(outs): isSuccessfulOutcome(outs[n])}
        top == {n \in ok: \A k \in ok: ~Better(outs[k], outs[n])}
    IN IF top = {} THEN 0 ELSE CHOOSE n \in top: \A k \in top: n <= k

selectProtectedDirectOutcome(outs) ==
    LET ok == {n \in 1..Len(outs): IsProtectedDirectPath(outs[n])} IN
    IF ~Multipath \/ ok = {} THEN 0 ELSE CHOOSE n \in ok: \A k \in ok: n <= k

desiredMultipathPathCount == IF Multipath THEN MaxPaths ELSE 1

Keys(outs) == {outcomeKey(outs[n]): n \in {k \in 1..Len(outs): isSuccessfulOutcome(outs[k])}}

\* successfulOutcomeCount: paths with different keys.
successfulOutcomeCount(outs) == Cardinality(Keys(outs))

MayBeDirect(from) == \E n \in from..Len(Strategies): Strategies[n].direct

protectedDirectSearchComplete(outs, from) ==
    /\ outs # <<>>
    /\ successfulOutcomeCount(outs) >= desiredMultipathPathCount \/ from > Len(Strategies)
    /\ selectProtectedDirectOutcome(outs) # 0 \/ ~MayBeDirect(from)

\* shouldBindPrimaryBeforeProtectedDirectSearch
BindFirst(o) == Multipath /\ KindOf(o) = "relay"

-----------------------------------------------------------------------------
(* Transports. *)

Ids(outs) == {outs[n].id: n \in 1..Len(outs)} \ {0}
Lent(outs) == {outs[n].id: n \in {k \in 1..Len(outs): outs[k].borrowed}}
Kept(outs) == Ids(outs) \ Lent(outs)

\* What closing these transports closes: a bundle closes the members it owns,
\* unless it was closed before.
OwnedMembers(tr, id) ==
    IF tr[id].open THEN Kept(tr[id].members) ELSE {}
Owns(tr, ids) == ids \cup UNION {OwnedMembers(tr, id): id \in ids}

CloseAll(tr, ids) ==
    LET all == Owns(tr, Owns(tr, Owns(tr, ids \ {0}))) IN
    [id \in 1..Len(tr) |-> [tr[id] EXCEPT !.open = @ /\ id \notin all]]


\* TunnelBinder.Bind: a transport that the new one carries changes owner, any
\* other that it replaces is closed.
Carries(tr, id, old) == \E n \in 1..Len(tr[id].members): tr[id].members[n].id = old

Adopted(tr, id, old) ==
    [tr EXCEPT ![id].members = [n \in 1..Len(tr[id].members) |->
        IF tr[id].members[n].id = old THEN Outcome(old, FALSE) ELSE tr[id].members[n]]]

\* Mutant: the transport a bundle has taken over is closed.
BindClosesOld(tr, id, old) == IF old = 0 \/ old = id THEN tr ELSE CloseAll(tr, {old})

BindTransports(tr, id, old) ==
    IF old = 0 \/ old = id THEN tr
    ELSE IF Carries(tr, id, old) THEN Adopted(tr, id, old)
    ELSE CloseAll(tr, {old})

\* TunnelBinder.Unbind removes the peer, which closes its transport.
Unbind(tr) == CloseAll(tr, {spBound})

-----------------------------------------------------------------------------
NoPass == [who |-> "none", pc |-> "idle", i |-> 0, plan |-> 0, outs |-> <<>>,
           all |-> <<>>, primary |-> FALSE, best |-> 0, copy |-> 0]

Init ==
    /\ spConfig \in Configs
    /\ spState = "new" /\ spTr = <<>> /\ spBound = 0 /\ spLast = 0 /\ spRetained = <<>>
    /\ spPass = [NoPass EXCEPT !.pc = "new"]
    /\ spClose = "no" /\ spDone = FALSE /\ spFaults = 0 /\ spImproves = 0

P(r) == spPass' = r
At(pc) == spPass.pc = pc
Stopped == spClose # "no"

closeVars == <<spClose, spDone>>
pathVars == <<spTr, spBound, spLast, spRetained>>
bounds == <<spFaults, spImproves>>

Fault == spFaults < MaxFaults /\ spFaults' = spFaults + 1

\* Start and run.  A start that cannot send the capability may be repeated,
\* unless that has stopped the agreement.
Start ==
    /\ At("new") /\ ~Stopped
    /\ \/ /\ transition("capability")
          /\ P([NoPass EXCEPT !.who = "run", !.pc = "try", !.i = 1])
          /\ UNCHANGED spFaults
       \/ /\ Fault
          /\ transition("failed")
          /\ P(IF Agreement THEN NoPass ELSE spPass)
    /\ UNCHANGED <<pathVars, closeVars, spImproves>>

\* shouldImproveBoundPath: no path of the bound transport is protected.
shouldImproveBoundPath ==
    /\ spTr[spLast].kind # "protected"
    /\ \A id \in Ids(spTr[spLast].members): spTr[id].kind # "protected"

\* ImproveProtectedDirect, once it holds executeMu; the engine asks for it when
\* the path should improve, or when the peer forces it.
Improve ==
    /\ At("idle") /\ Multipath /\ spState = "bound" /\ spImproves < MaxImproves
    /\ spLast = 0 \/ Forced \/ shouldImproveBoundPath
    /\ spImproves' = spImproves + 1
    /\ transition("capability")
    /\ P([NoPass EXCEPT !.who = "improve", !.pc = "try", !.i = 1])
    /\ UNCHANGED <<pathVars, closeVars, spFaults>>

\* The capability of an improvement is not sent, which stops the agreement for
\* good: no later pass begins.
ImproveUnsent ==
    /\ At("idle") /\ Multipath /\ spState = "bound" /\ spImproves < MaxImproves
    /\ Fault
    /\ spImproves' = IF Agreement THEN MaxImproves ELSE spImproves + 1
    /\ UNCHANGED <<spState, pathVars, spPass, closeVars>>

\* The pass ends: fail, or the state ImproveProtectedDirect restores.
Finish(state) ==
    /\ P(NoPass)
    /\ spState' = IF spPass.who = "run" THEN After(state, "failed")
                  ELSE IF state \in {"bound", "closed"} THEN state ELSE After(state, "bound")

Skips(i) == spPass.who = "improve" /\ ~Strategies[i].direct

\* The head of the loops over the strategies.
TryStrategy ==
    /\ At("try") /\ spPass.i <= Len(Strategies)
    /\ \/ /\ Skips(spPass.i)
          /\ P([spPass EXCEPT !.i = @ + 1])
          /\ UNCHANGED spState
       \/ /\ ~Skips(spPass.i) /\ spPass.primary
          /\ protectedDirectSearchComplete(spPass.all, spPass.i)
          /\ P([spPass EXCEPT !.pc = "choose"])
          /\ UNCHANGED spState
       \/ /\ ~Skips(spPass.i)
          /\ ~(spPass.primary /\ protectedDirectSearchComplete(spPass.all, spPass.i))
          /\ ~(Agreement /\ Stopped)
          /\ spState' = After(After(spState, "selecting"), "planning")
          /\ P([spPass EXCEPT !.pc = "plan", !.plan = 1, !.outs = <<>>])
       \/ /\ ~Skips(spPass.i) /\ Agreement /\ Stopped
          /\ IF spPass.primary THEN P([spPass EXCEPT !.pc = "choose"]) /\ UNCHANGED spState
             ELSE Finish(spState)
    /\ UNCHANGED <<pathVars, closeVars, bounds>>

\* No strategy is left.
OutOfStrategies ==
    /\ At("try") /\ spPass.i > Len(Strategies)
    /\ IF spPass.primary THEN P([spPass EXCEPT !.pc = "choose"]) /\ UNCHANGED spState
       ELSE Finish(spState)
    /\ UNCHANGED <<pathVars, closeVars, bounds>>

Kinds(i) == IF Strategies[i].direct THEN {"relay", "direct", "protected"} ELSE {"relay"}

\* executeCandidateLoop: the plans in their order, one outcome each.
CandidatesLeft == spPass.plan <= Strategies[spPass.i].plans

\* executeCandidate, and one plan of executeCandidateGroup: a plan may succeed
\* although its context has just ended.
ExecuteCandidate ==
    /\ At("plan") /\ CandidatesLeft
    /\ transition("executing")
    /\ \/ /\ P([spPass EXCEPT !.plan = @ + 1, !.outs = Append(@, Outcome(0, FALSE))])
          /\ UNCHANGED spTr
       \/ \E kind \in Kinds(spPass.i):
            /\ spTr' = Append(spTr, [open |-> TRUE, kind |-> kind,
                                     key |-> <<0, spPass.i, kind>>, members |-> <<>>])
            /\ P([spPass EXCEPT !.plan = @ + 1,
                                !.outs = Append(@, Outcome(Len(spTr) + 1, FALSE))])
    /\ UNCHANGED <<spBound, spLast, spRetained, closeVars, bounds>>

\* A strategy without a usable outcome: its transports are closed, the next
\* strategy is tried unless the context has ended.
NextStrategy == P([spPass EXCEPT !.pc = "try", !.i = @ + 1, !.outs = <<>>])

GiveUpStrategy ==
    IF spDone THEN Finish(spState) ELSE NextStrategy /\ UNCHANGED spState

\* The end of executeStrategyOutcomes, when the plans are tried or the time
\* budget is spent, and what its three callers do.
Evaluate ==
    LET outs == spPass.outs
        best == SelectBest(outs)
        usable == IF spPass.who = "improve" THEN selectProtectedDirectOutcome(outs) ELSE best
        all == spPass.all \o outs
        offset == Len(spPass.all)
    IN
    /\ At("plan")
    /\ \/ /\ (Agreement /\ Stopped) \/ usable = 0
          /\ spTr' = CloseAll(spTr, Ids(outs))
          /\ GiveUpStrategy
       \/ /\ ~(Agreement /\ Stopped) /\ usable # 0
          /\ UNCHANGED <<spTr, spState>>
          /\ IF ~Multipath
             THEN P([spPass EXCEPT !.pc = "select", !.best = best])
             ELSE IF spPass.who = "improve"
             THEN P([spPass EXCEPT !.pc = "combine"])
             ELSE IF BindFirst(outs[best])
             THEN P([spPass EXCEPT !.pc = "select", !.outs = all, !.best = best + offset])
             ELSE P([spPass EXCEPT !.pc = "try", !.i = @ + 1, !.outs = <<>>, !.all = all,
                                   !.primary = TRUE])
    /\ UNCHANGED <<spBound, spLast, spRetained, closeVars, bounds>>

\* The end of selectAndExecuteProtectedDirect.
ChoosePrimary ==
    /\ At("choose")
    /\ P([spPass EXCEPT !.pc = "select", !.outs = spPass.all, !.best = SelectBest(spPass.all)])
    /\ UNCHANGED <<spState, pathVars, closeVars, bounds>>

\* bindProtectedDirectImprovement, currentBoundOutcome, prependOutcomeIfMissing: the bound path
\* stays first, borrowed.  What is selected is a copy of it (best = 0), which
\* is not recognised in the list.
Combine ==
    /\ At("combine")
    /\ IF desiredMultipathPathCount <= 1 \/ spLast = 0
       THEN P([spPass EXCEPT !.pc = "select", !.best = selectProtectedDirectOutcome(spPass.outs)])
       ELSE P([spPass EXCEPT !.pc = "select", !.best = 0, !.copy = spLast,
                             !.outs = (IF spTr[spLast].key \in Keys(spPass.outs) THEN <<>>
                                       ELSE <<Outcome(spLast, TRUE)>>) \o spPass.outs])
    /\ UNCHANGED <<spState, pathVars, closeVars, bounds>>

-----------------------------------------------------------------------------
(* bindOutcomeSet. *)

\* retainSuccessfulOutcomes: the protected path first, then in order, one of
\* each key, at most MaxPaths - 1.
Add(outs, kept, n) ==
    IF n = 0 \/ n = spPass.best \/ ~isSuccessfulOutcome(outs[n]) THEN kept
    ELSE IF outcomeKey(outs[n]) \in Keys(kept) THEN kept
    ELSE Append(kept, outs[n])

retainSuccessfulOutcomes(outs) ==
    LET first == Add(outs, <<>>, selectProtectedDirectOutcome(outs))
        kept[n \in 0..Len(outs)] ==
            IF n = 0 THEN first
            ELSE IF Len(kept[n - 1]) >= MaxPaths - 1 THEN kept[n - 1]
            ELSE Add(outs, kept[n - 1], n)
    IN IF ~Multipath \/ MaxPaths <= 1 THEN <<>> ELSE kept[Len(outs)]

\* closeUnusedOutcomes: neither selected, nor of a retained key, nor borrowed.
Unused(outs, retained) ==
    {outs[n].id: n \in {k \in 1..Len(outs):
        /\ isSuccessfulOutcome(outs[k]) /\ k # spPass.best /\ ~outs[k].borrowed
        /\ outcomeKey(outs[k]) \notin Keys(retained)}}

\* The choice, the bundle over what is retained, and the transports nobody
\* keeps.  Outcomes retained before are closed.
SelectPaths ==
    LET outs == spPass.outs
        best == IF spPass.best = 0 THEN Outcome(spPass.copy, TRUE) ELSE outs[spPass.best]
        retained == retainSuccessfulOutcomes(outs)
        bundled == retained # <<>>
        cleaned == CloseAll(CloseAll(spTr, Kept(spRetained)),
                            Unused(outs, retained))
        id == IF bundled THEN Len(spTr) + 1 ELSE best.id
    IN
    /\ At("select")
    /\ spTr' = IF ~bundled THEN cleaned
               ELSE Append(cleaned, [open |-> TRUE, kind |-> KindOf(best),
                                     key |-> [outcomeKey(best) EXCEPT ![1] = @ + 1],
                                     members |-> <<best>> \o retained])
    /\ spRetained' = IF bundled THEN <<>> ELSE retained
    /\ spLast' = id
    /\ transition("binding")
    /\ P([spPass EXCEPT !.pc = "bind", !.best = id])
    /\ UNCHANGED <<spBound, closeVars, bounds>>

\* An error of bindOutcomeSet: the next strategy, or the end of the pass.
BindFailed ==
    IF spPass.who = "run" /\ ~Multipath THEN GiveUpStrategy
    ELSE IF spPass.who = "run" THEN Finish(spState)
    ELSE P(NoPass) /\ UNCHANGED spState

Bind ==
    /\ At("bind")
    /\ \/ /\ spTr' = BindTransports(spTr, spPass.best, spBound)
          /\ spBound' = spPass.best
          /\ P([spPass EXCEPT !.pc = "commit"])
          /\ UNCHANGED <<spState, spRetained, spFaults>>
       \/ /\ spDone \/ spFaults < MaxFaults
          /\ spFaults' = IF spDone THEN spFaults ELSE spFaults + 1
          /\ spTr' = CloseAll(spTr, {spPass.best} \cup Kept(spRetained))
          /\ spRetained' = <<>>
          /\ BindFailed
          /\ UNCHANGED spBound
    /\ UNCHANGED <<spLast, closeVars, spImproves>>

\* sendPathCommit fails when the context has ended.
Commit ==
    /\ At("commit")
    /\ \/ /\ ~spDone
          /\ transition("bound")
          /\ P(NoPass)
          /\ UNCHANGED <<pathVars, spFaults>>
       \/ /\ spDone \/ spFaults < MaxFaults
          /\ spFaults' = IF spDone THEN spFaults ELSE spFaults + 1
          /\ spTr' = CloseAll(Unbind(spTr), {spPass.best} \cup Kept(spRetained))
          /\ spBound' = 0 /\ spRetained' = <<>> /\ spLast' = 0
          /\ BindFailed
    /\ UNCHANGED <<closeVars, spImproves>>

-----------------------------------------------------------------------------
(* Close, which runs beside the pass. *)

\* stopSelection, runCancel and StateClosed.  The context of an improvement is
\* cancelled by a goroutine of its own, perhaps later.
CloseBegins ==
    /\ spClose = "no"
    /\ spClose' = "unbind" /\ transition("closed")
    /\ spDone' = (spPass.who # "improve")
    /\ UNCHANGED <<pathVars, spPass, bounds>>

ImproveCancelled ==
    /\ Stopped /\ ~spDone
    /\ spDone' = TRUE
    /\ UNCHANGED <<spState, pathVars, spPass, spClose, bounds>>

CloseUnbinds ==
    /\ spClose = "unbind" /\ spClose' = "last"
    /\ spTr' = Unbind(spTr) /\ spBound' = 0
    /\ UNCHANGED <<spState, spLast, spRetained, spPass, spDone, bounds>>

CloseLast ==
    /\ spClose = "last" /\ spClose' = "retained"
    /\ spTr' = CloseAll(spTr, {spLast}) /\ spLast' = 0
    /\ UNCHANGED <<spState, spBound, spRetained, spPass, spDone, bounds>>

CloseRetained ==
    /\ spClose = "retained" /\ spClose' = "done"
    /\ spTr' = CloseAll(spTr, Kept(spRetained)) /\ spRetained' = <<>>
    /\ UNCHANGED <<spState, spBound, spLast, spPass, spDone, bounds>>

selectAndExecuteProtectedDirect == TryStrategy \/ Evaluate \/ ChoosePrimary
bindOutcomeSet == Bind \/ Commit
Close == CloseBegins \/ CloseUnbinds \/ CloseLast \/ CloseRetained

Next ==
    /\ UNCHANGED spConfig
    /\ \/ Start \/ Improve \/ ImproveUnsent \/ ImproveCancelled
       \/ selectAndExecuteProtectedDirect \/ OutOfStrategies \/ ExecuteCandidate
       \/ Combine \/ SelectPaths \/ bindOutcomeSet \/ Close

Spec == Init /\ [][Next]_vars

-----------------------------------------------------------------------------
(* Properties. *)

Open == {id \in 1..Len(spTr): spTr[id].open}
MemberIds(id) == Ids(spTr[id].members)
Within(ids) == ids \cup UNION {MemberIds(id): id \in ids}
Idle == spPass.who = "none"

\* A bound session carries the peer over the transport it remembers, which is
\* open with every path it is made of.
BoundIsUsable ==
    Idle /\ spState = "bound" =>
        /\ spBound # 0 /\ spBound = spLast
        /\ Within(Within({spBound})) \subseteq Open

\* A bundle reads no path twice but the bound one: an improvement keeps that
\* first and, when three paths are wanted, once more as a copy; then the bundle
\* owns both or borrows both.
MembersOwnedAlike ==
    \A id \in 1..Len(spTr):
        LET m == spTr[id].members IN
        \A n, k \in 1..Len(m): n < k /\ m[n].id = m[k].id =>
            n = 1 /\ MaxPaths > 2 /\ m[n].borrowed = m[k].borrowed

\* The transports the session still answers for.
Held == Within(Within(Within(({spBound} \cup Ids(spRetained)) \ {0})))

\* Another transport over the same path was made.
Twin(id) == \E k \in 1..Len(spTr): k # id /\ spTr[k].key = spTr[id].key

\* Between passes every open transport is bound, carried by the bound one or
\* retained: the cleanup of bindOutcomeSet is for the others.
CleanedUp == Idle /\ ~Stopped => Open \subseteq Held

\* What CleanedUp allows for in the code: only twins are forgotten.
NothingForgotten == Idle /\ ~Stopped => \A id \in Open \ Held: Twin(id)

PathsSafe == BoundIsUsable /\ MembersOwnedAlike /\ NothingForgotten
=============================================================================
