------------------------- MODULE SelectionAgreement --------------------------
(***************************************************************************)
(* Strategy selection between the two sessions of a peer pair:             *)
(* pkg/session/selection_agreement.go and selection_wire.go, and how       *)
(* lifecycle.go, selection.go and planning.go drive them.                  *)
(*                                                                         *)
(* Before a side executes a strategy, both propose a list of candidates    *)
(* for the next ordinal, compute the joint choice, and confirm its digest  *)
(* to each other.  The runner of a side (Start's goroutine or              *)
(* ImproveProtectedDirect, under executeMu) and the deliveries of messages *)
(* meet under agreement.mu; messages may be lost, repeated and reordered.  *)
(***************************************************************************)
EXTENDS Naturals, Sequences

CONSTANTS
    Initiator, Responder,
    Strategies,
    CandidateLists, \* candidate lists a resolver may give
    Factories,      \* strategies that are an ExecutorFactory
    DirectStrategies, \* strategyMayProduceDirect
    ReceiveLimit,   \* selectionReceiveLimit
    MaxRounds,      \* bound on the rounds of a side
    Nothing

Sides == {Initiator, Responder}

\* SelectionErrorClass, and what has no class of its own
Classes == {"missing", "timeout", "conflict", "disjoint", "invalid",
            "previous_active", "closed", "cleanup", "io", "foreign"}

ASSUME SelectionConstants ==
    /\ Initiator # Responder
    /\ CandidateLists \subseteq Seq(Strategies) \ {<<>>}
    /\ ReceiveLimit \in Nat /\ MaxRounds \in Nat
    /\ Nothing \notin Strategies \cup Classes

VARIABLES
    run,        \* the runner: where it is, whether it sleeps in a select, the
                \* candidates left to try, whether this round opens a pass, and
                \* whether the pass is an ImproveProtectedDirect
    agr,        \* err, whether the peer's capability is known, whether the
                \* deadline has passed, the token in the channel changed
    round,      \* current; n counts rounds from 1, and 0 is no round yet
    box,        \* current.remote
    future,     \* the inbox of the next round
    work,       \* the last strategy entered and its round: not yet closed,
                \* executing, or with a failed cleanup; and whether a path is held
    sent        \* every message ever sent

vars == <<run, agr, round, box, future, work, sent>>

-----------------------------------------------------------------------------
Peer(s) == IF s = Initiator THEN Responder ELSE Initiator

EmptyBox == [proposal |-> Nothing, confirm |-> Nothing, received |-> 0]

\* Mutant: each side puts its own proposal first.
JointMineFirst(s, prev, mine, theirs) == Append(prev, <<mine, theirs>>)

\* A digest hashes both proposals, and through Previous all rounds before: it
\* is the sequence of agreed pairs, the initiator's offer first.
Joint(s, prev, mine, theirs) ==
    Append(prev, IF s = Initiator THEN <<mine, theirs>> ELSE <<theirs, mine>>)

\* jointSelection: the initiator's order, of what both offer.
Common(mine, theirs) ==
    LET upTo[i \in 0 .. Len(mine)] ==
            IF i = 0 THEN <<>>
            ELSE IF \E j \in DOMAIN theirs : theirs[j] = mine[i]
            THEN Append(upTo[i - 1], mine[i])
            ELSE upTo[i - 1]
    IN  upTo[Len(mine)]

Order(digest) == LET last == digest[Len(digest)] IN Common(last[1], last[2])

At(s, pc) == run[s].pc = pc

Goto(s, pc) == run' = [run EXCEPT ![s].pc = pc, ![s].asleep = FALSE]

Failed(s) == agr[s].err # Nothing

\* stopLocked: the first error stays, and the inboxes are emptied.
StopLocked(s, class) ==
    IF Failed(s) THEN UNCHANGED <<agr, box, future>>
    ELSE /\ agr' = [agr EXCEPT ![s].err = class, ![s].woken = TRUE]
         /\ box' = [box EXCEPT ![s] = EmptyBox]
         /\ future' = [future EXCEPT ![s] = EmptyBox]

\* The runner returns; a path that it holds already stays or becomes bound.
Home(s) == IF work[s].held THEN "bound" ELSE "ended"

Abort(s, class) == StopLocked(s, class) /\ Goto(s, Home(s))

Send(m) == sent' = sent \cup {m}

-----------------------------------------------------------------------------
Init ==
    /\ run = [s \in Sides |-> [pc |-> "new", asleep |-> FALSE, queue |-> <<>>,
                               pass |-> TRUE, improving |-> FALSE]]
    /\ agr = [s \in Sides |-> [err |-> Nothing, heard |-> FALSE, late |-> FALSE,
                               woken |-> FALSE]]
    /\ round = [s \in Sides |-> [n |-> 0, offer |-> <<>>, prev |-> <<>>,
                                 digest |-> <<>>, strategy |-> Nothing,
                                 confirmed |-> FALSE, entered |-> FALSE]]
    /\ box = [s \in Sides |-> EmptyBox]
    /\ future = [s \in Sides |-> EmptyBox]
    /\ work = [s \in Sides |-> [n |-> 0, strategy |-> Nothing,
                                open |-> FALSE, running |-> FALSE,
                                broken |-> FALSE, held |-> FALSE]]
    /\ sent = {}

\* Start, and ImproveProtectedDirect on a bound session: beginSelectionPass and
\* sendCapability, which may fail.
BeginPass(s) ==
    /\ At(s, "new") \/ At(s, "bound")
    /\ ~Failed(s)
    /\ At(s, "bound") => round[s].n < MaxRounds
    /\ \/ /\ Send([type |-> "capability", from |-> s])
          /\ run' = [run EXCEPT ![s].pc = "capability",
                               ![s].improving = At(s, "bound")]
          /\ agr' = [agr EXCEPT ![s].late = FALSE]
          /\ UNCHANGED <<box, future>>
       \/ Abort(s, "io") /\ UNCHANGED sent
    /\ UNCHANGED <<round, work>>

\* waitForSelectionCapability, awake
ReadCapability(s) ==
    /\ At(s, "capability") /\ ~run[s].asleep
    /\ IF Failed(s) THEN Goto(s, Home(s)) /\ UNCHANGED <<agr, box, future>>
       ELSE IF agr[s].late /\ (~agr[s].heard \/ round[s].n > 0)
            THEN Abort(s, "missing")
       ELSE IF agr[s].heard THEN Goto(s, "resolve") /\ UNCHANGED <<agr, box, future>>
       ELSE run' = [run EXCEPT ![s].asleep = TRUE] /\ UNCHANGED <<agr, box, future>>
    /\ UNCHANGED <<round, work, sent>>

\* The selects: the token of changed ...
TakeToken(s) ==
    /\ run[s].asleep /\ agr[s].woken
    /\ agr' = [agr EXCEPT ![s].woken = FALSE]
    /\ run' = [run EXCEPT ![s].asleep = FALSE]
    /\ UNCHANGED <<round, box, future, work, sent>>

\* ... or the deadline.  Only the wait for the capability looks again; the
\* others end, also because the agreement has.
TakeDeadline(s) ==
    /\ run[s].asleep
    /\ \/ /\ At(s, "capability") /\ agr[s].late
          /\ run' = [run EXCEPT ![s].asleep = FALSE]
          /\ UNCHANGED <<agr, box, future>>
       \/ /\ ~At(s, "capability") /\ (agr[s].late \/ Failed(s))
          /\ Abort(s, "timeout")
    /\ UNCHANGED <<round, work, sent>>

-----------------------------------------------------------------------------
(* agreeCandidates *)

\* requirePreviousSelectionClosed
PreviousClosed(s) ==
    /\ ~work[s].broken /\ ~work[s].running
    /\ work[s].open => work[s].strategy \in Factories

NextInbox(s) == EmptyBox

\* The next round, with what has already arrived for it.  The first round and
\* a single candidate have a deadline of their own, a pass has the pass's.
BeginRound(s, offer, pass, queue) ==
    IF Failed(s) \/ ~PreviousClosed(s)
    THEN Abort(s, "previous_active") /\ UNCHANGED round
    ELSE /\ round' = [round EXCEPT ![s] =
                [n |-> round[s].n + 1, offer |-> offer, prev |-> round[s].digest,
                 digest |-> <<>>, strategy |-> Nothing, confirmed |-> FALSE,
                 entered |-> FALSE]]
         /\ run' = [run EXCEPT ![s].pc = "propose", ![s].queue = queue,
                               ![s].pass = pass]
         /\ agr' = [agr EXCEPT ![s].late = @ /\ pass /\ round[s].n > 0]
         /\ box' = [box EXCEPT ![s] = future[s]]
         /\ future' = [future EXCEPT ![s] = NextInbox(s)]

\* resolveStrategyCandidates.  A resolver that fails, and a list that names a
\* strategy outside either capability (agreeCandidates, before a round exists),
\* end the agreement; the code calls both a selection_conflict, here "disjoint"
\* keeps them apart from a conflict of the two ends.  A list that is not valid
\* ends only the pass.
Resolve(s) ==
    /\ At(s, "resolve")
    /\ round[s].n < MaxRounds
    /\ \/ \E offer \in CandidateLists : BeginRound(s, offer, TRUE, <<>>)
       \/ Abort(s, "disjoint") /\ UNCHANGED round
       \/ Goto(s, Home(s)) /\ UNCHANGED <<agr, box, future, round>>
    /\ UNCHANGED <<work, sent>>

Proposal(s) == [type |-> "proposal", from |-> s, n |-> round[s].n,
                prev |-> round[s].prev, offer |-> round[s].offer]

Confirmation(s) == [type |-> "confirm", from |-> s, n |-> round[s].n,
                    prev |-> round[s].prev, strategy |-> round[s].strategy,
                    digest |-> round[s].digest]

\* sendSelection, after the lock is released: it may fail, and it may still
\* succeed after the agreement has ended.
SendSelection(s, at, m, then) ==
    /\ At(s, at)
    /\ \/ Send(m) /\ Goto(s, then) /\ UNCHANGED <<agr, box, future>>
       \/ Abort(s, "io") /\ UNCHANGED sent
    /\ UNCHANGED <<round, work>>

SendProposal(s) == SendSelection(s, "propose", Proposal(s), "proposal")

SendConfirm(s) == SendSelection(s, "confirm", Confirmation(s), "confirmation")

\* The peer refused strategies outside the two capabilities before it proposed,
\* and the binding names those capabilities: only prev can differ.
ReadProposal(s) ==
    LET theirs == box[s].proposal
        digest == Joint(s, round[s].prev, round[s].offer, theirs.offer)
    IN  /\ At(s, "proposal") /\ ~run[s].asleep
        /\ IF Failed(s)
           THEN Goto(s, Home(s)) /\ UNCHANGED <<agr, box, future, round>>
           ELSE IF theirs = Nothing
           THEN /\ run' = [run EXCEPT ![s].asleep = TRUE]
                /\ UNCHANGED <<agr, box, future, round>>
           ELSE IF theirs.prev # round[s].prev
           THEN Abort(s, "conflict") /\ UNCHANGED round
           ELSE IF Order(digest) = <<>>
           THEN Abort(s, "disjoint") /\ UNCHANGED round
           ELSE /\ round' = [round EXCEPT ![s].digest = digest,
                                          ![s].strategy = Head(Order(digest))]
                /\ Goto(s, "confirm")
                /\ UNCHANGED <<agr, box, future>>
        /\ UNCHANGED <<work, sent>>

Confirms(s, m) ==
    /\ m.prev = round[s].prev /\ m.digest = round[s].digest
    /\ m.strategy = round[s].strategy

ConfirmMissing(s) == box[s].confirm = Nothing

ReadConfirm(s) ==
    /\ At(s, "confirmation") /\ ~run[s].asleep
    /\ IF Failed(s) THEN Goto(s, Home(s)) /\ UNCHANGED <<agr, box, future>>
       ELSE IF ConfirmMissing(s)
       THEN /\ run' = [run EXCEPT ![s].asleep = TRUE]
            /\ UNCHANGED <<agr, box, future>>
       ELSE IF box[s].confirm # Nothing => Confirms(s, box[s].confirm)
       THEN Goto(s, "commit") /\ UNCHANGED <<agr, box, future>>
       ELSE Abort(s, "conflict")
    /\ UNCHANGED <<round, work, sent>>

\* The last lock.  A pass tries the joint order; a single candidate's round
\* leaves the list as it is.
Commit(s) ==
    /\ At(s, "commit")
    /\ IF Failed(s) \/ agr[s].late
       THEN Abort(s, "timeout") /\ UNCHANGED round
       ELSE /\ round' = [round EXCEPT ![s].confirmed = TRUE]
            /\ run' = [run EXCEPT ![s].pc = "try",
                          ![s].queue = IF run[s].pass THEN Order(round[s].digest) ELSE @]
            /\ UNCHANGED <<agr, box, future>>
    /\ UNCHANGED <<work, sent>>

-----------------------------------------------------------------------------
(* The candidates of a pass: selectAndExecute, the protected-direct search   *)
(* and the search for an improvement                                         *)

Ready(s) ==
    /\ ~Failed(s) /\ round[s].confirmed /\ ~round[s].entered
    /\ round[s].strategy = Head(run[s].queue)

\* An improvement skips what cannot be direct; prepareCandidateAgreement
\* agrees again on every candidate but the one just confirmed.
Try(s) ==
    /\ At(s, "try")
    /\ IF run[s].queue = <<>>
       THEN Goto(s, Home(s)) /\ UNCHANGED <<agr, box, future, round>>
       ELSE IF run[s].improving /\ Head(run[s].queue) \notin DirectStrategies
       THEN /\ run' = [run EXCEPT ![s].queue = Tail(@)]
            /\ UNCHANGED <<agr, box, future, round>>
       ELSE IF Ready(s)
       THEN Goto(s, "enter") /\ UNCHANGED <<agr, box, future, round>>
       ELSE /\ round[s].n < MaxRounds
            /\ BeginRound(s, <<Head(run[s].queue)>>, FALSE, run[s].queue)
    /\ UNCHANGED <<work, sent>>

\* enterSelection; an error here is a failure of the candidate.
Enter(s) ==
    /\ At(s, "enter")
    /\ IF Failed(s) \/ agr[s].late
       THEN /\ StopLocked(s, "timeout") /\ Goto(s, "close")
            /\ UNCHANGED <<round, work>>
       ELSE /\ round' = [round EXCEPT ![s].entered = TRUE]
            /\ work' = [work EXCEPT ![s].n = round[s].n,
                                    ![s].strategy = round[s].strategy,
                                    ![s].open = TRUE, ![s].running = TRUE]
            /\ Goto(s, "executing")
            /\ UNCHANGED <<agr, box, future>>
    /\ UNCHANGED sent

\* executeStrategyOutcomes returns: the executors are closed first, and a
\* terminal error throws the outcomes away.  A path is bound, or the search for
\* a protected direct path keeps it and goes on.
ExecuteFails(s) ==
    /\ At(s, "executing")
    /\ work' = [work EXCEPT ![s].running = FALSE]
    /\ Goto(s, "close")
    /\ UNCHANGED <<agr, round, box, future, sent>>

ExecuteSucceeds(s) ==
    /\ At(s, "executing") /\ ~Failed(s)
    /\ work' = [work EXCEPT ![s].running = FALSE, ![s].held = TRUE]
    /\ \/ Goto(s, "bound")
       \/ /\ ~run[s].improving
          /\ run' = [run EXCEPT ![s].pc = "try", ![s].queue = Tail(@)]
    /\ UNCHANGED <<agr, round, box, future, sent>>

\* selectionCleanup: the Close of an executor fails or takes too long.
ExecutorCloseFails(s) ==
    /\ At(s, "executing") /\ work[s].strategy \in Factories
    /\ work' = [work EXCEPT ![s].broken = TRUE]
    /\ StopLocked(s, "cleanup") /\ Goto(s, "close")
    /\ UNCHANGED <<round, sent>>

\* closeSelectionStrategy of the candidate, which need not have been entered;
\* then the next candidate, unless the caller's context is over or the search
\* has enough paths.
CloseStrategy(s) ==
    /\ At(s, "close")
    /\ \/ /\ work' = [work EXCEPT ![s].open =
                       @ /\ work[s].strategy # Head(run[s].queue)]
          /\ UNCHANGED <<agr, box, future>>
       \/ /\ work' = [work EXCEPT ![s].broken = TRUE]
          /\ StopLocked(s, "cleanup")
    /\ \E pc \in {"try", Home(s)} :
          run' = [run EXCEPT ![s].pc = pc, ![s].queue = Tail(@)]
    /\ UNCHANGED <<round, sent>>

-----------------------------------------------------------------------------
(* Deliveries, deadlines and Close *)

Lookout == <<run, round, work, sent>>

\* receiveSelectionCapability: the first one must be in time.
ReceiveCapability(s, m) ==
    /\ m.type = "capability" /\ ~Failed(s)
    /\ IF ~agr[s].heard /\ agr[s].late
       THEN StopLocked(s, "missing")
       ELSE /\ agr' = [agr EXCEPT ![s].heard = TRUE, ![s].woken = TRUE]
            /\ UNCHANGED <<box, future>>

\* The inbox with one more message, if that is the same as any before.
Fits(b, m) ==
    /\ m.type = "proposal" => b.proposal \in {Nothing, m}
    /\ m.type = "confirm" => b.confirm \in {Nothing, m}

Put(b, m) ==
    [proposal |-> IF m.type = "proposal" THEN m ELSE b.proposal,
     confirm  |-> IF m.type = "confirm" THEN m ELSE b.confirm,
     received |-> b.received + 1]

WakeRunner(s) == [agr EXCEPT ![s].woken = TRUE]

OverLimit(b) == b.received >= ReceiveLimit

\* receiveSelectionControl: the current round or the next one.
ReceiveControl(s, m) ==
    LET current == m.n = round[s].n
        b       == IF current THEN box[s] ELSE future[s]
    IN  /\ m.type \in {"proposal", "confirm"} /\ ~Failed(s)
        /\ m.n >= round[s].n
        /\ IF m.n > round[s].n + 1 THEN StopLocked(s, "conflict")
           ELSE IF OverLimit(b) THEN StopLocked(s, "invalid")
           ELSE IF \/ ~Fits(b, m)
                   \/ /\ current /\ round[s].confirmed /\ m.type = "confirm"
                      /\ m.digest # round[s].digest \/ m.strategy # round[s].strategy
           THEN StopLocked(s, "conflict")
           ELSE /\ agr' = WakeRunner(s)
                /\ box' = IF current THEN [box EXCEPT ![s] = Put(b, m)] ELSE box
                /\ future' = IF current THEN future
                             ELSE [future EXCEPT ![s] = Put(b, m)]

Receive(s) ==
    /\ \E m \in sent :
          /\ m.from = Peer(s)
          /\ ReceiveCapability(s, m) \/ ReceiveControl(s, m)
    /\ UNCHANGED Lookout

DeadlinePasses(s) ==
    /\ ~At(s, "new") /\ ~agr[s].late
    /\ agr' = [agr EXCEPT ![s].late = TRUE]
    /\ UNCHANGED <<Lookout, box, future>>

\* Session.Close; or a message that does not decode, or is not of this peer,
\* session and epoch pair, whatever class the code gives it ("foreign").
StopSelection(s) ==
    /\ ~Failed(s)
    /\ \E class \in {"closed", "foreign"} : StopLocked(s, class)
    /\ UNCHANGED Lookout

-----------------------------------------------------------------------------
agreeCandidates(s) ==
    SendProposal(s) \/ ReadProposal(s) \/ SendConfirm(s) \/ ReadConfirm(s) \/ Commit(s)
RunnerStep(s) ==
    \/ ReadCapability(s) \/ TakeToken(s) \/ TakeDeadline(s) \/ Resolve(s)
    \/ agreeCandidates(s) \/ Try(s) \/ Enter(s)
    \/ ExecuteFails(s) \/ ExecuteSucceeds(s) \/ ExecutorCloseFails(s)
    \/ CloseStrategy(s)

Next ==
    \E s \in Sides :
        \/ BeginPass(s) \/ RunnerStep(s)
        \/ Receive(s) \/ DeadlinePasses(s) \/ StopSelection(s)

Spec == Init /\ [][Next]_vars

-----------------------------------------------------------------------------
(* Properties *)

RunnerStates ==
    {"new", "capability", "resolve", "propose", "proposal", "confirm",
     "confirmation", "commit", "try", "enter", "executing", "close", "bound",
     "ended"}

Lists == Seq(Strategies)

Digests == Seq(Lists \X Lists)

Proposals == [type : {"proposal"}, from : Sides, n : Nat, prev : Digests,
              offer : Lists]

Confirmations == [type : {"confirm"}, from : Sides, n : Nat, prev : Digests,
                  strategy : Strategies, digest : Digests]

Boxes == [proposal : Proposals \cup {Nothing}, confirm : Confirmations \cup {Nothing},
          received : 0 .. ReceiveLimit]

TypeOK ==
    /\ run \in [Sides -> [pc : RunnerStates, asleep : BOOLEAN, queue : Lists,
                          pass : BOOLEAN, improving : BOOLEAN]]
    /\ agr \in [Sides -> [err : Classes \cup {Nothing}, heard : BOOLEAN,
                          late : BOOLEAN, woken : BOOLEAN]]
    /\ round \in [Sides -> [n : 0 .. MaxRounds, offer : Lists, prev : Digests,
                            digest : Digests, strategy : Strategies \cup {Nothing},
                            confirmed : BOOLEAN, entered : BOOLEAN]]
    /\ box \in [Sides -> Boxes] /\ future \in [Sides -> Boxes]
    /\ work \in [Sides -> [n : 0 .. MaxRounds, strategy : Strategies \cup {Nothing},
                           open : BOOLEAN, running : BOOLEAN, broken : BOOLEAN,
                           held : BOOLEAN]]
    /\ sent \subseteq [type : {"capability"}, from : Sides] \cup Proposals
                          \cup Confirmations

\* "Each (epoch pair, ordinal) has one immutable commitment", on both sides
\* together: whatever arrives when, no two confirmations of one ordinal name
\* different digests or strategies.
OneCommitment ==
    \A c, d \in sent :
        c.type = "confirm" /\ d.type = "confirm" /\ c.n = d.n =>
            c.digest = d.digest /\ c.strategy = d.strategy

\* A side executes only what both sides have computed and confirmed, and while
\* it executes one ordinal the other side has nothing of another ordinal left
\* executing or, unless its executors are a factory's, unclosed.
ExecutesTogether ==
    \A s \in Sides : work[s].running =>
        /\ \A p \in Sides : \E c \in sent :
              /\ c.type = "confirm" /\ c.from = p /\ c.n = work[s].n
              /\ c.digest = round[s].digest /\ c.strategy = work[s].strategy
        /\ LET other == work[Peer(s)]
           IN  other.running \/ (other.open /\ other.strategy \notin Factories)
                  => other.n = work[s].n

\* Loss, repetition and reordering alone never make two honest sides accuse
\* each other: a conflict is never found between messages of one epoch pair.
NoFalseConflict == \A s \in Sides : agr[s].err # "conflict"

\* A runner never sleeps on what it waits for: with nothing in the channel
\* changed, there is nothing to see.
WakeNotLost ==
    \A s \in Sides : run[s].asleep /\ ~agr[s].woken =>
        /\ ~Failed(s)
        /\ At(s, "capability") => ~agr[s].heard
        /\ At(s, "proposal") => box[s].proposal = Nothing
        /\ At(s, "confirmation") => box[s].confirm = Nothing

\* What the agreement promises whatever is lost, repeated and reordered: one
\* commitment of an ordinal, executed together, no false conflict and no lost
\* wake-up (selection_agreement.go, selection_wire.go).
SelectionSafe ==
    TypeOK /\ OneCommitment /\ ExecutesTogether /\ NoFalseConflict /\ WakeNotLost

\* What must not last: a negotiation, whatever the other side does and however
\* often its messages are repeated.
Negotiating(s) ==
    run[s].pc \in {"capability", "resolve", "propose", "proposal", "confirm", "confirmation",
                   "commit"}
-----------------------------------------------------------------------------
(* The inductive invariant, over the messages ms that have been sent.        *)

Negotiation == {"propose", "proposal", "confirm", "confirmation", "commit"}

\* The proposals of both sides for ordinal n, on top of prev, make the digest,
\* and the digest names the strategy.
Agreed(ms, n, prev, digest, strategy) ==
    \E i, r \in ms :
        /\ i.type = "proposal" /\ i.from = Initiator /\ i.n = n /\ i.prev = prev
        /\ r.type = "proposal" /\ r.from = Responder /\ r.n = n /\ r.prev = prev
        /\ digest = Append(prev, <<i.offer, r.offer>>)
        /\ strategy = Head(Order(digest)) /\ strategy \in Strategies

Confirmed(ms, p, n, digest, strategy) ==
    \E c \in ms : /\ c.type = "confirm" /\ c.from = p /\ c.n = n
                  /\ c.digest = digest /\ c.strategy = strategy

\* What ordinal n builds on has been confirmed by p.
Chained(ms, p, n, prev) ==
    IF n = 1 THEN prev = <<>>
    ELSE \E c \in ms : /\ c.type = "confirm" /\ c.from = p /\ c.n + 1 = n
                       /\ c.digest = prev

\* A side sends one proposal for an ordinal it has reached, and only once the
\* other has confirmed the ordinal before; it confirms what both proposed.
MessagesSound ==
    /\ \A m \in sent : m.type \in {"proposal", "confirm"} => m.n \in 1 .. round[m.from].n
    /\ \A m \in sent : m.type = "proposal" => Chained(sent, Peer(m.from), m.n, m.prev)
    /\ \A m \in sent : m.type = "confirm" => Agreed(sent, m.n, m.prev, m.digest, m.strategy)
    /\ \A m, k \in sent :
          m.type = "proposal" /\ k.type = "proposal" /\ m.from = k.from /\ m.n = k.n => m = k

\* What the round r of side s stands for while its runner is at q.
RoundSound(ms, s, r, q, failed) ==
    /\ r.n >= 1 => Chained(ms, Peer(s), r.n, r.prev)
    /\ r.n = 0 => r.digest = <<>> /\ ~r.confirmed
    /\ q.pc \in Negotiation => r.n >= 1 /\ ~r.confirmed
    /\ q.pc \notin Negotiation /\ ~failed => r.n = 0 \/ r.confirmed
    /\ q.pc = "enter" => r.confirmed
    /\ q.pc = "propose" => \A m \in ms : m.type = "proposal" /\ m.from = s => m.n < r.n
    /\ q.pc = "proposal" =>
          [type |-> "proposal", from |-> s, n |-> r.n, prev |-> r.prev, offer |-> r.offer] \in ms
    /\ q.pc \in {"confirm", "confirmation", "commit"} \/ r.confirmed =>
          Agreed(ms, r.n, r.prev, r.digest, r.strategy)
    /\ q.pc \in {"confirmation", "commit"} \/ r.confirmed =>
          Confirmed(ms, s, r.n, r.digest, r.strategy)
    /\ q.pc = "commit" \/ r.confirmed =>
          Confirmed(ms, Peer(s), r.n, r.digest, r.strategy)
    /\ q.pc \in {"enter", "executing", "close"} => q.queue # <<>>
    /\ q.asleep => q.pc \in {"capability", "proposal", "confirmation"}

\* An inbox of s holds messages of the other side for its ordinal.
BoxSound(ms, s, b, n) ==
    /\ b.proposal # Nothing => /\ b.proposal \in ms /\ b.proposal.type = "proposal"
                               /\ b.proposal.from = Peer(s) /\ b.proposal.n = n
    /\ b.confirm # Nothing => /\ b.confirm \in ms /\ b.confirm.type = "confirm"
                              /\ b.confirm.from = Peer(s) /\ b.confirm.n = n

\* What executes, or is left open by a strategy that is no factory, is of the
\* current round, which is confirmed.
WorkSound(r, w) ==
    w.running \/ (w.open /\ w.strategy \notin Factories) =>
        r.confirmed /\ w.n = r.n /\ w.strategy = r.strategy

SideSound(s) ==
    /\ RoundSound(sent, s, round[s], run[s], Failed(s))
    /\ BoxSound(sent, s, box[s], round[s].n) /\ BoxSound(sent, s, future[s], round[s].n + 1)
    /\ WorkSound(round[s], work[s])

IInv == /\ TypeOK /\ MessagesSound /\ \A s \in Sides : SideSound(s)
        /\ NoFalseConflict /\ WakeNotLost
=============================================================================
