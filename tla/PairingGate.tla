----------------------------- MODULE PairingGate -----------------------------
(***************************************************************************)
(* The pairing admission gate of internal/governor/pairing_gate.go, and    *)
(* the loopback writer of loopback_termination.go, for one attempt lease.  *)
(*                                                                         *)
(* Commit burns the credential and hands out a CommittedAttempt; carrier   *)
(* goroutines consume it, ask before every emission and finish it; a       *)
(* watcher finishes it when its context, its expiry or the lease ends it.  *)
(* All of them meet in finish, where one terminal reason wins.  Every read *)
(* between two locks is a step of its own.                                 *)
(***************************************************************************)
EXTENDS Naturals, Sequences, FiniteSets

CONSTANTS
    Callers,        \* carrier goroutines
    Committer,      \* the goroutine inside Commit
    Watcher,        \* watchInvalidation
    CarrierReasons, \* reasons a carrier gives to Finish
    ContextErrors,  \* how a context may end
    ForeignTrips,   \* whether another process may trip the file
    Loopback,       \* the lease has a two-phase terminal
    None

Threads == Callers \cup {Committer, Watcher}

GateReasons == {"cancelled", "expired", "scope_changed"}

Reasons == CarrierReasons \cup GateReasons

ASSUME GateConstants ==
    /\ Committer \notin Callers /\ Watcher \notin Callers /\ Committer # Watcher
    /\ "success" \in CarrierReasons
    /\ ContextErrors \subseteq {"cancelled", "expired"}
    /\ Loopback \in BOOLEAN /\ ForeignTrips \in BOOLEAN
    /\ None \notin Threads \cup Reasons

VARIABLES
    world,      \* the contexts' errors, expiry, a trip file nobody noticed
    stopping,   \* the governor has begun to stop the lease, for any cause
    drain,      \* the drain Commit registered
    gate,       \* Commit has a receipt, and has returned the token
    token,      \* the CommittedAttempt
    auth,       \* the CommittedCarrierAuthorization
    writer,     \* the loopback writer: where it is, writerErr, and whether the
                \* network or the journal failed it
    journal,    \* this admission's terminal records; ledger.Finish was tried
    thread,     \* where each goroutine is
    history     \* a durablePairingTerminalError was returned; a check that
                \* began after the attempt had ended has passed

vars == <<world, stopping, drain, gate, token, auth, writer, journal, thread,
          history>>

-----------------------------------------------------------------------------
(* Threads *)

AtRest == [pc |-> "idle", op |-> None, reason |-> None, clean |-> TRUE,
           err |-> FALSE, passes |-> 0]

At(t, pc) == thread[t].pc = pc

Goto(t, pc) == thread' = [thread EXCEPT ![t].pc = pc]

\* Go on to finish(reason).  An ordinary Commit has no token yet and writes.
Fail(t, reason) ==
    thread' = [thread EXCEPT ![t].pc =
                   IF t = Committer /\ ~Loopback THEN "write" ELSE "choose",
                   ![t].reason = reason, ![t].clean = TRUE]

\* The operation returns.  BeforeFirstEmission unlocks; Commit and
\* ConsumeForCarrier make a witness when finish gave no error.
Return(t, ok) ==
    /\ thread' = [thread EXCEPT ![t] = [AtRest EXCEPT !.pc =
                      IF t \in Callers THEN "idle" ELSE "done"]]
    /\ auth' = [auth EXCEPT !.lock = IF @ = t THEN None ELSE @]
    /\ history' = [history EXCEPT !.witness =
                      @ \/ (ok /\ thread[t].op \in {"commit", "consume"})]

\* What validate would hold against the attempt, read all at once.
Ended(t) ==
    \/ token.chosen # None \/ world.ctx # None \/ world.expired
    \/ stopping \/ world.trip
    \/ world.call # None /\ t # Committer

\* A check begins to read the contexts.
Check(t) == [thread EXCEPT ![t].pc = "contexts", ![t].clean = ~Ended(t)]

Passed(t) == [history EXCEPT !.stale = @ \/ ~thread[t].clean]

-----------------------------------------------------------------------------
Init ==
    /\ world = [ctx |-> None, call |-> None, expired |-> FALSE, trip |-> FALSE]
    /\ stopping = FALSE
    /\ drain = "none"
    /\ gate = [burned |-> FALSE, token |-> FALSE]
    /\ token = [consumed |-> FALSE, hook |-> FALSE, chosen |-> None,
                finished |-> FALSE, err |-> FALSE]
    /\ auth = [made |-> FALSE, first |-> FALSE, lock |-> None]
    /\ writer = [pc |-> "none", err |-> FALSE, fault |-> FALSE]
    /\ journal = [records |-> <<>>, tried |-> FALSE]
    /\ thread = [t \in Threads |->
                    IF t = Committer
                    THEN [AtRest EXCEPT !.pc = "precheck", !.op = "commit"]
                    ELSE IF t = Watcher THEN [AtRest EXCEPT !.pc = "none"]
                    ELSE AtRest]
    /\ history = [witness |-> FALSE, stale |-> FALSE]

(* The environment: contexts end, time passes, the lease is stopped *)

Nobody == UNCHANGED <<drain, gate, token, auth, writer, journal, thread, history>>

\* The context given to Commit, or the one the carrier's calls use.
ContextEnds ==
    /\ \E err \in ContextErrors :
          \/ world.ctx = None /\ world' = [world EXCEPT !.ctx = err]
          \/ world.call = None /\ world' = [world EXCEPT !.call = err]
    /\ UNCHANGED stopping /\ Nobody

Expire ==
    /\ ~world.expired
    /\ world' = [world EXCEPT !.expired = TRUE]
    /\ UNCHANGED stopping /\ Nobody

\* Attempt, peer or governor Close, or a trip.
LeaseStops ==
    /\ ~stopping
    /\ stopping' = TRUE
    /\ UNCHANGED world /\ Nobody

\* The trip file is tripped or unreadable, and nobody has told the governor.
TripFileBlocks ==
    /\ ForeignTrips /\ ~world.trip
    /\ world' = [world EXCEPT !.trip = TRUE]
    /\ UNCHANGED stopping /\ Nobody

-----------------------------------------------------------------------------
(* Commit *)

\* precheckPairingAdmission; a fresh read of a blocking trip stops the lease.
Precheck ==
    /\ At(Committer, "precheck")
    /\ IF world.ctx # None \/ world.expired
       THEN Goto(Committer, "done") /\ UNCHANGED stopping
       ELSE /\ Goto(Committer, IF stopping \/ world.trip THEN "done" ELSE "register")
            /\ stopping' = (stopping \/ world.trip)
    /\ UNCHANGED <<world, drain, gate, token, auth, writer, journal, history>>

RegisterPairingDrain ==
    /\ At(Committer, "register")
    /\ drain' = IF stopping THEN drain ELSE "registered"
    /\ Goto(Committer, IF stopping THEN "done" ELSE "admit")
    /\ UNCHANGED <<world, stopping, gate, token, auth, writer, journal, history>>

\* ledger.Admit gives a receipt, or an error and the deferred Complete.
Admit ==
    /\ At(Committer, "admit")
    /\ \/ /\ gate' = [gate EXCEPT !.burned = TRUE]
          /\ thread' = Check(Committer)
          /\ UNCHANGED drain
       \/ /\ drain' = "complete"
          /\ Goto(Committer, "done")
          /\ UNCHANGED gate
    /\ UNCHANGED <<world, stopping, token, auth, writer, journal, history>>

-----------------------------------------------------------------------------
(* The carrier's operations *)

\* ConsumeForCarrier.  A token already finished is reported once it is.
Consume(t) ==
    /\ At(t, "idle") /\ gate.token
    /\ ~token.consumed
    /\ IF token.chosen # None
       THEN /\ thread' = [thread EXCEPT ![t].pc = "await", ![t].op = "consume",
                                        ![t].reason = token.chosen]
            /\ UNCHANGED token
       ELSE /\ thread' = [thread EXCEPT ![t].pc = "terminal", ![t].op = "consume"]
            /\ token' = [token EXCEPT !.consumed = TRUE]
    /\ UNCHANGED <<world, stopping, drain, gate, auth, writer, journal, history>>

MayLock(t) == At(t, "idle") /\ auth.made /\ auth.lock = None

\* BeforeFirstEmission keeps authorization.mu until it returns.
BeforeFirstEmission(t) ==
    /\ MayLock(t)
    /\ ~auth.first
    /\ auth' = [auth EXCEPT !.lock = t]
    /\ thread' = [thread EXCEPT ![t].pc = "terminal", ![t].op = "first"]
    /\ UNCHANGED <<world, stopping, drain, gate, token, writer, journal, history>>

CheckActive(t) ==
    /\ MayLock(t)
    /\ auth.first
    /\ thread' = [thread EXCEPT ![t].pc = "terminal", ![t].op = "check"]
    /\ UNCHANGED <<world, stopping, drain, gate, token, auth, writer, journal,
                   history>>

\* Before the first emission and any terminal reason.
RegisterLoopbackPreFinish(t) ==
    /\ MayLock(t)
    /\ Loopback /\ token.chosen = None /\ ~token.hook /\ ~auth.first
    /\ token' = [token EXCEPT !.hook = TRUE]
    /\ UNCHANGED <<world, stopping, drain, gate, auth, writer, journal, thread,
                   history>>

MayClaim(reason) == reason = "success" => auth.first

\* CommittedCarrierAuthorization.Finish
CarrierFinish(t, reason) ==
    /\ MayLock(t)
    /\ MayClaim(reason)
    /\ thread' = [thread EXCEPT ![t].pc = "choose", ![t].op = "finish",
                                ![t].reason = reason]
    /\ UNCHANGED <<world, stopping, drain, gate, token, auth, writer, journal,
                   history>>

-----------------------------------------------------------------------------
(* validate: four reads, under three locks *)

TerminalSeen == token.chosen # None

\* A terminal reason fails the check, once it is finished.
CheckTerminal(t) ==
    /\ At(t, "terminal")
    /\ IF TerminalSeen
       THEN token.finished /\ Fail(t, "scope_changed")
       ELSE thread' = Check(t)
    /\ UNCHANGED <<world, stopping, drain, gate, token, auth, writer, journal,
                   history>>

\* The token's context, then the caller's.
CheckContexts(t) ==
    /\ At(t, "contexts")
    /\ IF world.ctx # None THEN Fail(t, world.ctx)
       ELSE IF world.call # None /\ t # Committer THEN Fail(t, world.call)
       ELSE Goto(t, "expiry")
    /\ UNCHANGED <<world, stopping, drain, gate, token, auth, writer, journal,
                   history>>

ExpiryReason == "expired"

CheckExpiry(t) ==
    /\ At(t, "expiry")
    /\ IF world.expired THEN Fail(t, ExpiryReason) ELSE Goto(t, "lease")
    /\ UNCHANGED <<world, stopping, drain, gate, token, auth, writer, journal,
                   history>>

\* Under Governor.mu: the trip, read again from its file, and the lease.
CheckLeaseFails(t) ==
    /\ At(t, "lease")
    /\ stopping \/ world.trip
    /\ stopping' = TRUE
    /\ Fail(t, "cancelled")
    /\ UNCHANGED <<world, drain, gate, token, auth, writer, journal, history>>

\* The drain goes with the token.
DrainTransferred == drain

\* Commit checks twice before it starts the watcher and returns the token.
CommitPasses ==
    /\ At(Committer, "lease")
    /\ ~stopping /\ ~world.trip
    /\ IF thread[Committer].passes = 0
       THEN /\ thread' = [Check(Committer) EXCEPT ![Committer].passes = 1]
            /\ UNCHANGED <<gate, drain>>
       ELSE /\ thread' = [thread EXCEPT ![Committer] = [AtRest EXCEPT !.pc = "done"],
                                        ![Watcher].pc = "watch"]
            /\ gate' = [gate EXCEPT !.token = TRUE]
            /\ drain' = DrainTransferred
    /\ history' = Passed(Committer)
    /\ UNCHANGED <<world, stopping, token, auth, writer, journal>>

\* The operation succeeds.  Only a caller that holds authorization.mu reads
\* first, so the assignment is part of this step.
CheckPasses(t) ==
    /\ At(t, "lease") /\ t \in Callers
    /\ ~stopping /\ ~world.trip
    /\ thread' = [thread EXCEPT ![t] = AtRest]
    /\ auth' = [made  |-> auth.made \/ thread[t].op = "consume",
                first |-> auth.first \/ thread[t].op = "first",
                lock  |-> IF auth.lock = t THEN None ELSE auth.lock]
    /\ history' = Passed(t)
    /\ UNCHANGED <<world, stopping, drain, gate, token, writer, journal>>

-----------------------------------------------------------------------------
(* watchInvalidation *)

\* Mutant: the watcher has no timer.
WatchReasonsUntimed ==
    (IF stopping THEN {"cancelled"} ELSE {}) \cup ({world.ctx} \ {None})

WatchReasons ==
    (IF stopping THEN {"cancelled"} ELSE {}) \cup ({world.ctx} \ {None})
        \cup (IF world.expired THEN {"expired"} ELSE {})

\* select takes any ready case.
Watch ==
    /\ At(Watcher, "watch")
    /\ \/ token.finished /\ Goto(Watcher, "done")
       \/ \E reason \in WatchReasons : Fail(Watcher, reason)
    /\ UNCHANGED <<world, stopping, drain, gate, token, auth, writer, journal,
                   history>>

-----------------------------------------------------------------------------
(* finish *)

Lost == token.chosen # None

\* The first caller chooses the reason; in a loopback attempt it also starts
\* the writer.  Everyone else waits.
Choose(t) ==
    /\ At(t, "choose")
    /\ IF Lost
       THEN Goto(t, "await") /\ UNCHANGED <<token, writer>>
       ELSE /\ token' = [token EXCEPT !.chosen = thread[t].reason]
            /\ Goto(t, IF Loopback THEN "close" ELSE "write")
            /\ writer' = IF Loopback THEN [writer EXCEPT !.pc = "hook"] ELSE writer
    /\ UNCHANGED <<world, stopping, drain, gate, auth, journal, history>>

\* finish gives nil only for the reason that won, and if that was recorded.
Agreed(t) == thread[t].reason = token.chosen /\ ~token.err

Await(t) ==
    /\ At(t, "await")
    /\ token.finished
    /\ Return(t, Agreed(t))
    /\ UNCHANGED <<world, stopping, drain, gate, token, writer, journal>>

\* ledger.Finish: recorded, refused, or an error that may have left a record.
\* The same reason again is no error, another one is.
LedgerFinish(reason, err) ==
    \/ /\ journal.records = <<>>
       /\ journal' = [records |-> <<reason>>, tried |-> TRUE]
    \/ /\ err = (journal.records # <<reason>>)
       /\ journal' = [journal EXCEPT !.tried = TRUE]

\* Mutant: finish drops the error of the journal; Commit does not.
DroppedError(t, err) == err /\ t = Committer

FinishError(t, err) == err

WriteTerminal(t) ==
    /\ At(t, "write")
    /\ \E err \in BOOLEAN :
          /\ LedgerFinish(thread[t].reason, err)
          /\ thread' = [thread EXCEPT ![t].pc = "complete",
                                      ![t].err = FinishError(t, err)]
    /\ UNCHANGED <<world, stopping, drain, gate, token, auth, writer, history>>

\* Commit's deferred Complete is the last thing it does.
CompleteDrain(t) ==
    /\ At(t, "complete")
    /\ drain' = "complete"
    /\ IF t = Committer
       THEN Return(t, ~thread[t].err)
       ELSE Goto(t, "publish") /\ UNCHANGED <<auth, history>>
    /\ UNCHANGED <<world, stopping, gate, token, writer, journal>>

Published(t) == TRUE

Publish(t) ==
    /\ At(t, "publish")
    /\ token' = [token EXCEPT !.err = thread[t].err, !.finished = Published(t)]
    /\ Return(t, ~thread[t].err)
    /\ UNCHANGED <<world, stopping, drain, gate, writer, journal>>

-----------------------------------------------------------------------------
(* finishLoopback *)

CloseLoopbackAttempt(t) ==
    /\ At(t, "close")
    /\ stopping' = TRUE
    /\ Goto(t, "verdict")
    /\ UNCHANGED <<world, drain, gate, token, auth, writer, journal, history>>

\* The manager's verdict (Governor): good only if the accounting drain is
\* complete and neither the network nor the journal failed.
Verdict(t) ==
    /\ At(t, "verdict")
    /\ \/ drain = "complete" /\ ~writer.fault /\ Goto(t, "writer")
       \/ thread' = [thread EXCEPT ![t].pc = "publish", ![t].err = TRUE]
    /\ UNCHANGED <<world, stopping, drain, gate, token, auth, writer, journal,
                   history>>

WriterError == writer.err

\* After a good verdict, writerDone and writerErr.
AwaitWriter(t) ==
    /\ At(t, "writer")
    /\ writer.pc \in {"complete", "done"}
    /\ thread' = [thread EXCEPT ![t].pc = "publish", ![t].err = WriterError]
    /\ UNCHANGED <<world, stopping, drain, gate, token, auth, writer, journal,
                   history>>

\* The writer: the revocation hook, the network drain, the record, the drain.
WriterHook ==
    /\ writer.pc = "hook"
    /\ \E err \in BOOLEAN :
          /\ err => token.hook
          /\ writer' = [writer EXCEPT !.pc = "network", !.err = err]
    /\ UNCHANGED <<world, stopping, drain, gate, token, auth, journal, thread,
                   history>>

\* awaitLoopbackNetwork stops the lease itself, and may time out.
WriterNetwork ==
    /\ writer.pc = "network"
    /\ stopping' = TRUE
    /\ \E err \in BOOLEAN :
          writer' = [pc |-> "write", err |-> writer.err \/ err, fault |-> err]
    /\ UNCHANGED <<world, drain, gate, token, auth, journal, thread, history>>

WriterWrite ==
    /\ writer.pc = "write"
    /\ \E err \in BOOLEAN :
          /\ LedgerFinish(token.chosen, err)
          /\ writer' = [pc |-> "complete", err |-> writer.err \/ err,
                        fault |-> writer.fault \/ err]
    /\ UNCHANGED <<world, stopping, drain, gate, token, auth, thread, history>>

WriterCompletes ==
    /\ writer.pc = "complete"
    /\ writer' = [writer EXCEPT !.pc = "done"]
    /\ drain' = "complete"
    /\ UNCHANGED <<world, stopping, gate, token, auth, journal, thread, history>>

-----------------------------------------------------------------------------
CommitStep == Precheck \/ RegisterPairingDrain \/ Admit \/ CommitPasses

ValidateStep(t) ==
    \/ CheckTerminal(t) \/ CheckContexts(t) \/ CheckExpiry(t)
    \/ CheckLeaseFails(t) \/ CheckPasses(t)

FinishStep(t) ==
    \/ Choose(t) \/ Await(t) \/ WriteTerminal(t) \/ CompleteDrain(t)
    \/ Publish(t) \/ CloseLoopbackAttempt(t) \/ Verdict(t) \/ AwaitWriter(t)

\* What a goroutine does once it is inside a call.
ThreadStep(t) ==
    \/ FinishStep(t) \/ ValidateStep(t)
    \/ t = Committer /\ CommitStep
    \/ t = Watcher /\ Watch

WriterStep == WriterHook \/ WriterNetwork \/ WriterWrite \/ WriterCompletes

CarrierStep(t) ==
    \/ Consume(t) \/ RegisterLoopbackPreFinish(t)
    \/ BeforeFirstEmission(t) \/ CheckActive(t)
    \/ \E reason \in CarrierReasons : CarrierFinish(t, reason)

Next ==
    \/ ContextEnds \/ Expire \/ LeaseStops \/ TripFileBlocks
    \/ WriterStep
    \/ \E t \in Threads : ThreadStep(t)
    \/ \E t \in Callers : CarrierStep(t)

Spec == Init /\ [][Next]_vars

-----------------------------------------------------------------------------
(* Properties *)

ThreadStates ==
    {"idle", "none", "watch", "done", "precheck", "register", "admit",
     "terminal", "contexts", "expiry", "lease", "choose", "await", "write",
     "complete", "publish", "close", "verdict", "writer"}

ThreadRecords ==
    [pc : ThreadStates, op : {"commit", "consume", "first", "check", "finish", None},
     reason : Reasons \cup {None}, clean : BOOLEAN, err : BOOLEAN, passes : {0, 1}]

TypeOK ==
    /\ world \in [ctx : ContextErrors \cup {None}, call : ContextErrors \cup {None},
                  expired : BOOLEAN, trip : BOOLEAN]
    /\ stopping \in BOOLEAN
    /\ drain \in {"none", "registered", "complete"}
    /\ gate \in [burned : BOOLEAN, token : BOOLEAN]
    /\ token \in [consumed : BOOLEAN, hook : BOOLEAN, chosen : Reasons \cup {None},
                  finished : BOOLEAN, err : BOOLEAN]
    /\ auth \in [made : BOOLEAN, first : BOOLEAN, lock : Callers \cup {None}]
    /\ writer \in [pc : {"none", "hook", "network", "write", "complete", "done"},
                   err : BOOLEAN, fault : BOOLEAN]
    /\ journal \in [records : {<<>>} \cup {<<r>> : r \in Reasons}, tried : BOOLEAN]
    /\ thread \in [Threads -> ThreadRecords]
    /\ history \in [witness : BOOLEAN, stale : BOOLEAN]

\* "Only one terminal reason wins": whatever carrier, watcher and failing
\* checks say at the same time, the journal holds the reason that every caller
\* is told, and success only after the first emission was authorized.
OneTerminalWins ==
    /\ journal.records # <<>> /\ gate.token => journal.records = <<token.chosen>>
    /\ token.chosen = "success" => auth.first

\* The reads of validate add up to one check: a token, an authorization, a
\* first emission or a later one is granted only if, when its check began,
\* nothing had ended the attempt yet.
AuthorityIsFresh == ~history.stale

\* The drain that holds the lease, and so the owner of the journal, is given
\* back only after the terminal record of a burned credential was tried.
DrainAfterTerminal == gate.burned /\ drain = "complete" => journal.tried

\* A nil terminal error means the same to every caller: the record is in the
\* journal, the drain is complete, and the revocation hook did not fail.
NilErrorMeansDone ==
    token.finished /\ ~token.err =>
        journal.records = <<token.chosen>> /\ drain = "complete" /\ ~writer.err

\* PairingTerminalRecordedForAttempt attests only what the journal holds.
WitnessIsDurable == history.witness => journal.records # <<>>

\* What the gate promises while carriers, contexts, the watcher and the writer
\* of the terminal record overlap: one terminal, fresh authority, the drain after
\* the record, and no nil error or witness without it (pairing_gate.go).
AdmissionSafe ==
    /\ TypeOK /\ OneTerminalWins /\ AuthorityIsFresh
    /\ DrainAfterTerminal /\ NilErrorMeansDone /\ WitnessIsDurable

\* What must not last: a burned credential whose terminal record is not tried or
\* whose drain is not complete, and a caller that waits on a terminal in
\* progress, or on authorization.mu behind one who does.
BurnOpen == gate.burned /\ ~(journal.tried /\ drain = "complete")
Calling(t) == thread[t].pc # "idle"

-----------------------------------------------------------------------------
(* The inductive invariant: where the goroutines may be, and what each of    *)
(* them knows there.                                                         *)

\* Commit has not decided: precheckPairingAdmission to the second check.
Deciding == {"precheck", "register", "admit", "contexts", "expiry", "lease"}

\* Inside finish, as the caller whose reason was chosen.
Finishing == {"write", "complete", "publish", "close", "verdict", "writer"}

\* Until Commit returns the token, nobody else has anything to call; while it
\* decides, there is no terminal reason and no terminal record.
Placed(t) ==
    LET pc == thread[t].pc
    IN  /\ t \in Callers /\ ~gate.token => pc = "idle"
        /\ t = Watcher /\ ~gate.token => pc = "none"
        /\ t = Committer =>
              /\ pc \notin {"idle", "none", "watch", "terminal"}
              /\ gate.token => pc = "done"
              /\ pc \in Deciding => token.chosen = None /\ journal.records = <<>>
              /\ pc \in {"precheck", "register", "admit"} => ~gate.burned
              /\ pc \in {"precheck", "register"} => drain = "none"
              /\ pc = "admit" => drain = "registered"
              /\ pc \notin {"precheck", "register", "admit", "done"} => gate.burned

\* A check that began too late will see why: what ended the attempt stays.
WillSee(t) ==
    /\ At(t, "contexts") /\ ~thread[t].clean =>
          \/ world.ctx # None \/ (world.call # None /\ t # Committer)
          \/ world.expired \/ stopping \/ world.trip
    /\ At(t, "expiry") /\ ~thread[t].clean => world.expired \/ stopping \/ world.trip
    /\ At(t, "lease") /\ ~thread[t].clean => stopping \/ world.trip

\* The chosen reason is in the journal, and nothing is left to do.
Recorded ==
    /\ token.chosen # None /\ journal.records = <<token.chosen>>
    /\ drain = "complete" /\ ~writer.err /\ writer.pc \in {"none", "done"}

\* What a goroutine inside finish stands for.
Holds(t) ==
    LET r == thread[t]
    IN  /\ r.pc \in Finishing \cup {"choose", "await"} => r.reason # None
        /\ r.reason = "success" => auth.first
        /\ r.pc \in {"write", "complete"} => ~Loopback
        /\ r.pc \in {"close", "verdict", "writer"} => Loopback
        /\ r.pc = "publish" /\ t = Committer => Loopback
        /\ r.pc \in Finishing /\ (t # Committer \/ Loopback) =>
              token.chosen = r.reason /\ ~token.finished
        /\ r.pc = "complete" =>
              journal.tried /\ (~r.err => journal.records = <<r.reason>>)
        /\ r.pc = "publish" /\ ~r.err => Recorded
        /\ r.pc = "writer" => writer.pc = "done" /\ ~writer.fault /\ drain = "complete"

OneFinishes ==
    \A t, u \in Threads : thread[t].pc \in Finishing /\ thread[u].pc \in Finishing => t = u

\* The token, its writer and the journal's record of its reason.
TerminalSound ==
    /\ token.chosen = None => writer.pc = "none" /\ ~token.finished
    /\ token.chosen # None => gate.burned
    /\ token.chosen = "success" => auth.first
    /\ token.finished /\ ~token.err => Recorded
    /\ writer.pc # "none" => Loopback
    /\ writer.pc = "none" => ~writer.err /\ ~writer.fault
    /\ writer.pc \in {"complete", "done"} =>
          journal.tried /\ (~writer.fault => journal.records = <<token.chosen>>)
    /\ Loopback /\ gate.burned /\ drain = "complete" => writer.pc = "done"
    /\ journal.records # <<>> =>
          \/ journal.records = <<token.chosen>>
          \/ ~gate.token /\ ~Loopback /\ thread[Committer].pc \in {"complete", "done"}
    /\ gate.token => gate.burned
    /\ ~gate.token => ~auth.made /\ ~auth.first

IInv ==
    /\ TypeOK
    /\ \A t \in Threads : Placed(t) /\ WillSee(t) /\ Holds(t)
    /\ OneFinishes /\ TerminalSound
    /\ AuthorityIsFresh /\ DrainAfterTerminal /\ WitnessIsDurable
=============================================================================
