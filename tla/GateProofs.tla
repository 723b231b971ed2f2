------------------------------ MODULE GateProofs ------------------------------
(***************************************************************************)
(* Proofs about what stands between an attempt and its sockets: the        *)
(* pairing admission gate, for any number of carrier goroutines, any       *)
(* terminal reasons and both kinds of lease; the probe controller, for any *)
(* number of sockets and targets; and the WireGuard session gate, for any  *)
(* number of faults and any device.                                        *)
(***************************************************************************)
EXTENDS PairingGate, ProbeController, WireGuardGate, FiniteSetTheorems, TLAPS


\* The reasons of the gate are reasons, and none of them claims a success.
LEMMA GateReasonsFail ==
    /\ GateReasons \subseteq Reasons /\ "success" \notin GateReasons
    /\ ContextErrors \subseteq GateReasons /\ CarrierReasons \subseteq Reasons
    /\ None \notin Reasons /\ None \notin Callers /\ None # "success"
    /\ None \notin ContextErrors
BY GateConstants DEF GateReasons, Reasons, Threads

\* The goroutines are the carriers and two others.
LEMMA Goroutines ==
    /\ Committer \in Threads /\ Watcher \in Threads /\ Callers \subseteq Threads
    /\ Committer \notin Callers /\ Watcher \notin Callers /\ Committer # Watcher
    /\ \A t \in Threads : t \in Callers \/ t = Committer \/ t = Watcher
BY GateConstants DEF Threads

\* A journal with a record is not an empty one.
LEMMA NotEmpty == \A x : <<x>> # <<>>
OBVIOUS

\* What a goroutine's step does to the table of goroutines.
LEMMA GotoEffect ==
    ASSUME TypeOK, NEW t \in Threads, NEW pc \in ThreadStates, Goto(t, pc)
    PROVE  /\ thread' \in [Threads -> ThreadRecords]
           /\ \A u \in Threads : u # t => thread'[u] = thread[u]
           /\ thread'[t].pc = pc /\ thread'[t].op = thread[t].op
           /\ thread'[t].reason = thread[t].reason /\ thread'[t].clean = thread[t].clean
           /\ thread'[t].err = thread[t].err
<1>1. thread[t] \in ThreadRecords BY DEF TypeOK
<1>2. thread' = [thread EXCEPT ![t] = [thread[t] EXCEPT !.pc = pc]] BY DEF Goto, TypeOK
<1>3. [thread[t] EXCEPT !.pc = pc] \in ThreadRecords BY <1>1 DEF ThreadRecords
<1>4. thread' \in [Threads -> ThreadRecords] BY <1>2, <1>3 DEF TypeOK
<1>5. thread'[t] = [thread[t] EXCEPT !.pc = pc] BY <1>2 DEF TypeOK
<1>6. \A u \in Threads : u # t => thread'[u] = thread[u] BY <1>2 DEF TypeOK
<1>7. QED BY <1>1, <1>4, <1>5, <1>6 DEF ThreadRecords

\* Fail goes on to finish with a reason.
LEMMA FailEffect ==
    ASSUME TypeOK, NEW t \in Threads, NEW reason \in Reasons, Fail(t, reason)
    PROVE  /\ thread' \in [Threads -> ThreadRecords]
           /\ \A u \in Threads : u # t => thread'[u] = thread[u]
           /\ thread'[t].pc = IF t = Committer /\ ~Loopback THEN "write" ELSE "choose"
           /\ thread'[t].op = thread[t].op /\ thread'[t].reason = reason
           /\ thread'[t].clean = TRUE
<1> DEFINE pc == IF t = Committer /\ ~Loopback THEN "write" ELSE "choose"
           r == [thread[t] EXCEPT !.pc = pc, !.reason = reason, !.clean = TRUE]
<1>1. thread[t] \in ThreadRecords BY DEF TypeOK
<1>0. pc \in {"write", "choose"} OBVIOUS
<1>2. thread' = [thread EXCEPT ![t] = r] BY DEF Fail, TypeOK
<1> HIDE DEF pc
<1>3. /\ r \in ThreadRecords /\ r.pc = pc /\ r.op = thread[t].op /\ r.reason = reason
      /\ r.clean = TRUE
    BY <1>0, <1>1 DEF ThreadRecords, ThreadStates
<1> HIDE DEF r
<1>4. thread' \in [Threads -> ThreadRecords] BY <1>2, <1>3 DEF TypeOK
<1>5. thread'[t] = r /\ \A u \in Threads : u # t => thread'[u] = thread[u] BY <1>2 DEF TypeOK
<1>6. QED BY <1>3, <1>4, <1>5 DEF pc

\* A call returns: the goroutine rests, its lock is free, a witness may be made.
LEMMA ReturnEffect ==
    ASSUME TypeOK, NEW t \in Threads, NEW ok \in BOOLEAN, Return(t, ok)
    PROVE  /\ thread' \in [Threads -> ThreadRecords]
           /\ \A u \in Threads : u # t => thread'[u] = thread[u]
           /\ thread'[t].pc = IF t \in Callers THEN "idle" ELSE "done"
           /\ thread'[t].reason = None /\ thread'[t].clean = TRUE
           /\ auth' \in [made : BOOLEAN, first : BOOLEAN, lock : Callers \cup {None}]
           /\ auth'.made = auth.made /\ auth'.first = auth.first
           /\ history' \in [witness : BOOLEAN, stale : BOOLEAN]
           /\ history'.stale = history.stale
           /\ history'.witness <=>
                 history.witness \/ (ok /\ thread[t].op \in {"commit", "consume"})
<1> DEFINE pc == IF t \in Callers THEN "idle" ELSE "done"
           r == [AtRest EXCEPT !.pc = pc]
           lock == IF auth.lock = t THEN None ELSE auth.lock
           w == history.witness \/ (ok /\ thread[t].op \in {"commit", "consume"})
<1>0. pc \in {"idle", "done"} /\ lock \in Callers \cup {None} /\ w \in BOOLEAN BY DEF TypeOK
<1>1. thread' = [thread EXCEPT ![t] = r] BY DEF Return
<1>2. auth' = [auth EXCEPT !.lock = lock] BY DEF Return, TypeOK
<1>3. history' = [history EXCEPT !.witness = w] BY DEF Return, TypeOK
<1>9. w <=> history.witness \/ (ok /\ thread[t].op \in {"commit", "consume"}) OBVIOUS
<1> HIDE DEF pc, lock, w
<1>4. r \in ThreadRecords /\ r.pc = pc /\ r.reason = None /\ r.clean = TRUE
    BY <1>0 DEF AtRest, ThreadRecords, ThreadStates
<1> HIDE DEF r
<1>5. thread' \in [Threads -> ThreadRecords] BY <1>1, <1>4 DEF TypeOK
<1>6. thread'[t] = r /\ \A u \in Threads : u # t => thread'[u] = thread[u] BY <1>1 DEF TypeOK
<1>7. /\ auth' \in [made : BOOLEAN, first : BOOLEAN, lock : Callers \cup {None}]
      /\ auth'.made = auth.made /\ auth'.first = auth.first
    BY <1>0, <1>2 DEF TypeOK
<1>8. /\ history' \in [witness : BOOLEAN, stale : BOOLEAN]
      /\ history'.stale = history.stale /\ history'.witness = w
    BY <1>0, <1>3 DEF TypeOK
<1>10. QED BY <1>4, <1>5, <1>6, <1>7, <1>8, <1>9 DEF pc

-----------------------------------------------------------------------------
(* What a step leaves true of the goroutines it does not move *)

\* What the invariant says of one goroutine.
Fine(t) == Placed(t) /\ WillSee(t) /\ Holds(t)

\* What ended the attempt stays, an authorized emission stays authorized, and
\* a terminal reason, its record and a complete drain are final.
Forward ==
    /\ world.ctx # None => world'.ctx # None
    /\ world.call # None => world'.call # None
    /\ world.expired => world'.expired
    /\ world.trip => world'.trip
    /\ stopping => stopping'
    /\ auth.first => auth'.first
    /\ token.chosen # None => token'.chosen = token.chosen
    /\ journal.records # <<>> => journal'.records = journal.records
    /\ journal.tried => journal'.tried
    /\ drain = "complete" => drain' = "complete"
    /\ token.chosen # None /\ writer.pc \in {"none", "done"} => writer' = writer
    /\ gate.burned => gate'.burned

\* So a terminal reason once recorded stays recorded.
LEMMA RecordedStays == ASSUME TypeOK, Forward, Recorded PROVE Recorded'
<1>1. journal.records # <<>> BY DEF Recorded
<1>2. QED BY <1>1 DEF Forward, Recorded

\* A goroutine that does not move keeps what it stands for.
LEMMA Unmoved ==
    ASSUME IInv, Forward, NEW u \in Threads, thread'[u] = thread[u],
           gate'.token = gate.token,
           thread[u].pc \in Finishing => token'.finished = token.finished,
           u = Committer /\ thread[u].pc \in Deciding =>
              /\ token'.chosen = token.chosen /\ journal'.records = journal.records
              /\ drain' = drain /\ gate' = gate
    PROVE  Fine(u)'
<1>0. TypeOK /\ Placed(u) /\ WillSee(u) /\ Holds(u) BY DEF IInv
<1>1. Placed(u)' BY <1>0 DEF Placed, Deciding, Forward
<1>2. WillSee(u)' BY <1>0 DEF WillSee, At, Forward
<1>3. Holds(u)'
  <2>1. Recorded => Recorded' BY <1>0, RecordedStays
  <2>2. thread[u].pc = "complete" /\ ~thread[u].err => journal.records # <<>>
    <3> SUFFICES ASSUME thread[u].pc = "complete", ~thread[u].err
                 PROVE  journal.records # <<>>
        OBVIOUS
    <3>1. journal.records = <<thread[u].reason>> BY <1>0 DEF Holds
    <3>2. QED BY <3>1, NotEmpty
  <2>3. thread[u].pc = "writer" => token.chosen # None /\ writer.pc = "done"
    BY <1>0 DEF Holds, Finishing
  <2>4. thread[u].pc \in Finishing /\ (u # Committer \/ Loopback) => token.chosen # None
    BY <1>0 DEF Holds
  <2>5. thread[u].pc = "complete" => journal'.tried BY <1>0 DEF Holds, Forward
  <2>6. QED BY <1>0, <2>1, <2>2, <2>3, <2>4, <2>5 DEF Holds, Forward, Finishing
<1>4. QED BY <1>1, <1>2, <1>3 DEF Fine

\* Nobody is inside finish with the chosen reason.
NobodyFinishes == \A u \in Threads : thread[u].pc \notin Finishing

\* Before a reason is chosen, nobody is, if Commit is not.
LEMMA NobodyYet ==
    ASSUME IInv, token.chosen = None, thread[Committer].pc \notin Finishing
    PROVE  NobodyFinishes
<1>1. ASSUME NEW u \in Threads, thread[u].pc \in Finishing, u # Committer PROVE FALSE
  <2>1. Holds(u) BY DEF IInv
  <2>2. thread[u].reason = None BY <1>1, <2>1 DEF Holds
  <2>3. QED BY <1>1, <2>1, <2>2 DEF Holds
<1>2. QED BY <1>1 DEF NobodyFinishes

\* One goroutine moves and at most one is inside finish.
LEMMA OneStill ==
    ASSUME OneFinishes, NEW t \in Threads, \A u \in Threads : u # t => thread'[u] = thread[u],
           thread'[t].pc \in Finishing => thread[t].pc \in Finishing \/ NobodyFinishes
    PROVE  OneFinishes'
BY DEF OneFinishes, NobodyFinishes

\* A step that only moves goroutine t, and what it reads or grants.
LEMMA MoveInv ==
    ASSUME IInv, TypeOK', NEW t \in Threads,
           \A u \in Threads : u # t => thread'[u] = thread[u],
           UNCHANGED <<gate, drain, token, writer, journal>>,
           world' = world, stopping => stopping',
           auth.first => auth'.first,
           ~gate.token => auth'.made = auth.made /\ auth'.first = auth.first,
           thread'[t].pc \in Finishing => thread[t].pc \in Finishing \/ NobodyFinishes,
           t = Committer /\ thread[t].pc \in {"complete", "done"} =>
              thread'[t].pc \in {"complete", "done"},
           Fine(t)', AuthorityIsFresh', WitnessIsDurable'
    PROVE  IInv'
<1>1. Forward BY DEF Forward
<1>2. \A u \in Threads : Fine(u)'
  <2>1. ASSUME NEW u \in Threads, u # t PROVE Fine(u)' BY <1>1, <2>1, Unmoved
  <2>2. QED BY <2>1
<1>3. OneFinishes' BY OneStill DEF IInv
<1>4. TerminalSound'
  <2>1. Recorded => Recorded' BY <1>1, RecordedStays DEF IInv
  <2>2. thread'[Committer].pc = thread[Committer].pc \/ t = Committer BY Goroutines
  <2>3. TerminalSound BY DEF IInv
  <2>4. QED BY <2>1, <2>2, <2>3 DEF TerminalSound
<1>5. DrainAfterTerminal' BY DEF IInv, DrainAfterTerminal
<1>6. QED BY <1>2, <1>3, <1>4, <1>5 DEF IInv, Fine

-----------------------------------------------------------------------------
(* The steps *)

\* Contexts end, time passes, the lease is stopped.
LEMMA WorldInv ==
    ASSUME IInv, ContextEnds \/ Expire \/ LeaseStops \/ TripFileBlocks
    PROVE  IInv'
<1>0. TypeOK /\ None \notin ContextErrors BY GateReasonsFail DEF IInv
<1>1. UNCHANGED <<drain, gate, token, auth, writer, journal, thread, history>>
    BY DEF ContextEnds, Expire, LeaseStops, TripFileBlocks, Nobody
<1>2. /\ world' \in [ctx : ContextErrors \cup {None}, call : ContextErrors \cup {None},
                     expired : BOOLEAN, trip : BOOLEAN]
      /\ stopping' \in BOOLEAN
      /\ world.ctx # None => world'.ctx # None
      /\ world.call # None => world'.call # None
      /\ world.expired => world'.expired
      /\ world.trip => world'.trip
      /\ stopping => stopping'
  <2>1. CASE ContextEnds
    <3>1. PICK err \in ContextErrors : \/ world' = [world EXCEPT !.ctx = err]
                                       \/ world' = [world EXCEPT !.call = err]
      BY <2>1 DEF ContextEnds
    <3>2. stopping' = stopping BY <2>1 DEF ContextEnds
    <3>3. QED BY <1>0, <3>1, <3>2 DEF TypeOK
  <2>2. CASE Expire
    <3>1. world' = [world EXCEPT !.expired = TRUE] /\ stopping' = stopping
      BY <2>2 DEF Expire
    <3>2. QED BY <1>0, <3>1 DEF TypeOK
  <2>3. CASE LeaseStops
    <3>1. world' = world /\ stopping' = TRUE BY <2>3 DEF LeaseStops
    <3>2. QED BY <1>0, <3>1 DEF TypeOK
  <2>4. CASE TripFileBlocks
    <3>1. world' = [world EXCEPT !.trip = TRUE] /\ stopping' = stopping
      BY <2>4 DEF TripFileBlocks
    <3>2. QED BY <1>0, <3>1 DEF TypeOK
  <2>5. QED BY <2>1, <2>2, <2>3, <2>4
<1>3. Forward BY <1>1, <1>2 DEF Forward
<1>4. TypeOK' BY <1>0, <1>1, <1>2 DEF TypeOK
<1>5. \A u \in Threads : Fine(u)' BY <1>1, <1>3, Unmoved
<1>6. (OneFinishes /\ TerminalSound)'
    BY <1>1 DEF IInv, OneFinishes, TerminalSound, Recorded
<1>7. (AuthorityIsFresh /\ DrainAfterTerminal /\ WitnessIsDurable)'
    BY <1>1 DEF IInv, AuthorityIsFresh, DrainAfterTerminal, WitnessIsDurable
<1>8. QED BY <1>4, <1>5, <1>6, <1>7 DEF IInv, Fine

\* A check that fails goes on to finish with a reason of the gate.
LEMMA FailInv ==
    ASSUME IInv, NEW t \in Threads, NEW reason \in GateReasons, Fail(t, reason),
           thread[t].pc \in {"terminal", "contexts", "expiry", "lease", "watch"},
           UNCHANGED <<world, drain, gate, token, auth, writer, journal, history>>,
           stopping => stopping', stopping' \in BOOLEAN
    PROVE  IInv'
<1>0. TypeOK /\ Placed(t) /\ Holds(t) /\ reason \in Reasons /\ reason # "success" /\ reason # None
    BY GateReasonsFail DEF IInv
<1>1. /\ thread' \in [Threads -> ThreadRecords]
      /\ \A u \in Threads : u # t => thread'[u] = thread[u]
      /\ thread'[t].pc = IF t = Committer /\ ~Loopback THEN "write" ELSE "choose"
      /\ thread'[t].op = thread[t].op /\ thread'[t].reason = reason
      /\ thread'[t].clean = TRUE
    BY <1>0, FailEffect
<1>2. TypeOK' BY <1>0, <1>1 DEF TypeOK
<1>3. t = Committer => thread[t].pc \in Deciding /\ ~gate.token
    BY <1>0 DEF Placed, Deciding
<1>4. thread'[t].pc \in Finishing => t = Committer /\ NobodyFinishes
    BY <1>0, <1>1, <1>3, NobodyYet DEF Finishing, Placed, Deciding
<1>5. Placed(t)'
    BY <1>0, <1>1, <1>3, Goroutines DEF Placed, Deciding
<1>6. WillSee(t)' BY <1>1 DEF WillSee, At
<1>7. Holds(t)' BY <1>0, <1>1, <1>3 DEF Holds, Finishing
<1>8. Fine(t)' BY <1>5, <1>6, <1>7 DEF Fine
<1>9. AuthorityIsFresh' /\ WitnessIsDurable' BY DEF IInv, AuthorityIsFresh, WitnessIsDurable
<1>10. QED BY <1>0, <1>1, <1>2, <1>4, <1>8, <1>9, MoveInv

\* The next read of a check, or the end of a call that changed nothing.
LEMMA GotoInv ==
    ASSUME IInv, NEW t \in Threads, NEW pc \in ThreadStates, Goto(t, pc),
           UNCHANGED <<world, drain, gate, token, auth, writer, journal, history>>,
           stopping => stopping', stopping' \in BOOLEAN,
           pc \in Finishing => thread[t].pc \in Finishing,
           t = Committer /\ thread[t].pc \in {"complete", "done"} => pc \in {"complete", "done"},
           Placed(t)', WillSee(t)', Holds(t)'
    PROVE  IInv'
<1>0. TypeOK BY DEF IInv
<1>1. /\ thread' \in [Threads -> ThreadRecords]
      /\ \A u \in Threads : u # t => thread'[u] = thread[u]
      /\ thread'[t].pc = pc
    BY <1>0, GotoEffect
<1>2. TypeOK' BY <1>0, <1>1 DEF TypeOK
<1>9. AuthorityIsFresh' /\ WitnessIsDurable' BY DEF IInv, AuthorityIsFresh, WitnessIsDurable
<1>10. QED BY <1>0, <1>1, <1>2, <1>9, MoveInv DEF Fine

\* Any step of goroutine t: what is left to show once the others are fine.
LEMMA StepInv ==
    ASSUME IInv, TypeOK', Forward, NEW t \in Threads,
           \A u \in Threads : u # t => thread'[u] = thread[u],
           gate'.token = gate.token,
           token'.finished = token.finished \/ thread[t].pc \in Finishing,
           t # Committer /\ thread[Committer].pc \in Deciding =>
              UNCHANGED <<token, journal, drain, gate>>,
           thread'[t].pc \in Finishing => thread[t].pc \in Finishing \/ NobodyFinishes,
           Fine(t)', TerminalSound', AuthorityIsFresh', DrainAfterTerminal', WitnessIsDurable'
    PROVE  IInv'
<1>1. ASSUME NEW u \in Threads, u # t PROVE Fine(u)'
  <2>1. thread[u].pc \in Finishing => token'.finished = token.finished
    BY <1>1 DEF IInv, OneFinishes
  <2>2. QED BY <1>1, <2>1, Unmoved
<1>2. OneFinishes' BY OneStill DEF IInv
<1>3. QED BY <1>1, <1>2 DEF IInv, Fine

\* A check begins.
LEMMA CheckEffect ==
    ASSUME TypeOK, NEW t \in Threads, thread' = Check(t)
    PROVE  /\ thread' \in [Threads -> ThreadRecords]
           /\ \A u \in Threads : u # t => thread'[u] = thread[u]
           /\ thread'[t].pc = "contexts" /\ thread'[t].reason = thread[t].reason
           /\ thread'[t].op = thread[t].op /\ thread'[t].clean = ~Ended(t)
<1> DEFINE c == ~Ended(t)
           r == [thread[t] EXCEPT !.pc = "contexts", !.clean = c]
<1>0. c \in BOOLEAN /\ thread[t] \in ThreadRecords BY DEF TypeOK
<1>1. thread' = [thread EXCEPT ![t] = r] BY DEF Check, TypeOK
<1> HIDE DEF c
<1>2. /\ r \in ThreadRecords /\ r.pc = "contexts" /\ r.op = thread[t].op
      /\ r.reason = thread[t].reason /\ r.clean = c
    BY <1>0 DEF ThreadRecords, ThreadStates
<1> HIDE DEF r
<1>3. thread' \in [Threads -> ThreadRecords] BY <1>1, <1>2 DEF TypeOK
<1>4. thread'[t] = r /\ \A u \in Threads : u # t => thread'[u] = thread[u] BY <1>1 DEF TypeOK
<1>5. QED BY <1>2, <1>3, <1>4 DEF c

\* precheckPairingAdmission.
LEMMA PrecheckInv == ASSUME IInv, Precheck PROVE IInv'
<1>0. /\ TypeOK /\ Placed(Committer) /\ Holds(Committer) /\ Committer \in Threads
      /\ thread[Committer].pc = "precheck"
    BY Goroutines DEF IInv, Precheck, At
<1>1. PICK pc \in {"done", "register"} : Goto(Committer, pc) BY DEF Precheck
<1>2. /\ UNCHANGED <<world, drain, gate, token, auth, writer, journal, history>>
      /\ stopping => stopping'
      /\ stopping' \in BOOLEAN
    BY <1>0 DEF Precheck, TypeOK
<1>3. /\ thread'[Committer].pc = pc
      /\ thread'[Committer].reason = thread[Committer].reason
    BY <1>0, <1>1, GotoEffect DEF ThreadStates
<1>4. Placed(Committer)' BY <1>0, <1>2, <1>3, Goroutines DEF Placed, Deciding
<1>5. WillSee(Committer)' BY <1>3 DEF WillSee, At
<1>6. Holds(Committer)' BY <1>0, <1>2, <1>3 DEF Holds, Finishing
<1>7. pc \in ThreadStates /\ pc \notin Finishing BY DEF ThreadStates, Finishing
<1>8. thread[Committer].pc \notin {"complete", "done"} BY <1>0
<1>9. QED BY <1>0, <1>1, <1>2, <1>4, <1>5, <1>6, <1>7, <1>8, GotoInv

\* registerPairingDrain.
LEMMA RegisterInv == ASSUME IInv, RegisterPairingDrain PROVE IInv'
<1>0. /\ TypeOK /\ Placed(Committer) /\ Holds(Committer) /\ TerminalSound /\ Committer \in Threads
      /\ thread[Committer].pc = "register"
    BY Goroutines DEF IInv, RegisterPairingDrain, At
<1>1. /\ drain = "none" /\ token.chosen = None /\ ~gate.burned /\ ~gate.token
      /\ journal.records = <<>>
    BY <1>0 DEF Placed, Deciding
<1>2. CASE stopping
  <2>1. Goto(Committer, "done") /\ drain' = drain BY <1>2 DEF RegisterPairingDrain
  <2>2. UNCHANGED <<world, stopping, drain, gate, token, auth, writer, journal, history>>
    BY <2>1 DEF RegisterPairingDrain
  <2>3. /\ thread'[Committer].pc = "done"
        /\ thread'[Committer].reason = thread[Committer].reason
    BY <1>0, <2>1, GotoEffect DEF ThreadStates
  <2>4. Placed(Committer)' BY <1>0, <2>2, <2>3, Goroutines DEF Placed, Deciding
  <2>5. WillSee(Committer)' BY <2>3 DEF WillSee, At
  <2>6. Holds(Committer)' BY <1>0, <2>2, <2>3 DEF Holds, Finishing
  <2>7. stopping' \in BOOLEAN BY <1>0, <2>2 DEF TypeOK
  <2>8. "done" \in ThreadStates /\ "done" \notin Finishing BY DEF ThreadStates, Finishing
  <2>9. QED BY <1>0, <2>1, <2>2, <2>4, <2>5, <2>6, <2>7, <2>8, GotoInv
<1>3. CASE ~stopping
  <2>1. /\ Goto(Committer, "admit") /\ drain' = "registered"
        /\ UNCHANGED <<world, stopping, gate, token, auth, writer, journal, history>>
    BY <1>3 DEF RegisterPairingDrain
  <2>2. /\ thread' \in [Threads -> ThreadRecords]
        /\ \A u \in Threads : u # Committer => thread'[u] = thread[u]
        /\ thread'[Committer].pc = "admit"
        /\ thread'[Committer].reason = thread[Committer].reason
    BY <1>0, <2>1, GotoEffect DEF ThreadStates
  <2>3. TypeOK' BY <1>0, <2>1, <2>2 DEF TypeOK
  <2>4. Forward BY <1>1, <2>1 DEF Forward
  <2>5. Placed(Committer)' BY <1>0, <1>1, <2>1, <2>2, Goroutines DEF Placed, Deciding
  <2>6. WillSee(Committer)' BY <2>2 DEF WillSee, At
  <2>7. Holds(Committer)' BY <1>0, <2>1, <2>2 DEF Holds, Finishing
  <2>8. Fine(Committer)' BY <2>5, <2>6, <2>7 DEF Fine
  <2>9. TerminalSound' BY <1>0, <1>1, <2>1, <2>2 DEF TerminalSound, Recorded
  <2>10. (AuthorityIsFresh /\ DrainAfterTerminal /\ WitnessIsDurable)'
    BY <2>1 DEF IInv, AuthorityIsFresh, DrainAfterTerminal, WitnessIsDurable
  <2>11. thread'[Committer].pc \notin Finishing BY <2>2 DEF Finishing
  <2>12. QED BY <1>0, <2>1, <2>2, <2>3, <2>4, <2>8, <2>9, <2>10, <2>11, StepInv
<1>4. QED BY <1>2, <1>3

\* ledger.Admit: the credential is burned, or Commit is over.
LEMMA AdmitInv == ASSUME IInv, Admit PROVE IInv'
<1>0. /\ TypeOK /\ Placed(Committer) /\ Holds(Committer) /\ TerminalSound /\ Committer \in Threads
      /\ thread[Committer].pc = "admit"
    BY Goroutines DEF IInv, Admit, At
<1>1. /\ drain = "registered" /\ token.chosen = None /\ ~gate.burned /\ ~gate.token
      /\ journal.records = <<>>
    BY <1>0 DEF Placed, Deciding
<1>2. UNCHANGED <<world, stopping, token, auth, writer, journal, history>> BY DEF Admit
<1>3. /\ thread' \in [Threads -> ThreadRecords]
      /\ \A u \in Threads : u # Committer => thread'[u] = thread[u]
      /\ thread'[Committer].reason = thread[Committer].reason
      /\ \/ /\ thread'[Committer].pc = "contexts"
            /\ thread'[Committer].clean = ~Ended(Committer)
            /\ gate' = [gate EXCEPT !.burned = TRUE] /\ drain' = drain
         \/ thread'[Committer].pc = "done" /\ gate' = gate /\ drain' = "complete"
  <2>1. CASE thread' = Check(Committer) /\ gate' = [gate EXCEPT !.burned = TRUE]
             /\ drain' = drain
    BY <1>0, <2>1, CheckEffect
  <2>2. CASE Goto(Committer, "done") /\ gate' = gate /\ drain' = "complete"
    BY <1>0, <2>2, GotoEffect DEF ThreadStates
  <2>3. QED BY <2>1, <2>2 DEF Admit
<1>4. /\ gate' \in [burned : BOOLEAN, token : BOOLEAN] /\ gate'.token = gate.token
      /\ thread'[Committer].pc = "contexts" => gate'.burned
      /\ thread'[Committer].pc = "done" => ~gate'.burned
    BY <1>0, <1>1, <1>3 DEF TypeOK
<1>5. TypeOK' BY <1>0, <1>2, <1>3, <1>4 DEF TypeOK
<1>6. Forward BY <1>1, <1>2 DEF Forward
<1>7. Placed(Committer)'
    BY <1>0, <1>1, <1>2, <1>3, <1>4, Goroutines DEF Placed, Deciding
<1>8. WillSee(Committer)' BY <1>1, <1>2, <1>3 DEF WillSee, At, Ended
<1>9. Holds(Committer)' BY <1>0, <1>2, <1>3 DEF Holds, Finishing
<1>10. Fine(Committer)' BY <1>7, <1>8, <1>9 DEF Fine
<1>11. TerminalSound' BY <1>0, <1>1, <1>2, <1>3, <1>4 DEF TerminalSound, Recorded
<1>12. (AuthorityIsFresh /\ DrainAfterTerminal /\ WitnessIsDurable)'
    BY <1>1, <1>2, <1>3, <1>4 DEF IInv, AuthorityIsFresh, DrainAfterTerminal, WitnessIsDurable
<1>13. thread'[Committer].pc \notin Finishing BY <1>3 DEF Finishing
<1>14. QED BY <1>0, <1>2, <1>3, <1>4, <1>5, <1>6, <1>10, <1>11, <1>12, <1>13, StepInv

\* A carrier's call begins with a reason.
Called(t, pc, op, reason) ==
    [thread EXCEPT ![t].pc = pc, ![t].op = op, ![t].reason = reason]

\* It sets pc, op and reason of one goroutine.
LEMMA CallEffect ==
    ASSUME TypeOK, NEW t \in Threads, NEW pc \in ThreadStates,
           NEW op \in {"consume", "first", "check", "finish"},
           NEW reason \in Reasons \cup {None},
           thread' = Called(t, pc, op, reason)
    PROVE  /\ thread' \in [Threads -> ThreadRecords]
           /\ \A u \in Threads : u # t => thread'[u] = thread[u]
           /\ thread'[t].pc = pc /\ thread'[t].reason = reason
<1> DEFINE r == [thread[t] EXCEPT !.pc = pc, !.op = op, !.reason = reason]
<1>0. thread[t] \in ThreadRecords BY DEF TypeOK
<1>1. thread' = [thread EXCEPT ![t] = r] BY DEF TypeOK, Called
<1>2. r \in ThreadRecords /\ r.pc = pc /\ r.reason = reason BY <1>0 DEF ThreadRecords
<1> HIDE DEF r
<1>3. thread' \in [Threads -> ThreadRecords] BY <1>1, <1>2 DEF TypeOK
<1>4. thread'[t] = r /\ \A u \in Threads : u # t => thread'[u] = thread[u] BY <1>1 DEF TypeOK
<1>5. QED BY <1>2, <1>3, <1>4

\* The same, with the reason it has.
LEMMA CallKeeps ==
    ASSUME TypeOK, NEW t \in Threads, NEW pc \in ThreadStates,
           NEW op \in {"consume", "first", "check", "finish"},
           thread' = [thread EXCEPT ![t].pc = pc, ![t].op = op]
    PROVE  /\ thread' \in [Threads -> ThreadRecords]
           /\ \A u \in Threads : u # t => thread'[u] = thread[u]
           /\ thread'[t].pc = pc /\ thread'[t].reason = thread[t].reason
<1> DEFINE r == [thread[t] EXCEPT !.pc = pc, !.op = op]
<1>0. thread[t] \in ThreadRecords BY DEF TypeOK
<1>1. thread' = [thread EXCEPT ![t] = r] BY DEF TypeOK
<1>2. r \in ThreadRecords /\ r.pc = pc /\ r.reason = thread[t].reason BY <1>0 DEF ThreadRecords
<1> HIDE DEF r
<1>3. thread' \in [Threads -> ThreadRecords] BY <1>1, <1>2 DEF TypeOK
<1>4. thread'[t] = r /\ \A u \in Threads : u # t => thread'[u] = thread[u] BY <1>1 DEF TypeOK
<1>5. QED BY <1>2, <1>3, <1>4

\* A carrier's goroutine enters a call: nothing the invariant speaks of changes
\* but its own place, its reason, and flags of the token and of the lock.
LEMMA CallInv ==
    ASSUME IInv, NEW t \in Callers, gate.token,
           thread' \in [Threads -> ThreadRecords],
           \A u \in Threads : u # t => thread'[u] = thread[u],
           thread'[t].pc \in {"await", "terminal", "choose"},
           thread'[t].pc # "terminal" => thread'[t].reason # None,
           thread'[t].reason = "success" => auth.first,
           UNCHANGED <<world, stopping, drain, gate, writer, journal, history>>,
           TypeOK', token'.chosen = token.chosen, token'.finished = token.finished,
           token'.err = token.err, auth'.made = auth.made, auth'.first = auth.first
    PROVE  IInv'
<1>0. TypeOK /\ TerminalSound /\ t \in Threads BY Goroutines DEF IInv
<1>1. Forward BY DEF Forward
<1>2. Placed(t)' BY Goroutines DEF Placed
<1>3. WillSee(t)' BY DEF WillSee, At
<1>4. Holds(t)' BY DEF Holds, Finishing
<1>5. Fine(t)' BY <1>2, <1>3, <1>4 DEF Fine
<1>6. TerminalSound'
  <2>1. thread'[Committer] = thread[Committer] BY Goroutines
  <2>2. Recorded => Recorded' BY <1>0, <1>1, RecordedStays
  <2>3. QED BY <1>0, <2>1, <2>2 DEF TerminalSound
<1>7. (AuthorityIsFresh /\ DrainAfterTerminal /\ WitnessIsDurable)'
    BY DEF IInv, AuthorityIsFresh, DrainAfterTerminal, WitnessIsDurable
<1>8. thread'[t].pc \notin Finishing BY DEF Finishing
<1>9. thread[Committer].pc \notin Deciding BY Goroutines DEF IInv, Placed, Deciding
<1>10. QED BY <1>0, <1>1, <1>5, <1>6, <1>7, <1>8, <1>9, StepInv

\* Before the token, no carrier has an authorization to call.
LEMMA MadeAfterToken == ASSUME IInv, auth.made PROVE gate.token
BY DEF IInv, TerminalSound

\* The carrier's operations.
LEMMA CarrierInv == ASSUME IInv, NEW t \in Callers, CarrierStep(t) PROVE IInv'
<1>0. TypeOK /\ TerminalSound /\ Placed(t) /\ Holds(t) /\ t \in Threads
    BY Goroutines DEF IInv
<1>1. CASE Consume(t)
  <2>0. gate.token /\ UNCHANGED <<world, stopping, drain, gate, auth, writer, journal, history>>
    BY <1>1 DEF Consume
  <2>1. CASE token.chosen # None
    <3>1. thread' = Called(t, "await", "consume", token.chosen) /\ token' = token
      BY <1>1, <2>1, Zenon DEF Consume, Called
    <3>2. "await" \in ThreadStates /\ token.chosen \in Reasons \cup {None}
      BY <1>0 DEF ThreadStates, TypeOK
    <3>3. /\ thread' \in [Threads -> ThreadRecords]
          /\ \A u \in Threads : u # t => thread'[u] = thread[u]
          /\ thread'[t].pc = "await" /\ thread'[t].reason = token.chosen
      BY <1>0, <3>1, <3>2, CallEffect
    <3>4. token.chosen = "success" => auth.first BY <1>0 DEF TerminalSound
    <3>5. TypeOK' BY <1>0, <2>0, <3>1, <3>3 DEF TypeOK
    <3>6. QED BY <2>0, <2>1, <3>1, <3>3, <3>4, <3>5, CallInv
  <2>2. CASE token.chosen = None
    <3>1. /\ thread' = [thread EXCEPT ![t].pc = "terminal", ![t].op = "consume"]
          /\ token' = [token EXCEPT !.consumed = TRUE]
      BY <1>1, <2>2 DEF Consume
    <3>2. "terminal" \in ThreadStates BY DEF ThreadStates
    <3>3. /\ thread' \in [Threads -> ThreadRecords]
          /\ \A u \in Threads : u # t => thread'[u] = thread[u]
          /\ thread'[t].pc = "terminal" /\ thread'[t].reason = thread[t].reason
      BY <1>0, <3>1, <3>2, CallKeeps
    <3>4. thread[t].reason = "success" => auth.first BY <1>0 DEF Holds
    <3>5. /\ token'.chosen = token.chosen /\ token'.finished = token.finished
          /\ token'.err = token.err
          /\ token' \in [consumed : BOOLEAN, hook : BOOLEAN, chosen : Reasons \cup {None},
                         finished : BOOLEAN, err : BOOLEAN]
      BY <1>0, <3>1 DEF TypeOK
    <3>6. TypeOK' BY <1>0, <2>0, <3>3, <3>5 DEF TypeOK
    <3>7. QED BY <2>0, <3>3, <3>4, <3>5, <3>6, CallInv
  <2>3. QED BY <2>1, <2>2
<1>2. CASE RegisterLoopbackPreFinish(t)
  <2>1. /\ token' = [token EXCEPT !.hook = TRUE]
        /\ UNCHANGED <<world, stopping, drain, gate, auth, writer, journal, thread, history>>
    BY <1>2 DEF RegisterLoopbackPreFinish
  <2>2. /\ token'.chosen = token.chosen /\ token'.finished = token.finished
        /\ token'.err = token.err
        /\ token' \in [consumed : BOOLEAN, hook : BOOLEAN, chosen : Reasons \cup {None},
                       finished : BOOLEAN, err : BOOLEAN]
    BY <1>0, <2>1 DEF TypeOK
  <2>3. TypeOK' BY <1>0, <2>1, <2>2 DEF TypeOK
  <2>4. Forward BY <2>1, <2>2 DEF Forward
  <2>5. \A u \in Threads : Fine(u)' BY <2>1, <2>2, <2>4, Unmoved
  <2>6. (OneFinishes /\ TerminalSound)'
    BY <2>1, <2>2 DEF IInv, OneFinishes, TerminalSound, Recorded
  <2>7. (AuthorityIsFresh /\ DrainAfterTerminal /\ WitnessIsDurable)'
    BY <2>1 DEF IInv, AuthorityIsFresh, DrainAfterTerminal, WitnessIsDurable
  <2>8. QED BY <2>3, <2>5, <2>6, <2>7 DEF IInv, Fine
<1>3. CASE BeforeFirstEmission(t) \/ CheckActive(t)
  <2>1. PICK op \in {"first", "check"} :
           thread' = [thread EXCEPT ![t].pc = "terminal", ![t].op = op]
    BY <1>3 DEF BeforeFirstEmission, CheckActive
  <2>2. /\ UNCHANGED <<world, stopping, drain, gate, token, writer, journal, history>>
        /\ auth' = [auth EXCEPT !.lock = t] \/ auth' = auth
        /\ auth.made
    BY <1>3 DEF BeforeFirstEmission, CheckActive, MayLock
  <2>3. "terminal" \in ThreadStates BY DEF ThreadStates
  <2>4. /\ thread' \in [Threads -> ThreadRecords]
        /\ \A u \in Threads : u # t => thread'[u] = thread[u]
        /\ thread'[t].pc = "terminal" /\ thread'[t].reason = thread[t].reason
    BY <1>0, <2>1, <2>3, CallKeeps
  <2>5. /\ auth' \in [made : BOOLEAN, first : BOOLEAN, lock : Callers \cup {None}]
        /\ auth'.made = auth.made /\ auth'.first = auth.first
    BY <1>0, <2>2 DEF TypeOK
  <2>6. TypeOK' BY <1>0, <2>2, <2>4, <2>5 DEF TypeOK
  <2>7. thread[t].reason = "success" => auth.first BY <1>0 DEF Holds
  <2>8. QED BY <2>2, <2>4, <2>5, <2>6, <2>7, MadeAfterToken, CallInv
<1>4. ASSUME NEW reason \in CarrierReasons, CarrierFinish(t, reason) PROVE IInv'
  <2>1. /\ thread' = Called(t, "choose", "finish", reason)
        /\ UNCHANGED <<world, stopping, drain, gate, token, auth, writer, journal, history>>
        /\ auth.made /\ (reason = "success" => auth.first)
    BY <1>4, Zenon DEF CarrierFinish, MayLock, MayClaim, Called
  <2>2. "choose" \in ThreadStates /\ reason \in Reasons /\ reason # None
    BY GateReasonsFail DEF ThreadStates
  <2>3. /\ thread' \in [Threads -> ThreadRecords]
        /\ \A u \in Threads : u # t => thread'[u] = thread[u]
        /\ thread'[t].pc = "choose" /\ thread'[t].reason = reason
    BY <1>0, <2>1, <2>2, CallEffect
  <2>4. TypeOK' BY <1>0, <2>1, <2>3 DEF TypeOK
  <2>5. QED BY <2>1, <2>2, <2>3, <2>4, MadeAfterToken, CallInv
<1>5. QED BY <1>1, <1>2, <1>3, <1>4 DEF CarrierStep

\* A goroutine inside a check goes on to the next read.
LEMMA ReadInv ==
    ASSUME IInv, NEW t \in Threads, NEW pc \in {"expiry", "lease"}, Goto(t, pc),
           thread[t].pc \in {"contexts", "expiry"},
           UNCHANGED <<world, stopping, drain, gate, token, auth, writer, journal, history>>,
           WillSee(t)'
    PROVE  IInv'
<1>0. TypeOK /\ Placed(t) /\ Holds(t) BY DEF IInv
<1>1. thread'[t].pc = pc /\ thread'[t].reason = thread[t].reason
    BY <1>0, GotoEffect DEF ThreadStates
<1>2. Placed(t)' BY <1>0, <1>1, Goroutines DEF Placed, Deciding
<1>3. Holds(t)' BY <1>0, <1>1 DEF Holds, Finishing
<1>4. pc \in ThreadStates /\ pc \notin Finishing BY DEF ThreadStates, Finishing
<1>5. stopping' \in BOOLEAN /\ stopping' = stopping BY <1>0 DEF TypeOK
<1>6. thread[t].pc \notin {"complete", "done"} OBVIOUS
<1>7. QED BY <1>2, <1>3, <1>4, <1>5, <1>6, GotoInv

\* validate, a read at a time.
LEMMA ValidateInv ==
    ASSUME IInv, NEW t \in Threads,
           CheckTerminal(t) \/ CheckContexts(t) \/ CheckExpiry(t) \/ CheckLeaseFails(t)
    PROVE  IInv'
<1>0. TypeOK /\ Placed(t) /\ WillSee(t) /\ Holds(t) BY DEF IInv
<1>1. CASE CheckTerminal(t)
  <2>0. /\ UNCHANGED <<world, stopping, drain, gate, token, auth, writer, journal, history>>
        /\ thread[t].pc = "terminal" /\ stopping' \in BOOLEAN
    BY <1>0, <1>1 DEF CheckTerminal, At, TypeOK
  <2>1. CASE token.chosen # None
    <3>1. Fail(t, "scope_changed") BY <1>1, <2>1 DEF CheckTerminal, TerminalSeen
    <3>2. "scope_changed" \in GateReasons BY DEF GateReasons
    <3>3. QED BY <2>0, <3>1, <3>2, FailInv
  <2>2. CASE token.chosen = None
    <3>1. thread' = Check(t) BY <1>1, <2>2 DEF CheckTerminal, TerminalSeen
    <3>2. /\ thread' \in [Threads -> ThreadRecords]
          /\ \A u \in Threads : u # t => thread'[u] = thread[u]
          /\ thread'[t].pc = "contexts" /\ thread'[t].reason = thread[t].reason
          /\ thread'[t].clean = ~Ended(t)
      BY <1>0, <3>1, CheckEffect
    <3>3. TypeOK' BY <1>0, <2>0, <3>2 DEF TypeOK
    <3>4. t # Committer BY <1>0, <2>0 DEF Placed
    <3>5. Placed(t)' BY <1>0, <2>0, <3>2, <3>4 DEF Placed
    <3>6. WillSee(t)' BY <2>0, <2>2, <3>2 DEF WillSee, At, Ended
    <3>7. Holds(t)' BY <1>0, <2>0, <3>2 DEF Holds, Finishing
    <3>8. Fine(t)' BY <3>5, <3>6, <3>7 DEF Fine
    <3>9. (AuthorityIsFresh /\ WitnessIsDurable)'
      BY <2>0 DEF IInv, AuthorityIsFresh, WitnessIsDurable
    <3>10. thread'[t].pc \notin Finishing BY <3>2 DEF Finishing
    <3>11. QED BY <2>0, <3>2, <3>3, <3>4, <3>8, <3>9, <3>10, MoveInv
  <2>3. QED BY <2>1, <2>2
<1>2. CASE CheckContexts(t)
  <2>0. /\ UNCHANGED <<world, stopping, drain, gate, token, auth, writer, journal, history>>
        /\ thread[t].pc = "contexts" /\ stopping' \in BOOLEAN
    BY <1>0, <1>2 DEF CheckContexts, At, TypeOK
  <2>1. /\ world.ctx # None => world.ctx \in GateReasons
        /\ world.call # None => world.call \in GateReasons
    BY <1>0, GateReasonsFail DEF TypeOK
  <2>2. CASE world.ctx # None
    <3>1. Fail(t, world.ctx) BY <1>2, <2>2 DEF CheckContexts
    <3>2. QED BY <2>0, <2>1, <2>2, <3>1, FailInv
  <2>3. CASE world.ctx = None /\ world.call # None /\ t # Committer
    <3>1. Fail(t, world.call) BY <1>2, <2>3 DEF CheckContexts
    <3>2. QED BY <2>0, <2>1, <2>3, <3>1, FailInv
  <2>4. CASE world.ctx = None /\ ~(world.call # None /\ t # Committer)
    <3>1. Goto(t, "expiry") BY <1>2, <2>4 DEF CheckContexts
    <3>2. thread'[t].pc = "expiry" /\ thread'[t].clean = thread[t].clean
      BY <1>0, <3>1, GotoEffect DEF ThreadStates
    <3>3. WillSee(t)' BY <1>0, <2>0, <2>4, <3>2 DEF WillSee, At
    <3>4. QED BY <2>0, <3>1, <3>3, ReadInv
  <2>5. QED BY <2>2, <2>3, <2>4
<1>3. CASE CheckExpiry(t)
  <2>0. /\ UNCHANGED <<world, stopping, drain, gate, token, auth, writer, journal, history>>
        /\ thread[t].pc = "expiry" /\ stopping' \in BOOLEAN
    BY <1>0, <1>3 DEF CheckExpiry, At, TypeOK
  <2>1. CASE world.expired
    <3>1. Fail(t, "expired") BY <1>3, <2>1 DEF CheckExpiry, ExpiryReason
    <3>2. "expired" \in GateReasons BY DEF GateReasons
    <3>3. QED BY <2>0, <3>1, <3>2, FailInv
  <2>2. CASE ~world.expired
    <3>1. Goto(t, "lease") BY <1>3, <2>2 DEF CheckExpiry
    <3>2. thread'[t].pc = "lease" /\ thread'[t].clean = thread[t].clean
      BY <1>0, <3>1, GotoEffect DEF ThreadStates
    <3>3. WillSee(t)' BY <1>0, <2>0, <2>2, <3>2 DEF WillSee, At
    <3>4. QED BY <2>0, <3>1, <3>3, ReadInv
  <2>3. QED BY <2>1, <2>2
<1>4. CASE CheckLeaseFails(t)
  <2>1. /\ UNCHANGED <<world, drain, gate, token, auth, writer, journal, history>>
        /\ thread[t].pc = "lease" /\ stopping' = TRUE /\ Fail(t, "cancelled")
    BY <1>4 DEF CheckLeaseFails, At
  <2>2. "cancelled" \in GateReasons BY DEF GateReasons
  <2>3. QED BY <2>1, <2>2, FailInv
<1>5. QED BY <1>1, <1>2, <1>3, <1>4

\* The watcher leaves its select.
LEMMA WatchInv == ASSUME IInv, Watch PROVE IInv'
<1>0. TypeOK /\ Placed(Watcher) /\ Holds(Watcher) /\ Watcher \in Threads BY Goroutines DEF IInv
<1>1. /\ UNCHANGED <<world, stopping, drain, gate, token, auth, writer, journal, history>>
      /\ thread[Watcher].pc = "watch" /\ stopping' \in BOOLEAN
    BY <1>0 DEF Watch, At, TypeOK
<1>2. CASE Goto(Watcher, "done")
  <2>1. /\ thread'[Watcher].pc = "done"
        /\ thread'[Watcher].reason = thread[Watcher].reason
    BY <1>0, <1>2, GotoEffect DEF ThreadStates
  <2>2. Placed(Watcher)' BY <1>0, <1>1, <2>1, Goroutines DEF Placed
  <2>3. WillSee(Watcher)' BY <2>1 DEF WillSee, At
  <2>4. Holds(Watcher)' BY <1>0, <1>1, <2>1 DEF Holds, Finishing
  <2>5. "done" \in ThreadStates /\ "done" \notin Finishing BY DEF ThreadStates, Finishing
  <2>6. QED BY <1>0, <1>1, <1>2, <2>2, <2>3, <2>4, <2>5, Goroutines, GotoInv
<1>3. ASSUME NEW reason \in WatchReasons, Fail(Watcher, reason) PROVE IInv'
  <2>1. reason \in GateReasons
    BY <1>0, GateReasonsFail DEF WatchReasons, GateReasons, TypeOK
  <2>2. QED BY <1>0, <1>1, <1>3, <2>1, FailInv
<1>4. QED BY <1>2, <1>3 DEF Watch

\* A carrier's check passes: an authorization, or a first emission, is granted.
LEMMA PassInv == ASSUME IInv, NEW t \in Threads, CheckPasses(t) PROVE IInv'
<1>0. /\ TypeOK /\ Placed(t) /\ WillSee(t) /\ Holds(t) /\ t \in Callers
      /\ thread[t].pc = "lease" /\ ~stopping /\ ~world.trip
    BY DEF IInv, CheckPasses, At
<1> DEFINE m == auth.made \/ thread[t].op = "consume"
           f == auth.first \/ thread[t].op = "first"
           k == IF auth.lock = t THEN None ELSE auth.lock
<1>1. /\ thread' = [thread EXCEPT ![t] = AtRest] /\ history' = Passed(t)
      /\ auth' = [made |-> m, first |-> f, lock |-> k]
      /\ UNCHANGED <<world, stopping, drain, gate, token, writer, journal>>
    BY DEF CheckPasses
<1>2. /\ m \in BOOLEAN /\ f \in BOOLEAN /\ k \in Callers \cup {None}
      /\ (auth.first => f)
    BY <1>0 DEF TypeOK
<1> HIDE DEF m, f, k
<1>3. /\ AtRest \in ThreadRecords /\ AtRest.pc = "idle" /\ AtRest.reason = None
    BY DEF AtRest, ThreadRecords, ThreadStates
<1>4. /\ thread' \in [Threads -> ThreadRecords]
      /\ \A u \in Threads : u # t => thread'[u] = thread[u]
      /\ thread'[t].pc = "idle" /\ thread'[t].reason = None
    BY <1>0, <1>1, <1>3 DEF TypeOK
<1>5. thread[t].clean \in BOOLEAN /\ thread[t].clean
    BY <1>0 DEF WillSee, At, TypeOK, ThreadRecords
<1>6. /\ history' \in [witness : BOOLEAN, stale : BOOLEAN] /\ ~history'.stale
      /\ history'.witness = history.witness
    BY <1>0, <1>1, <1>5 DEF IInv, AuthorityIsFresh, Passed, TypeOK
<1>7. /\ auth' \in [made : BOOLEAN, first : BOOLEAN, lock : Callers \cup {None}]
      /\ auth.first => auth'.first
    BY <1>1, <1>2
<1>8. TypeOK' BY <1>0, <1>1, <1>4, <1>6, <1>7 DEF TypeOK
<1>9. gate.token BY <1>0 DEF Placed
<1>10. Placed(t)' BY <1>0, <1>1, <1>4, <1>9, Goroutines DEF Placed
<1>11. WillSee(t)' BY <1>4 DEF WillSee, At
<1>12. Holds(t)' BY <1>4, GateReasonsFail DEF Holds, Finishing
<1>13. Fine(t)' BY <1>10, <1>11, <1>12 DEF Fine
<1>14. (AuthorityIsFresh /\ WitnessIsDurable)'
    BY <1>1, <1>6 DEF IInv, AuthorityIsFresh, WitnessIsDurable
<1>15. thread'[t].pc \notin Finishing /\ t # Committer BY <1>0, <1>4, Goroutines DEF Finishing
<1>16. QED BY <1>1, <1>4, <1>7, <1>8, <1>9, <1>13, <1>14, <1>15, MoveInv

\* Commit's check passes: once more, or the token is returned and watched.
LEMMA CommitPassInv == ASSUME IInv, CommitPasses PROVE IInv'
<1> DEFINE c == Committer
<1>0. /\ TypeOK /\ Placed(c) /\ WillSee(c) /\ Holds(c) /\ TerminalSound /\ c \in Threads
      /\ thread[c].pc = "lease" /\ ~stopping /\ ~world.trip
    BY Goroutines DEF IInv, CommitPasses, At
<1>1. /\ token.chosen = None /\ journal.records = <<>> /\ gate.burned /\ ~gate.token
    BY <1>0 DEF Placed, Deciding
<1>2. /\ UNCHANGED <<world, stopping, token, auth, writer, journal, drain>>
      /\ history' = Passed(c)
    BY DEF CommitPasses, DrainTransferred
<1>3. thread[c].clean \in BOOLEAN /\ thread[c].clean
    BY <1>0 DEF WillSee, At, TypeOK, ThreadRecords
<1>4. /\ history' \in [witness : BOOLEAN, stale : BOOLEAN] /\ ~history'.stale
      /\ history'.witness = history.witness
    BY <1>0, <1>2, <1>3 DEF IInv, AuthorityIsFresh, Passed, TypeOK
<1>5. (AuthorityIsFresh /\ WitnessIsDurable)'
    BY <1>2, <1>4 DEF IInv, AuthorityIsFresh, WitnessIsDurable
<1>6. CASE thread[c].passes = 0
  <2> DEFINE q == ~Ended(c)
             r == [thread[c] EXCEPT !.pc = "contexts", !.clean = q, !.passes = 1]
  <2>1. thread' = [Check(c) EXCEPT ![c].passes = 1] /\ gate' = gate
    BY <1>6 DEF CommitPasses
  <2>2. thread' = [thread EXCEPT ![c] = r] BY <1>0, <2>1 DEF Check, TypeOK
  <2>3. q \in BOOLEAN /\ thread[c] \in ThreadRecords /\ (q = ~Ended(c)) BY <1>0 DEF TypeOK
  <2> HIDE DEF q
  <2>4. r \in ThreadRecords /\ r.pc = "contexts" /\ r.clean = q /\ r.reason = thread[c].reason
    BY <2>3 DEF ThreadRecords, ThreadStates
  <2> HIDE DEF r
  <2>5. thread' \in [Threads -> ThreadRecords] BY <1>0, <2>2, <2>4 DEF TypeOK
  <2>6. thread'[c] = r /\ \A u \in Threads : u # c => thread'[u] = thread[u]
    BY <1>0, <2>2 DEF TypeOK
  <2>7. TypeOK' BY <1>0, <1>2, <1>4, <2>1, <2>5 DEF TypeOK
  <2>8. Placed(c)' BY <1>0, <1>1, <1>2, <2>1, <2>4, <2>6, Goroutines DEF Placed, Deciding
  <2>9. WillSee(c)' BY <1>1, <1>2, <2>3, <2>4, <2>6 DEF WillSee, At, Ended
  <2>10. Holds(c)' BY <1>0, <1>2, <2>4, <2>6 DEF Holds, Finishing
  <2>11. Fine(c)' BY <2>8, <2>9, <2>10 DEF Fine
  <2>12. thread'[c].pc \notin Finishing BY <2>4, <2>6 DEF Finishing
  <2>13. thread[c].pc \notin {"complete", "done"} BY <1>0
  <2> HIDE DEF c
  <2>14. QED BY <1>0, <1>2, <1>5, <2>1, <2>6, <2>7, <2>11, <2>12, <2>13, MoveInv
<1>7. CASE thread[c].passes # 0
  <2> DEFINE r == [AtRest EXCEPT !.pc = "done"]
             w == [thread[Watcher] EXCEPT !.pc = "watch"]
  <2>1. /\ thread' = [thread EXCEPT ![Committer] = [AtRest EXCEPT !.pc = "done"],
                                    ![Watcher].pc = "watch"]
        /\ gate' = [gate EXCEPT !.token = TRUE]
    BY <1>7 DEF CommitPasses
  <2>2. /\ r \in ThreadRecords /\ r.pc = "done" /\ r.reason = None
    BY DEF AtRest, ThreadRecords, ThreadStates
  <2>3. thread[Watcher] \in ThreadRecords BY <1>0, Goroutines DEF TypeOK
  <2>4. /\ w \in ThreadRecords /\ w.pc = "watch" /\ w.reason = thread[Watcher].reason
    BY <2>3 DEF ThreadRecords, ThreadStates
  <2>5. thread' = [[thread EXCEPT ![c] = r] EXCEPT ![Watcher] = w]
    BY <1>0, <2>1, Goroutines DEF TypeOK
  <2> HIDE DEF r, w
  <2>6. /\ thread' \in [Threads -> ThreadRecords]
        /\ thread'[c] = r /\ thread'[Watcher] = w
        /\ \A u \in Threads : u # c /\ u # Watcher => thread'[u] = thread[u]
    BY <1>0, <2>2, <2>4, <2>5, Goroutines DEF TypeOK
  <2>7. /\ gate' \in [burned : BOOLEAN, token : BOOLEAN] /\ gate'.token /\ gate'.burned
    BY <1>0, <1>1, <2>1 DEF TypeOK
  <2>8. TypeOK' BY <1>0, <1>2, <1>4, <2>6, <2>7 DEF TypeOK
  <2>9. ASSUME NEW u \in Threads
        PROVE  Fine(u)' /\ thread'[u].pc \notin Finishing
    <3>1. Holds(u) /\ Placed(u) BY DEF IInv
    <3>2. CASE u = c
      BY <2>2, <2>6, <2>7, <3>2, GateReasonsFail, Goroutines
         DEF Fine, Placed, WillSee, Holds, At, Finishing, Deciding
    <3>3. CASE u = Watcher
      BY <1>2, <2>4, <2>6, <2>7, <3>1, <3>3, Goroutines
         DEF Fine, Placed, WillSee, Holds, At, Finishing
    <3>4. CASE u \in Callers
      <4>1. thread'[u] = thread[u] /\ thread[u].pc = "idle"
        BY <1>1, <2>6, <3>1, <3>4, Goroutines DEF Placed
      <4>2. QED
        BY <1>2, <2>7, <3>1, <3>4, <4>1, Goroutines
           DEF Fine, Placed, WillSee, Holds, At, Finishing
    <3>5. QED BY <3>2, <3>3, <3>4, Goroutines
  <2>10. OneFinishes' BY <2>9 DEF OneFinishes
  <2>11. TerminalSound' BY <1>0, <1>1, <1>2, <2>7 DEF TerminalSound, Recorded
  <2>12. DrainAfterTerminal' BY <1>1, <1>2 DEF IInv, DrainAfterTerminal
  <2>13. QED BY <1>5, <2>8, <2>9, <2>10, <2>11, <2>12 DEF IInv, Fine
<1>8. QED BY <1>6, <1>7

\* finish: the first reason is chosen, and starts the writer of a loopback.
LEMMA ChooseInv == ASSUME IInv, NEW t \in Threads, Choose(t) PROVE IInv'
<1>0. /\ TypeOK /\ Placed(t) /\ Holds(t) /\ TerminalSound /\ thread[t].pc = "choose"
      /\ UNCHANGED <<world, stopping, drain, gate, auth, journal, history>>
    BY DEF IInv, Choose, At
<1>1. thread[t].reason \in Reasons /\ thread[t].reason # None
    BY <1>0 DEF Holds, TypeOK, ThreadRecords
<1>2. thread[t].reason = "success" => auth.first BY <1>0 DEF Holds
<1>3. CASE token.chosen # None
  <2>1. Goto(t, "await") /\ token' = token /\ writer' = writer
    BY <1>3 DEF Choose, Lost
  <2>2. thread'[t].pc = "await" /\ thread'[t].reason = thread[t].reason
    BY <1>0, <2>1, GotoEffect DEF ThreadStates
  <2>3. Placed(t)' BY <1>0, <2>1, <2>2, Goroutines DEF Placed, Deciding
  <2>4. WillSee(t)' BY <2>2 DEF WillSee, At
  <2>5. Holds(t)' BY <1>0, <1>1, <1>2, <2>1, <2>2 DEF Holds, Finishing
  <2>6. "await" \in ThreadStates /\ "await" \notin Finishing BY DEF ThreadStates, Finishing
  <2>7. stopping' \in BOOLEAN BY <1>0 DEF TypeOK
  <2>8. QED BY <1>0, <2>1, <2>3, <2>4, <2>5, <2>6, <2>7, GotoInv
<1>4. CASE token.chosen = None
  <2> DEFINE pc == IF Loopback THEN "close" ELSE "write"
  <2>1. /\ Goto(t, pc) /\ token' = [token EXCEPT !.chosen = thread[t].reason]
        /\ writer' = IF Loopback THEN [writer EXCEPT !.pc = "hook"] ELSE writer
    BY <1>4 DEF Choose, Lost
  <2>2. pc \in ThreadStates /\ pc \in {"close", "write"} BY DEF ThreadStates
  <2>3. /\ thread' \in [Threads -> ThreadRecords]
        /\ \A u \in Threads : u # t => thread'[u] = thread[u]
        /\ thread'[t].pc = pc /\ thread'[t].reason = thread[t].reason
    BY <1>0, <2>1, <2>2, GotoEffect
  <2>4. /\ token'.chosen = thread[t].reason /\ token'.finished = token.finished
        /\ token'.err = token.err
        /\ token' \in [consumed : BOOLEAN, hook : BOOLEAN, chosen : Reasons \cup {None},
                       finished : BOOLEAN, err : BOOLEAN]
    BY <1>0, <1>1, <2>1 DEF TypeOK
  <2>5. /\ writer.pc = "none" /\ ~token.finished /\ ~writer.err /\ ~writer.fault
    BY <1>0, <1>4 DEF TerminalSound
  <2>6. /\ writer'.pc = IF Loopback THEN "hook" ELSE "none"
        /\ ~writer'.err /\ ~writer'.fault
        /\ writer' \in [pc : {"none", "hook", "network", "write", "complete", "done"},
                        err : BOOLEAN, fault : BOOLEAN]
    BY <1>0, <2>1, <2>5 DEF TypeOK
  <2>7. TypeOK' BY <1>0, <2>3, <2>4, <2>6 DEF TypeOK
  <2>8. t # Committer => gate.token
    BY <1>0, Goroutines DEF Placed
  <2>9. thread[Committer].pc \notin Finishing
    BY <1>0, <2>8, Goroutines DEF IInv, Placed, Finishing
  <2>10. NobodyFinishes BY <1>4, <2>9, NobodyYet
  <2>11. gate.burned
    BY <1>0, <2>8 DEF Placed, TerminalSound
  <2>12. journal.records = <<>> \/ ~gate.token
    <3>1. journal.records # <<None>> BY <1>0, GateReasonsFail DEF TypeOK
    <3>2. QED BY <1>0, <1>4, <3>1 DEF TerminalSound
  <2>13. journal.records = <<>>
    <3>1. t = Committer => thread[Committer].pc \notin {"complete", "done"} BY <1>0
    <3>2. journal.records # <<None>> BY <1>0, GateReasonsFail DEF TypeOK
    <3>3. QED BY <1>0, <1>4, <2>8, <3>1, <3>2 DEF TerminalSound
  <2>14. Forward BY <1>0, <1>4 DEF Forward
  <2>15. Placed(t)' BY <1>0, <2>2, <2>3, Goroutines DEF Placed, Deciding
  <2>16. WillSee(t)' BY <2>2, <2>3 DEF WillSee, At
  <2>17. t = Committer => Loopback \/ pc = "write" OBVIOUS
  <2>18. Holds(t)' BY <1>0, <1>1, <1>2, <2>3, <2>4, <2>5 DEF Holds, Finishing
  <2>19. Fine(t)' BY <2>15, <2>16, <2>18 DEF Fine
  <2>20. TerminalSound'
    <3>1. ~(Loopback /\ gate.burned /\ drain = "complete")
      BY <1>0, <2>5 DEF TerminalSound
    <3>2. QED BY <1>0, <1>1, <1>2, <2>4, <2>5, <2>6, <2>11, <2>13, <3>1 DEF TerminalSound
  <2>21. (AuthorityIsFresh /\ DrainAfterTerminal /\ WitnessIsDurable)'
    BY <1>0 DEF IInv, AuthorityIsFresh, DrainAfterTerminal, WitnessIsDurable
  <2>22. t # Committer => thread[Committer].pc \notin Deciding
    BY <2>8, Goroutines DEF IInv, Placed, Deciding
  <2>23. QED
    BY <1>0, <2>3, <2>4, <2>7, <2>10, <2>14, <2>19, <2>20, <2>21, <2>22, StepInv
<1>5. QED BY <1>3, <1>4

\* A losing caller of finish has waited, and returns.
LEMMA AwaitInv == ASSUME IInv, NEW t \in Threads, Await(t) PROVE IInv'
<1>0. /\ TypeOK /\ Placed(t) /\ Holds(t) /\ TerminalSound /\ thread[t].pc = "await"
      /\ token.finished /\ Return(t, Agreed(t))
      /\ UNCHANGED <<world, stopping, drain, gate, token, writer, journal>>
    BY DEF IInv, Await, At
<1>1. Agreed(t) \in BOOLEAN /\ (Agreed(t) => ~token.err) BY DEF Agreed
<1>2. /\ thread' \in [Threads -> ThreadRecords]
      /\ \A u \in Threads : u # t => thread'[u] = thread[u]
      /\ thread'[t].pc = IF t \in Callers THEN "idle" ELSE "done"
      /\ thread'[t].reason = None /\ thread'[t].clean = TRUE
      /\ auth' \in [made : BOOLEAN, first : BOOLEAN, lock : Callers \cup {None}]
      /\ auth'.made = auth.made /\ auth'.first = auth.first
      /\ history' \in [witness : BOOLEAN, stale : BOOLEAN]
      /\ history'.stale = history.stale
      /\ history'.witness => history.witness \/ Agreed(t)
    BY <1>0, <1>1, ReturnEffect
<1>3. TypeOK' BY <1>0, <1>2 DEF TypeOK
<1>4. Agreed(t) => journal.records # <<>>
  <2> SUFFICES ASSUME Agreed(t) PROVE journal.records # <<>> OBVIOUS
  <2>1. journal.records = <<token.chosen>> BY <1>0, <1>1 DEF TerminalSound, Recorded
  <2>2. QED BY <2>1, NotEmpty
<1>5. (AuthorityIsFresh /\ WitnessIsDurable)'
    BY <1>0, <1>2, <1>4 DEF IInv, AuthorityIsFresh, WitnessIsDurable
<1>6. Placed(t)' BY <1>0, <1>2, Goroutines DEF Placed, Deciding
<1>7. WillSee(t)' BY <1>2 DEF WillSee, At
<1>8. Holds(t)' BY <1>2, GateReasonsFail DEF Holds, Finishing
<1>9. Fine(t)' BY <1>6, <1>7, <1>8 DEF Fine
<1>10. thread'[t].pc \notin Finishing BY <1>2 DEF Finishing
<1>11. QED BY <1>0, <1>2, <1>3, <1>5, <1>9, <1>10, MoveInv

\* ledger.Finish leaves one record, the one that was asked for if it gave no error.
LEMMA LedgerEffect ==
    ASSUME TypeOK, NEW reason \in Reasons, NEW err \in BOOLEAN, LedgerFinish(reason, err)
    PROVE  /\ journal' \in [records : {<<>>} \cup {<<r>> : r \in Reasons}, tried : BOOLEAN]
           /\ journal'.tried
           /\ journal.records # <<>> => journal'.records = journal.records
           /\ journal'.records = journal.records \/ journal'.records = <<reason>>
           /\ ~err => journal'.records = <<reason>>
<1>1. CASE journal.records = <<>> /\ journal' = [records |-> <<reason>>, tried |-> TRUE]
    BY <1>1
<1>2. CASE /\ err = (journal.records # <<reason>>)
           /\ journal' = [journal EXCEPT !.tried = TRUE]
    BY <1>2 DEF TypeOK
<1>3. QED BY <1>1, <1>2 DEF LedgerFinish

\* A goroutine goes on with an error, or with none.
LEMMA ErrEffect ==
    ASSUME TypeOK, NEW t \in Threads, NEW pc \in ThreadStates, NEW err \in BOOLEAN,
           thread' = [thread EXCEPT ![t].pc = pc, ![t].err = err]
    PROVE  /\ thread' \in [Threads -> ThreadRecords]
           /\ \A u \in Threads : u # t => thread'[u] = thread[u]
           /\ thread'[t].pc = pc /\ thread'[t].err = err
           /\ thread'[t].reason = thread[t].reason
<1> DEFINE r == [thread[t] EXCEPT !.pc = pc, !.err = err]
<1>1. thread[t] \in ThreadRecords BY DEF TypeOK
<1>2. thread' = [thread EXCEPT ![t] = r] BY DEF TypeOK
<1>3. /\ r \in ThreadRecords /\ r.pc = pc /\ r.err = err /\ r.reason = thread[t].reason
    BY <1>1 DEF ThreadRecords
<1> HIDE DEF r
<1>4. thread' \in [Threads -> ThreadRecords] BY <1>2, <1>3 DEF TypeOK
<1>5. thread'[t] = r /\ \A u \in Threads : u # t => thread'[u] = thread[u] BY <1>2 DEF TypeOK
<1>6. QED BY <1>3, <1>4, <1>5

\* Whoever else is inside finish, Commit has returned the token.
LEMMA CommitIsOver ==
    ASSUME IInv, NEW t \in Threads, t # Committer, thread[t].pc \in Finishing
    PROVE  gate.token /\ thread[Committer].pc = "done"
<1>1. Placed(t) /\ Placed(Committer) BY Goroutines DEF IInv
<1>2. gate.token BY <1>1, Goroutines DEF Placed, Finishing
<1>3. QED BY <1>1, <1>2 DEF Placed

\* The record of the terminal reason is written, without a writer.
LEMMA WriteTerminalInv == ASSUME IInv, NEW t \in Threads, WriteTerminal(t) PROVE IInv'
<1>0. /\ TypeOK /\ Placed(t) /\ Holds(t) /\ TerminalSound /\ thread[t].pc = "write"
      /\ UNCHANGED <<world, stopping, drain, gate, token, auth, writer, history>>
    BY DEF IInv, WriteTerminal, At
<1>1. PICK err \in BOOLEAN :
         /\ LedgerFinish(thread[t].reason, err)
         /\ thread' = [thread EXCEPT ![t].pc = "complete", ![t].err = err]
    BY DEF WriteTerminal, FinishError
<1>2. thread[t].reason \in Reasons /\ ~Loopback /\ thread[t].pc \in Finishing
    BY <1>0 DEF Holds, Finishing, TypeOK, ThreadRecords
<1>3. /\ journal' \in [records : {<<>>} \cup {<<r>> : r \in Reasons}, tried : BOOLEAN]
      /\ journal'.tried
      /\ journal.records # <<>> => journal'.records = journal.records
      /\ journal'.records = journal.records \/ journal'.records = <<thread[t].reason>>
      /\ ~err => journal'.records = <<thread[t].reason>>
    BY <1>0, <1>1, <1>2, LedgerEffect
<1>4. "complete" \in ThreadStates BY DEF ThreadStates
<1>5. /\ thread' \in [Threads -> ThreadRecords]
      /\ \A u \in Threads : u # t => thread'[u] = thread[u]
      /\ thread'[t].pc = "complete" /\ thread'[t].err = err
      /\ thread'[t].reason = thread[t].reason
    BY <1>0, <1>1, <1>4, ErrEffect
<1>6. TypeOK' BY <1>0, <1>3, <1>5 DEF TypeOK
<1>7. Forward BY <1>0, <1>3 DEF Forward
<1>8. t # Committer => gate.token /\ thread[Committer].pc = "done" /\ token.chosen = thread[t].reason
    BY <1>0, <1>2, CommitIsOver DEF Holds
<1>9. Placed(t)' BY <1>0, <1>5, Goroutines DEF Placed, Deciding
<1>10. WillSee(t)' BY <1>5 DEF WillSee, At
<1>11. Holds(t)' BY <1>0, <1>2, <1>3, <1>5 DEF Holds, Finishing
<1>12. Fine(t)' BY <1>9, <1>10, <1>11 DEF Fine
<1>13. TerminalSound'
  <2>1. Recorded => Recorded' BY <1>0, <1>7, RecordedStays
  <2>2. t = Committer => ~gate.token BY <1>0 DEF Placed
  <2>3. journal'.records # <<>> =>
          \/ journal'.records = <<token.chosen>>
          \/ ~gate.token /\ ~Loopback /\ thread'[Committer].pc \in {"complete", "done"}
    BY <1>0, <1>2, <1>3, <1>5, <1>8, <2>2 DEF TerminalSound
  <2>4. QED BY <1>0, <1>2, <1>3, <2>1, <2>3 DEF TerminalSound
<1>14. (AuthorityIsFresh /\ DrainAfterTerminal)'
    BY <1>0, <1>3 DEF IInv, AuthorityIsFresh, DrainAfterTerminal
<1>15. WitnessIsDurable' BY <1>0, <1>3 DEF IInv, WitnessIsDurable
<1>16. t # Committer => thread[Committer].pc \notin Deciding BY <1>8 DEF Deciding
<1>17. QED
    BY <1>0, <1>2, <1>5, <1>6, <1>7, <1>12, <1>13, <1>14, <1>15, <1>16, StepInv

\* The drain is complete; Commit returns, the others publish.
LEMMA CompleteDrainInv == ASSUME IInv, NEW t \in Threads, CompleteDrain(t) PROVE IInv'
<1>0. /\ TypeOK /\ Placed(t) /\ Holds(t) /\ TerminalSound /\ thread[t].pc = "complete"
      /\ drain' = "complete"
      /\ UNCHANGED <<world, stopping, gate, token, writer, journal>>
    BY DEF IInv, CompleteDrain, At
<1>1. /\ ~Loopback /\ thread[t].pc \in Finishing /\ journal.tried /\ thread[t].reason # None
      /\ ~thread[t].err => journal.records = <<thread[t].reason>>
      /\ thread[t].err \in BOOLEAN
    BY <1>0 DEF Holds, Finishing, TypeOK, ThreadRecords
<1>2. ~thread[t].err => journal.records # <<>>
  <2> SUFFICES ASSUME ~thread[t].err PROVE journal.records # <<>> OBVIOUS
  <2>1. journal.records = <<thread[t].reason>> BY <1>1
  <2>2. QED BY <2>1, NotEmpty
<1>3. /\ thread' \in [Threads -> ThreadRecords]
      /\ \A u \in Threads : u # t => thread'[u] = thread[u]
      /\ auth' \in [made : BOOLEAN, first : BOOLEAN, lock : Callers \cup {None}]
      /\ auth'.made = auth.made /\ auth'.first = auth.first
      /\ history' \in [witness : BOOLEAN, stale : BOOLEAN]
      /\ history'.stale = history.stale
      /\ history'.witness => history.witness \/ journal.records # <<>>
      /\ t = Committer => thread'[t].pc = "done" /\ thread'[t].reason = None
      /\ t # Committer => /\ thread'[t].pc = "publish"
                          /\ thread'[t].reason = thread[t].reason
                          /\ thread'[t].err = thread[t].err
  <2>1. CASE t = Committer
    <3>1. Return(t, ~thread[t].err) BY <2>1 DEF CompleteDrain
    <3>2. /\ thread' \in [Threads -> ThreadRecords]
          /\ \A u \in Threads : u # t => thread'[u] = thread[u]
          /\ thread'[t].pc = IF t \in Callers THEN "idle" ELSE "done"
          /\ thread'[t].reason = None
          /\ auth' \in [made : BOOLEAN, first : BOOLEAN, lock : Callers \cup {None}]
          /\ auth'.made = auth.made /\ auth'.first = auth.first
          /\ history' \in [witness : BOOLEAN, stale : BOOLEAN]
          /\ history'.stale = history.stale
          /\ history'.witness => history.witness \/ ~thread[t].err
      BY <1>0, <3>1, ReturnEffect
    <3>3. QED BY <1>2, <2>1, <3>2, Goroutines
  <2>2. CASE t # Committer
    <3>1. Goto(t, "publish") /\ auth' = auth /\ history' = history
      BY <2>2 DEF CompleteDrain
    <3>2. /\ thread' \in [Threads -> ThreadRecords]
          /\ \A u \in Threads : u # t => thread'[u] = thread[u]
          /\ thread'[t].pc = "publish" /\ thread'[t].reason = thread[t].reason
          /\ thread'[t].err = thread[t].err
      BY <1>0, <3>1, GotoEffect DEF ThreadStates
    <3>3. QED BY <1>0, <2>2, <3>1, <3>2 DEF TypeOK
  <2>3. QED BY <2>1, <2>2
<1>4. TypeOK' BY <1>0, <1>3 DEF TypeOK
<1>5. Forward BY <1>0, <1>3 DEF Forward
<1>6. t # Committer => gate.token /\ thread[Committer].pc = "done" /\ token.chosen = thread[t].reason
    BY <1>0, <1>1, CommitIsOver DEF Holds
<1>7. t # Committer => ~token.finished BY <1>0, <1>1 DEF Holds
<1>8. writer.pc = "none" /\ ~writer.err BY <1>0, <1>1 DEF TerminalSound
<1>9. Placed(t)' BY <1>0, <1>3, <1>6, Goroutines DEF Placed, Deciding
<1>10. WillSee(t)' BY <1>3 DEF WillSee, At
<1>11. Holds(t)'
  <2>1. CASE t = Committer BY <1>3, <2>1, GateReasonsFail DEF Holds, Finishing
  <2>2. CASE t # Committer
    <3>1. ~thread[t].err => Recorded' BY <1>0, <1>1, <1>6, <1>8, <2>2 DEF Recorded
    <3>2. thread[t].reason = "success" => auth'.first BY <1>0, <1>3 DEF Holds
    <3>3. QED BY <1>0, <1>1, <1>3, <1>6, <1>7, <2>2, <3>1, <3>2 DEF Holds, Finishing
  <2>3. QED BY <2>1, <2>2
<1>12. Fine(t)' BY <1>9, <1>10, <1>11 DEF Fine
<1>13. TerminalSound'
  <2>1. Recorded => Recorded' BY <1>0, <1>5, RecordedStays
  <2>2. journal.records # <<>> =>
          \/ journal.records = <<token.chosen>>
          \/ ~gate.token /\ ~Loopback /\ thread'[Committer].pc \in {"complete", "done"}
    BY <1>0, <1>3, <1>6 DEF TerminalSound
  <2>3. QED BY <1>0, <1>1, <1>3, <2>1, <2>2 DEF TerminalSound
<1>14. (AuthorityIsFresh /\ DrainAfterTerminal /\ WitnessIsDurable)'
    BY <1>0, <1>1, <1>3 DEF IInv, AuthorityIsFresh, DrainAfterTerminal, WitnessIsDurable
<1>15. t # Committer => thread[Committer].pc \notin Deciding BY <1>6 DEF Deciding
<1>16. QED
    BY <1>0, <1>1, <1>3, <1>4, <1>5, <1>12, <1>13, <1>14, <1>15, StepInv

\* The verdict on the terminal reason is published, and finish returns it.
LEMMA PublishInv == ASSUME IInv, NEW t \in Threads, Publish(t) PROVE IInv'
<1>0. /\ TypeOK /\ Placed(t) /\ Holds(t) /\ TerminalSound /\ thread[t].pc = "publish"
      /\ Return(t, ~thread[t].err)
      /\ token' = [token EXCEPT !.err = thread[t].err, !.finished = TRUE]
      /\ UNCHANGED <<world, stopping, drain, gate, writer, journal>>
    BY DEF IInv, Publish, At, Published
<1>1. /\ thread[t].pc \in Finishing /\ thread[t].err \in BOOLEAN /\ token.chosen # None
    BY <1>0 DEF Holds, Finishing, TypeOK, ThreadRecords
<1>2. /\ token' \in [consumed : BOOLEAN, hook : BOOLEAN, chosen : Reasons \cup {None},
                     finished : BOOLEAN, err : BOOLEAN]
      /\ token'.chosen = token.chosen /\ token'.finished /\ token'.err = thread[t].err
    BY <1>0, <1>1 DEF TypeOK
<1>3. /\ thread' \in [Threads -> ThreadRecords]
      /\ \A u \in Threads : u # t => thread'[u] = thread[u]
      /\ thread'[t].pc = IF t \in Callers THEN "idle" ELSE "done"
      /\ thread'[t].reason = None
      /\ auth' \in [made : BOOLEAN, first : BOOLEAN, lock : Callers \cup {None}]
      /\ auth'.made = auth.made /\ auth'.first = auth.first
      /\ history' \in [witness : BOOLEAN, stale : BOOLEAN]
      /\ history'.stale = history.stale
      /\ history'.witness => history.witness \/ ~thread[t].err
    BY <1>0, ReturnEffect
<1>4. ~thread[t].err => Recorded BY <1>0 DEF Holds
<1>5. Recorded => journal.records # <<>>
  <2> SUFFICES ASSUME Recorded PROVE journal.records # <<>> OBVIOUS
  <2>1. journal.records = <<token.chosen>> BY DEF Recorded
  <2>2. QED BY <2>1, NotEmpty
<1>6. TypeOK' BY <1>0, <1>2, <1>3 DEF TypeOK
<1>7. Forward BY <1>0, <1>2, <1>3 DEF Forward
<1>8. t # Committer => gate.token /\ thread[Committer].pc = "done" BY <1>1, CommitIsOver
<1>9. Placed(t)' BY <1>0, <1>3, <1>8, Goroutines DEF Placed, Deciding
<1>10. WillSee(t)' BY <1>3 DEF WillSee, At
<1>11. Holds(t)' BY <1>3, GateReasonsFail DEF Holds, Finishing
<1>12. Fine(t)' BY <1>9, <1>10, <1>11 DEF Fine
<1>13. TerminalSound'
  <2>1. ~token'.err => Recorded' BY <1>0, <1>2, <1>4, <1>7, RecordedStays
  <2>2. t = Committer => Loopback BY <1>0 DEF Holds
  <2>3. journal.records # <<>> => journal.records = <<token.chosen>>
    BY <1>0, <1>8, <2>2 DEF TerminalSound
  <2>4. QED BY <1>0, <1>1, <1>2, <1>3, <2>1, <2>3 DEF TerminalSound
<1>14. (AuthorityIsFresh /\ DrainAfterTerminal /\ WitnessIsDurable)'
    BY <1>0, <1>3, <1>4, <1>5 DEF IInv, AuthorityIsFresh, DrainAfterTerminal, WitnessIsDurable
<1>15. t # Committer => thread[Committer].pc \notin Deciding BY <1>8 DEF Deciding
<1>16. thread'[t].pc \notin Finishing BY <1>3 DEF Finishing
<1>17. QED
    BY <1>0, <1>1, <1>3, <1>6, <1>7, <1>12, <1>13, <1>14, <1>15, <1>16, StepInv

\* finishLoopback closes the attempt, takes the verdict, reads the writer's error.
LEMMA LoopbackInv ==
    ASSUME IInv, NEW t \in Threads,
           CloseLoopbackAttempt(t) \/ Verdict(t) \/ AwaitWriter(t)
    PROVE  IInv'
<1>0. /\ TypeOK /\ Placed(t) /\ Holds(t) /\ TerminalSound
      /\ UNCHANGED <<world, drain, gate, token, auth, writer, journal, history>>
      /\ thread[t].pc \in {"close", "verdict", "writer"} /\ stopping' \in {TRUE, stopping}
    BY DEF IInv, CloseLoopbackAttempt, Verdict, AwaitWriter, At
<1>1. /\ thread[t].pc \in Finishing /\ Loopback /\ stopping' \in BOOLEAN
      /\ stopping => stopping'
      /\ thread[t].reason # None /\ token.chosen = thread[t].reason /\ ~token.finished
    BY <1>0 DEF Holds, Finishing, TypeOK
<1>2. ASSUME NEW pc \in {"verdict", "publish", "writer"}, NEW err \in BOOLEAN,
             thread'[t].pc = pc, thread'[t].err = err, thread'[t].reason = thread[t].reason,
             thread' \in [Threads -> ThreadRecords],
             \A u \in Threads : u # t => thread'[u] = thread[u],
             pc = "publish" /\ ~err => Recorded,
             pc = "writer" => writer.pc = "done" /\ ~writer.fault /\ drain = "complete"
      PROVE  IInv'
  <2>1. TypeOK' BY <1>0, <1>1, <1>2 DEF TypeOK
  <2>2. Placed(t)' BY <1>0, <1>2, Goroutines DEF Placed, Deciding
  <2>3. WillSee(t)' BY <1>2 DEF WillSee, At
  <2>4. Recorded => Recorded' BY <1>0 DEF Recorded
  <2>5. Holds(t)' BY <1>0, <1>1, <1>2, <2>4 DEF Holds, Finishing
  <2>6. Fine(t)' BY <2>2, <2>3, <2>5 DEF Fine
  <2>7. AuthorityIsFresh' /\ WitnessIsDurable'
    BY <1>0 DEF IInv, AuthorityIsFresh, WitnessIsDurable
  <2>8. thread[t].pc \notin {"complete", "done"} BY <1>0
  <2>9. QED BY <1>0, <1>1, <1>2, <2>1, <2>6, <2>7, <2>8, MoveInv
<1>3. thread[t].err \in BOOLEAN BY <1>0 DEF TypeOK, ThreadRecords
<1>4. CASE CloseLoopbackAttempt(t)
  <2>1. Goto(t, "verdict") BY <1>4 DEF CloseLoopbackAttempt
  <2>2. /\ thread' \in [Threads -> ThreadRecords]
        /\ \A u \in Threads : u # t => thread'[u] = thread[u]
        /\ thread'[t].pc = "verdict" /\ thread'[t].reason = thread[t].reason
        /\ thread'[t].err = thread[t].err
    BY <1>0, <2>1, GotoEffect DEF ThreadStates
  <2>3. QED BY <1>2, <1>3, <2>2
<1>5. CASE Verdict(t)
  <2>1. CASE drain = "complete" /\ ~writer.fault /\ Goto(t, "writer")
    <3>1. /\ thread' \in [Threads -> ThreadRecords]
          /\ \A u \in Threads : u # t => thread'[u] = thread[u]
          /\ thread'[t].pc = "writer" /\ thread'[t].reason = thread[t].reason
          /\ thread'[t].err = thread[t].err
      BY <1>0, <2>1, GotoEffect DEF ThreadStates
    <3>2. writer.pc = "done" BY <1>0, <1>1, <2>1 DEF TerminalSound
    <3>3. QED BY <1>2, <1>3, <2>1, <3>1, <3>2
  <2>2. CASE thread' = [thread EXCEPT ![t].pc = "publish", ![t].err = TRUE]
    <3>1. /\ thread' \in [Threads -> ThreadRecords]
          /\ \A u \in Threads : u # t => thread'[u] = thread[u]
          /\ thread'[t].pc = "publish" /\ thread'[t].reason = thread[t].reason
          /\ thread'[t].err = TRUE
      BY <1>0, <2>2, ErrEffect DEF ThreadStates
    <3>2. QED BY <1>2, <3>1
  <2>3. QED BY <1>5, <2>1, <2>2 DEF Verdict
<1>6. CASE AwaitWriter(t)
  <2>1. /\ thread' = [thread EXCEPT ![t].pc = "publish", ![t].err = writer.err]
        /\ thread[t].pc = "writer"
    BY <1>6 DEF AwaitWriter, WriterError, At
  <2>2. writer.err \in BOOLEAN BY <1>0 DEF TypeOK
  <2>3. /\ thread' \in [Threads -> ThreadRecords]
        /\ \A u \in Threads : u # t => thread'[u] = thread[u]
        /\ thread'[t].pc = "publish" /\ thread'[t].reason = thread[t].reason
        /\ thread'[t].err = writer.err
    BY <1>0, <2>1, <2>2, ErrEffect DEF ThreadStates
  <2>4. ~writer.err => Recorded
    BY <1>0, <1>1, <2>1 DEF Holds, TerminalSound, Recorded
  <2>5. QED BY <1>2, <2>2, <2>3, <2>4
<1>7. QED BY <1>4, <1>5, <1>6

\* The writer of a loopback attempt: hook, network, record, drain.
LEMMA WriterInv == ASSUME IInv, WriterStep PROVE IInv'
<1>0. /\ TypeOK /\ TerminalSound /\ Placed(Committer) /\ Committer \in Threads
      /\ UNCHANGED <<world, gate, token, auth, thread, history>>
    BY Goroutines
       DEF IInv, WriterStep, WriterHook, WriterNetwork, WriterWrite, WriterCompletes
<1>1. writer.pc \in {"hook", "network", "write", "complete"}
    BY DEF WriterStep, WriterHook, WriterNetwork, WriterWrite, WriterCompletes
<1>2. /\ Loopback /\ token.chosen # None /\ token.chosen \in Reasons /\ gate.burned
      /\ drain # "complete" /\ thread[Committer].pc \notin Deciding
    BY <1>0, <1>1 DEF TerminalSound, Placed, TypeOK
<1>3. journal.records # <<>> => journal.records = <<token.chosen>>
    BY <1>0, <1>2 DEF TerminalSound
<1>4. /\ writer' \in [pc : {"none", "hook", "network", "write", "complete", "done"},
                      err : BOOLEAN, fault : BOOLEAN]
      /\ journal' \in [records : {<<>>} \cup {<<r>> : r \in Reasons}, tried : BOOLEAN]
      /\ drain' \in {"none", "registered", "complete"} /\ stopping' \in BOOLEAN
      /\ writer'.pc # "none"
      /\ stopping => stopping'
      /\ journal.records # <<>> => journal'.records = journal.records
      /\ journal'.records # <<>> => journal'.records = <<token.chosen>>
      /\ journal.tried => journal'.tried
      /\ drain' = "complete" => writer'.pc = "done"
      /\ writer'.pc \in {"complete", "done"} =>
            /\ journal'.tried
            /\ ~writer'.fault => journal'.records = <<token.chosen>>
  <2>1. CASE WriterHook
    <3>1. PICK err \in BOOLEAN : writer' = [writer EXCEPT !.pc = "network", !.err = err]
      BY <2>1 DEF WriterHook
    <3>2. UNCHANGED <<stopping, drain, journal>> BY <2>1 DEF WriterHook
    <3>3. QED BY <1>0, <1>2, <1>3, <3>1, <3>2 DEF TypeOK
  <2>2. CASE WriterNetwork
    <3>1. PICK err \in BOOLEAN :
             writer' = [pc |-> "write", err |-> writer.err \/ err, fault |-> err]
      BY <2>2 DEF WriterNetwork
    <3>2. UNCHANGED <<drain, journal>> /\ stopping' = TRUE BY <2>2 DEF WriterNetwork
    <3>3. QED BY <1>0, <1>2, <1>3, <3>1, <3>2 DEF TypeOK
  <2>3. CASE WriterWrite
    <3>1. PICK err \in BOOLEAN :
             /\ LedgerFinish(token.chosen, err)
             /\ writer' = [pc |-> "complete", err |-> writer.err \/ err,
                           fault |-> writer.fault \/ err]
      BY <2>3 DEF WriterWrite
    <3>2. UNCHANGED <<drain, stopping>> BY <2>3 DEF WriterWrite
    <3>3. /\ journal' \in [records : {<<>>} \cup {<<r>> : r \in Reasons}, tried : BOOLEAN]
          /\ journal'.tried
          /\ journal.records # <<>> => journal'.records = journal.records
          /\ journal'.records = journal.records \/ journal'.records = <<token.chosen>>
          /\ ~err => journal'.records = <<token.chosen>>
      BY <1>0, <1>2, <3>1, LedgerEffect
    <3>4. /\ writer'.pc = "complete"
          /\ writer' \in [pc : {"none", "hook", "network", "write", "complete", "done"},
                          err : BOOLEAN, fault : BOOLEAN]
          /\ ~writer'.fault => ~err
      BY <1>0, <3>1 DEF TypeOK
    <3>5. QED BY <1>0, <1>2, <1>3, <3>2, <3>3, <3>4 DEF TypeOK
  <2>4. CASE WriterCompletes
    <3>1. /\ writer' = [writer EXCEPT !.pc = "done"] /\ drain' = "complete"
          /\ writer.pc = "complete" /\ UNCHANGED <<stopping, journal>>
      BY <2>4 DEF WriterCompletes
    <3>2. /\ writer'.pc = "done" /\ writer'.fault = writer.fault
          /\ writer' \in [pc : {"none", "hook", "network", "write", "complete", "done"},
                          err : BOOLEAN, fault : BOOLEAN]
      BY <1>0, <3>1 DEF TypeOK
    <3>3. journal.tried /\ (~writer.fault => journal.records = <<token.chosen>>)
      BY <1>0, <3>1 DEF TerminalSound
    <3>4. QED BY <1>0, <1>3, <3>1, <3>2, <3>3 DEF TypeOK
  <2>5. QED BY <2>1, <2>2, <2>3, <2>4 DEF WriterStep
<1>5. TypeOK' BY <1>0, <1>4 DEF TypeOK
<1>6. Forward BY <1>0, <1>1, <1>2, <1>4 DEF Forward
<1>7. ASSUME NEW u \in Threads PROVE Fine(u)' BY <1>0, <1>2, <1>6, Unmoved
<1>8. OneFinishes' BY <1>0 DEF IInv, OneFinishes
<1>9. TerminalSound'
  <2>1. Recorded => Recorded' BY <1>0, <1>6, RecordedStays
  <2>2. QED BY <1>0, <1>2, <1>4, <2>1 DEF TerminalSound
<1>10. (AuthorityIsFresh /\ WitnessIsDurable)'
    BY <1>0, <1>4 DEF IInv, AuthorityIsFresh, WitnessIsDurable
<1>11. DrainAfterTerminal' BY <1>4 DEF DrainAfterTerminal
<1>12. QED BY <1>5, <1>7, <1>8, <1>9, <1>10, <1>11 DEF IInv, Fine

-----------------------------------------------------------------------------
(* The theorems *)

\* Nothing has been called yet.
LEMMA InitInv == ASSUME Init PROVE IInv
<1> DEFINE c == [AtRest EXCEPT !.pc = "precheck", !.op = "commit"]
           w == [AtRest EXCEPT !.pc = "none"]
<1>1. /\ AtRest \in ThreadRecords /\ AtRest.pc = "idle" /\ AtRest.reason = None
      /\ c \in ThreadRecords /\ c.pc = "precheck" /\ c.reason = None
      /\ w \in ThreadRecords /\ w.pc = "none" /\ w.reason = None
    BY DEF AtRest, ThreadRecords, ThreadStates
<1>2. thread = [t \in Threads |-> IF t = Committer THEN c
                                  ELSE IF t = Watcher THEN w ELSE AtRest]
    BY DEF Init
<1> HIDE DEF c, w
<1>3. /\ thread \in [Threads -> ThreadRecords]
      /\ \A t \in Threads :
            /\ thread[t].reason = None
            /\ thread[t].pc = IF t = Committer THEN "precheck"
                              ELSE IF t = Watcher THEN "none" ELSE "idle"
    BY <1>1, <1>2
<1>4. /\ world = [ctx |-> None, call |-> None, expired |-> FALSE, trip |-> FALSE]
      /\ stopping = FALSE /\ drain = "none"
      /\ gate = [burned |-> FALSE, token |-> FALSE]
      /\ token = [consumed |-> FALSE, hook |-> FALSE, chosen |-> None,
                  finished |-> FALSE, err |-> FALSE]
      /\ auth = [made |-> FALSE, first |-> FALSE, lock |-> None]
      /\ writer = [pc |-> "none", err |-> FALSE, fault |-> FALSE]
      /\ journal = [records |-> <<>>, tried |-> FALSE]
      /\ history = [witness |-> FALSE, stale |-> FALSE]
    BY DEF Init
<1>5. TypeOK BY <1>3, <1>4 DEF TypeOK
<1>6. ASSUME NEW t \in Threads PROVE Placed(t) /\ WillSee(t) /\ Holds(t)
  <2>1. Placed(t) BY <1>3, <1>4, Goroutines DEF Placed, Deciding
  <2>2. WillSee(t) BY <1>3 DEF WillSee, At
  <2>3. Holds(t) BY <1>3, GateReasonsFail DEF Holds, Finishing
  <2>4. QED BY <2>1, <2>2, <2>3
<1>7. OneFinishes BY <1>3 DEF OneFinishes, Finishing
<1>8. TerminalSound BY <1>4, GateReasonsFail DEF TerminalSound
<1>9. AuthorityIsFresh /\ DrainAfterTerminal /\ WitnessIsDurable
    BY <1>4 DEF AuthorityIsFresh, DrainAfterTerminal, WitnessIsDurable
<1>10. QED BY <1>5, <1>6, <1>7, <1>8, <1>9 DEF IInv

\* No step of the gate breaks the invariant.
LEMMA NextInv == ASSUME IInv, [Next]_vars PROVE IInv'
<1>1. CASE ContextEnds \/ Expire \/ LeaseStops \/ TripFileBlocks BY <1>1, WorldInv
<1>2. CASE WriterStep BY <1>2, WriterInv
<1>3. ASSUME NEW t \in Threads, ThreadStep(t) PROVE IInv'
  <2>1. CASE Choose(t) BY <2>1, ChooseInv
  <2>2. CASE Await(t) BY <2>2, AwaitInv
  <2>3. CASE WriteTerminal(t) BY <2>3, WriteTerminalInv
  <2>4. CASE CompleteDrain(t) BY <2>4, CompleteDrainInv
  <2>5. CASE Publish(t) BY <2>5, PublishInv
  <2>6. CASE CloseLoopbackAttempt(t) \/ Verdict(t) \/ AwaitWriter(t) BY <2>6, LoopbackInv
  <2>7. CASE CheckTerminal(t) \/ CheckContexts(t) \/ CheckExpiry(t) \/ CheckLeaseFails(t)
    BY <2>7, ValidateInv
  <2>8. CASE CheckPasses(t) BY <2>8, PassInv
  <2>9. CASE CommitStep
    BY <2>9, PrecheckInv, RegisterInv, AdmitInv, CommitPassInv DEF CommitStep
  <2>10. CASE Watch BY <2>10, WatchInv
  <2>11. QED
    BY <1>3, <2>1, <2>2, <2>3, <2>4, <2>5, <2>6, <2>7, <2>8, <2>9, <2>10
       DEF ThreadStep, FinishStep, ValidateStep
<1>4. ASSUME NEW t \in Callers, CarrierStep(t) PROVE IInv' BY <1>4, CarrierInv
<1>5. CASE UNCHANGED vars
  <2>1. UNCHANGED <<world, stopping, drain, gate, token, auth, writer, journal, thread, history>>
    BY <1>5 DEF vars
  <2>2. TypeOK' BY <2>1 DEF IInv, TypeOK
  <2>3. Forward BY <2>1 DEF Forward
  <2>4. ASSUME NEW u \in Threads PROVE Fine(u)' BY <2>1, <2>3, Unmoved
  <2>5. (OneFinishes /\ TerminalSound)' BY <2>1 DEF IInv, OneFinishes, TerminalSound, Recorded
  <2>6. (AuthorityIsFresh /\ DrainAfterTerminal /\ WitnessIsDurable)'
    BY <2>1 DEF IInv, AuthorityIsFresh, DrainAfterTerminal, WitnessIsDurable
  <2>7. QED BY <2>2, <2>4, <2>5, <2>6 DEF IInv, Fine
<1>6. QED BY <1>1, <1>2, <1>3, <1>4, <1>5 DEF Next

\* The inductive invariant holds in every state of the gate, whatever the
\* contexts, the clock, the lease, the journal and the network do.
THEOREM Invariance == Spec => []IInv
BY InitInv, NextInv, PTL DEF Spec

\* What the gate promises (pairing_gate.go): one terminal reason wins, no
\* authority is granted on a check that began too late, the drain is given back
\* only after the record was tried, and neither a nil error nor a witness is
\* handed out without the record.
THEOREM AdmissionIsSafe == Spec => []AdmissionSafe
<1>1. IInv => AdmissionSafe
  <2> SUFFICES ASSUME IInv PROVE AdmissionSafe OBVIOUS
  <2>1. OneTerminalWins BY DEF IInv, TerminalSound, OneTerminalWins
  <2>2. NilErrorMeansDone BY DEF IInv, TerminalSound, Recorded, NilErrorMeansDone
  <2>3. QED BY <2>1, <2>2 DEF IInv, AdmissionSafe
<1>2. QED BY <1>1, Invariance, PTL

-----------------------------------------------------------------------------
(* Proof of OneOwner and Reserved, for any number of sockets and targets.  *)

ControllerConstants ==
    /\ IsFiniteSet(Socks) /\ IsFiniteSet(Targets) /\ NoSock \notin Socks
    /\ MaxSockets \in Nat /\ MaxTargets \in Nat /\ MaxTuples \in Nat
    /\ MaxPackets \in Nat /\ MaxRate \in Nat

Stages == {"none", "opening", "late", "open", "promoting", "promoted", "closed"}
LeaseStates == {"issued", "inactive", "adopted", "standby", "passed", "closed"}

ProbeShapes ==
    /\ pcSock \in [Socks -> Stages] /\ pcOpen \in SUBSET Socks
    /\ pcCloser \in [Socks -> {"none", "late", "self", "promote", "stop"}]
    /\ pcTargets \in [Socks -> SUBSET Targets] /\ pcVerified \in [Socks -> SUBSET Targets]
    /\ pcSent \in Nat /\ pcRate \in Nat
    /\ pcStopped \in BOOLEAN /\ pcPromoted \in BOOLEAN /\ pcStop \in {"no", "detached", "done"}
    /\ pcPromote \in [pc : InPromotion \cup {"none", "done"}, sock : Socks \cup {NoSock}]
    /\ tlState \in LeaseStates /\ tlSock \in Socks \cup {NoSock}

\* A socket before its datagram, with it, and after it was given away; who is
\* to close it when nobody reads or writes it any more.
PlacedSocket(s) ==
    /\ pcSock[s] \in {"none", "opening"} => s \notin pcOpen
    /\ pcSock[s] \in {"open", "promoting"} => s \in pcOpen
    /\ pcSock[s] \notin {"late", "closed"} => pcCloser[s] = "none"
    /\ s \in pcOpen /\ pcSock[s] \in {"late", "closed"} => pcCloser[s] # "none"

\* A promoted socket is the one of the promotion, which holds it until the
\* lease does.
Given(s) ==
    pcSock[s] = "promoted" =>
        /\ pcPromoted /\ pcPromote.sock = s
        /\ s \in pcOpen => pcPromote.pc \in InPromotion \/ tlSock = s

\* What was verified, or is being verified for an open socket, is a target.
Answered(s) ==
    /\ pcVerified[s] \subseteq pcTargets[s]
    /\ \A x \in Targets :
        <<s, "verify", x>> \in pcOps /\ pcSock[s] \in {"none", "opening", "open"} =>
            x \in pcTargets[s]

Handed ==
    /\ pcPromoted => pcStopped
    /\ ~pcPromoted => pcPromote = NoPromotion
    /\ pcPromote.pc \in InPromotion =>
        /\ pcPromote.sock \in pcOpen /\ pcSock[pcPromote.sock] = "promoted" /\ tlSock = NoSock
    /\ tlSock # NoSock =>
        /\ pcPromote = [pc |-> "done", sock |-> tlSock]
        /\ tlSock \in pcOpen /\ pcSock[tlSock] = "promoted" /\ tlState # "closed"

\* After a stop nothing begins, so what it waited for stays ended.
Ends ==
    /\ pcStop # "no" => pcStopped
    /\ pcStop = "done" => pcOps = {} /\ Pending = {}

Slots == {s \in Socks : pcSock[s] \in {"opening", "open", "promoting"}}
Budgets ==
    /\ pcSent <= MaxPackets /\ pcRate <= MaxRate
    /\ Cardinality(Slots) <= MaxSockets
    /\ Cardinality(TargetRefs) <= MaxTargets /\ FiveTuples <= MaxTuples

ProbeIInv ==
    /\ ProbeShapes /\ Handed /\ Ends /\ Budgets
    /\ \A s \in Socks : PlacedSocket(s) /\ Given(s) /\ Answered(s)

\* The slots of the reservation are the listed and the pending sockets.
LEMMA SlotsSum ==
    ASSUME ControllerConstants
    PROVE  /\ Cardinality(Listed) + Cardinality(Pending) = Cardinality(Slots)
           /\ IsFiniteSet(Slots) /\ Cardinality(Slots) \in Nat
<1>1. IsFiniteSet(Listed) /\ IsFiniteSet(Pending) /\ IsFiniteSet(Slots)
  <2>1. Listed \in SUBSET Socks /\ Pending \in SUBSET Socks /\ Slots \in SUBSET Socks
    BY DEF Listed, Pending, Slots
  <2>2. QED BY <2>1, FS_Subset DEF ControllerConstants
<1>2. Listed \cup Pending = Slots /\ Listed \cap Pending = {} BY DEF Listed, Pending, Slots
<1>3. Cardinality(Listed \cup Pending) =
        Cardinality(Listed) + Cardinality(Pending) - Cardinality(Listed \cap Pending)
  BY <1>1, FS_Union
<1>4. Cardinality(Listed) \in Nat /\ Cardinality(Pending) \in Nat BY <1>1, FS_CardinalityType
<1>5. Cardinality(Listed \cap Pending) = 0 BY <1>2, FS_EmptySet
<1>6. Cardinality(Slots) \in Nat BY <1>1, FS_CardinalityType
<1>7. QED BY <1>1, <1>2, <1>3, <1>4, <1>5, <1>6

\* Fewer sockets and fewer targets keep the reservation.
LEMMA Fewer ==
    ASSUME ControllerConstants, ProbeShapes, Budgets, Slots' \subseteq Slots,
           \A s \in Socks : pcTargets'[s] \subseteq pcTargets[s],
           pcSent' <= MaxPackets, pcRate' <= MaxRate
    PROVE  Budgets'
<1>1. /\ Slots \in SUBSET Socks /\ TargetRefs \in SUBSET Targets
      /\ Tuples \in SUBSET (Socks \X Targets)
  BY DEF Slots, TargetRefs, Tuples, ProbeShapes
<1>2. IsFiniteSet(Slots) /\ IsFiniteSet(TargetRefs) /\ IsFiniteSet(Tuples)
  <2>1. IsFiniteSet(Socks \X Targets) BY FS_Product DEF ControllerConstants
  <2>2. QED BY <1>1, <2>1, FS_Subset DEF ControllerConstants
<1>3. TargetRefs' \subseteq TargetRefs /\ Tuples' \subseteq Tuples BY DEF TargetRefs, Tuples
<1>4. /\ Cardinality(Slots') <= Cardinality(Slots) /\ Cardinality(Slots') \in Nat
      /\ Cardinality(Slots) \in Nat
  BY <1>2, FS_Subset, FS_CardinalityType
<1>5. /\ Cardinality(TargetRefs') <= Cardinality(TargetRefs) /\ Cardinality(TargetRefs') \in Nat
      /\ Cardinality(TargetRefs) \in Nat
  BY <1>2, <1>3, FS_Subset, FS_CardinalityType
<1>6. /\ Cardinality(Tuples') <= Cardinality(Tuples) /\ Cardinality(Tuples') \in Nat
      /\ Cardinality(Tuples) \in Nat
  BY <1>2, <1>3, FS_Subset, FS_CardinalityType
<1>7. QED BY <1>4, <1>5, <1>6 DEF Budgets, FiveTuples, Tuples, ControllerConstants

\* A step that leaves sockets, promotion and the lease's hold alone.
LEMMA Aside ==
    ASSUME ControllerConstants, ProbeIInv,
           UNCHANGED <<pcSock, pcOpen, pcCloser, pcTargets, pcVerified, pcStopped, pcPromoted,
                       pcPromote, tlSock>>,
           tlState' \in LeaseStates, tlState' = "closed" => tlState = "closed",
           pcSent' \in Nat, pcRate' \in Nat, pcSent' <= MaxPackets, pcRate' <= MaxRate,
           pcStop' \in {"no", "detached", "done"}, Ends', \A t \in Socks : Answered(t)'
    PROVE  ProbeIInv'
<1>1. ProbeShapes' BY DEF ProbeIInv, ProbeShapes
<1>2. \A t \in Socks : PlacedSocket(t)' BY DEF ProbeIInv, PlacedSocket
<1>3. \A t \in Socks : Given(t)' BY DEF ProbeIInv, Given
<1>4. Handed' BY DEF ProbeIInv, Handed, NoPromotion
<1>5. Slots' \subseteq Slots BY DEF Slots
<1>6. \A t \in Socks : pcTargets'[t] \subseteq pcTargets[t] OBVIOUS
<1>7. Budgets' BY <1>5, <1>6, Fewer DEF ProbeIInv
<1>8. QED BY <1>1, <1>2, <1>3, <1>4, <1>7 DEF ProbeIInv

\* Operations begin and end; a read's answer is about to be verified.
LEMMA OpsInv ==
    ASSUME ControllerConstants, ProbeIInv, NEW s \in Socks,
           \/ \E x \in Targets : SendBegin(s, x)
           \/ SendEnd(s) \/ ReceiveBegin(s) \/ ReadReturns(s)
    PROVE  ProbeIInv'
<1>1. UNCHANGED <<pcSock, pcOpen, pcCloser, pcTargets, pcVerified, pcStopped, pcPromoted,
                  pcPromote, tlSock, tlState, pcStop>>
  BY DEF SendBegin, SendEnd, ReceiveBegin, ReadReturns, Rest, drains, lease
<1>2. /\ pcSent' \in Nat /\ pcRate' \in Nat /\ pcSent' <= MaxPackets /\ pcRate' <= MaxRate
  BY DEF SendBegin, SendEnd, ReceiveBegin, ReadReturns, SendOver, meter, ProbeIInv, ProbeShapes, Budgets,
         ControllerConstants
<1>3. \A op \in pcOps' : \/ op \in pcOps
                         \/ op \in {<<s, "send">>, <<s, "read">>} /\ ~pcStopped
                         \/ \E x \in pcTargets[s] : op = <<s, "verify", x>> /\ ~pcStopped
  BY DEF SendBegin, SendEnd, ReceiveBegin, ReadReturns, Guard, StillOpen
<1>4. \A t \in Socks : Answered(t)' BY <1>1, <1>3 DEF ProbeIInv, Answered
<1>5. Ends' BY <1>1, <1>3 DEF ProbeIInv, Ends, Pending
<1>6. QED BY <1>1, <1>2, <1>4, <1>5, Aside DEF ProbeIInv, ProbeShapes

\* The steps of the lease that keep what it holds.
LEMMA LeaseInv ==
    ASSUME ControllerConstants, ProbeIInv,
           Adopt \/ MarkStandby \/ MarkChallengePassed \/ DetachAfterFinish
    PROVE  ProbeIInv'
<1>1. UNCHANGED <<pcSock, pcOpen, pcCloser, pcTargets, pcVerified, pcOps, pcStopped, pcPromoted,
                  pcPromote, tlSock, pcStop, pcSent, pcRate>>
  BY DEF Adopt, MarkStandby, MarkChallengePassed, LeaseStep, DetachAfterFinish, ctl, socks, meter,
         drains
<1>2. tlState' \in LeaseStates /\ tlState' # "closed"
  BY DEF Adopt, MarkStandby, MarkChallengePassed, LeaseStep, DetachAfterFinish, LeaseStates
<1>3. Ends' /\ \A t \in Socks : Answered(t)' BY <1>1 DEF ProbeIInv, Ends, Pending, Answered
<1>4. QED BY <1>1, <1>2, <1>3, Aside DEF ProbeIInv, ProbeShapes, Budgets

\* The watcher, the timer and the world.
LEMMA WatcherInv ==
    ASSUME ControllerConstants, ProbeIInv,
           \/ WatchTimer \/ Poison \/ StopDone \/ WatchDone \/ AttemptStops
           \/ GenerationAdvances \/ DurationPasses \/ SecondPasses
    PROVE  ProbeIInv'
<1>1. UNCHANGED <<pcSock, pcOpen, pcCloser, pcTargets, pcVerified, pcOps, pcStopped, pcPromoted,
                  pcPromote, tlSock, tlState, pcSent>>
  BY DEF WatchTimer, Poison, StopDone, WatchDone, AttemptStops, GenerationAdvances,
         DurationPasses, SecondPasses, Rest, ctl, socks, meter, lease
<1>2. pcRate' \in Nat /\ pcRate' <= pcRate
  BY DEF WatchTimer, Poison, StopDone, WatchDone, AttemptStops, GenerationAdvances,
         DurationPasses, SecondPasses, meter, ProbeIInv, ProbeShapes
<1>3. pcStop' = pcStop \/ (pcStop = "detached" /\ pcStop' = "done" /\ Pending = {} /\ pcOps = {})
  BY DEF WatchTimer, Poison, StopDone, WatchDone, AttemptStops, GenerationAdvances,
         DurationPasses, SecondPasses, Rest, drains
<1>4. Ends' BY <1>1, <1>3 DEF ProbeIInv, Ends, Pending
<1>5. \A t \in Socks : Answered(t)' BY <1>1 DEF ProbeIInv, Answered
<1>6. QED BY <1>1, <1>2, <1>3, <1>4, <1>5, Aside DEF ProbeIInv, ProbeShapes, Budgets, ControllerConstants

\* The slot is taken before the factory is called.
LEMMA OpenBeginInv ==
    ASSUME ControllerConstants, ProbeIInv, NEW s \in Socks, OpenBegin(s)
    PROVE  ProbeIInv'
<1>1. ProbeShapes' BY DEF OpenBegin, Rest, meter, drains, lease, ProbeIInv, ProbeShapes, Stages
<1>2. \A t \in Socks : PlacedSocket(t)' BY DEF OpenBegin, ProbeIInv, PlacedSocket
<1>3. \A t \in Socks : Given(t)' BY DEF OpenBegin, Rest, lease, ProbeIInv, Given
<1>4. \A t \in Socks : Answered(t)' BY DEF OpenBegin, ProbeIInv, Answered
<1>5. Handed' BY DEF OpenBegin, Rest, lease, ProbeIInv, Handed
<1>6. Ends' BY DEF OpenBegin, Rest, drains, Guard, ProbeIInv, Ends, Pending
<1>7. Budgets'
  <2>1. CASE pcSock' = pcSock
    <3>1. Slots' \subseteq Slots BY <2>1 DEF Slots
    <3>2. UNCHANGED <<pcTargets, pcSent, pcRate>> BY DEF OpenBegin, meter
    <3>3. pcSent' <= MaxPackets /\ pcRate' <= MaxRate BY <3>2 DEF ProbeIInv, Budgets
    <3>4. QED BY <3>1, <3>2, <3>3, Fewer DEF ProbeIInv
  <2>2. CASE pcSock' # pcSock
    <3>1. /\ pcSock' = [pcSock EXCEPT ![s] = "opening"]
          /\ ~(Cardinality(Listed) + Cardinality(Pending) >= MaxSockets)
          /\ pcSock[s] = "none" /\ UNCHANGED <<pcTargets, pcSent, pcRate>>
      BY <2>2 DEF OpenBegin, meter
    <3>2. Cardinality(Slots) < MaxSockets /\ IsFiniteSet(Slots) /\ Cardinality(Slots) \in Nat
      BY <3>1, SlotsSum DEF ControllerConstants
    <3>3. Slots' = Slots \cup {s} /\ s \notin Slots BY <3>1 DEF Slots, ProbeIInv, ProbeShapes
    <3>4. Cardinality(Slots') = Cardinality(Slots) + 1 BY <3>2, <3>3, FS_AddElement
    <3>5. TargetRefs' = TargetRefs /\ FiveTuples' = FiveTuples
      BY <3>1 DEF TargetRefs, FiveTuples, Tuples
    <3>6. QED BY <3>1, <3>2, <3>4, <3>5 DEF ProbeIInv, Budgets, ControllerConstants
  <2>3. QED BY <2>1, <2>2
<1>8. QED BY <1>1, <1>2, <1>3, <1>4, <1>5, <1>6, <1>7 DEF ProbeIInv

\* The datagram has an owner or a closer as soon as it exists.
LEMMA OpenReturnInv ==
    ASSUME ControllerConstants, ProbeIInv, NEW s \in Socks, OpenReturn(s)
    PROVE  ProbeIInv'
<1>1. ProbeShapes' BY DEF OpenReturn, Rest, meter, drains, lease, ProbeIInv, ProbeShapes, Stages
<1>2. \A t \in Socks : PlacedSocket(t)' BY DEF OpenReturn, ProbeIInv, ProbeShapes, PlacedSocket
<1>3. \A t \in Socks : Given(t)' BY DEF OpenReturn, Rest, lease, ProbeIInv, ProbeShapes, Given
<1>4. \A t \in Socks : Answered(t)' BY DEF OpenReturn, ProbeIInv, ProbeShapes, Answered
<1>5. Handed' BY DEF OpenReturn, Rest, lease, ProbeIInv, ProbeShapes, Handed
<1>6. Ends' BY DEF OpenReturn, Rest, drains, ProbeIInv, Ends, Pending
<1>7. Budgets'
  <2>1. Slots' \subseteq Slots BY DEF OpenReturn, ProbeIInv, ProbeShapes, Slots
  <2>2. \A t \in Socks : pcTargets'[t] \subseteq pcTargets[t] BY DEF OpenReturn
  <2>3. pcSent' <= MaxPackets /\ pcRate' <= MaxRate BY DEF OpenReturn, meter, ProbeIInv, Budgets
  <2>4. QED BY <2>1, <2>2, <2>3, Fewer DEF ProbeIInv
<1>8. QED BY <1>1, <1>2, <1>3, <1>4, <1>5, <1>6, <1>7 DEF ProbeIInv

\* A target is counted as it is registered.
LEMMA RegisterTargetInv ==
    ASSUME ControllerConstants, ProbeIInv, NEW s \in Socks, NEW x \in Targets, RegisterTarget(s, x)
    PROVE  ProbeIInv'
<1>1. ProbeShapes' BY DEF RegisterTarget, Rest, meter, drains, lease, ProbeIInv, ProbeShapes
<1>2. \A t \in Socks : PlacedSocket(t)' BY DEF RegisterTarget, ProbeIInv, PlacedSocket
<1>3. \A t \in Socks : Given(t)' BY DEF RegisterTarget, Rest, lease, ProbeIInv, Given
<1>4. \A t \in Socks : Answered(t)' BY DEF RegisterTarget, ProbeIInv, Answered
<1>5. Handed' BY DEF RegisterTarget, Rest, lease, ProbeIInv, Handed
<1>6. Ends' BY DEF RegisterTarget, Rest, drains, ProbeIInv, Ends, Pending
<1>7. Budgets'
  <2>1. CASE pcTargets' = pcTargets
    <3>1. \A t \in Socks : pcTargets'[t] \subseteq pcTargets[t] BY <2>1
    <3>2. UNCHANGED <<pcSock, pcSent, pcRate>> BY DEF RegisterTarget, meter
    <3>3. pcSent' <= MaxPackets /\ pcRate' <= MaxRate BY <3>2 DEF ProbeIInv, Budgets
    <3>4. Slots' \subseteq Slots BY <3>2 DEF Slots
    <3>5. QED BY <3>1, <3>3, <3>4, Fewer DEF ProbeIInv
  <2>2. CASE pcTargets' # pcTargets
    <3>1. /\ pcTargets' = [pcTargets EXCEPT ![s] = pcTargets[s] \cup {x}]
          /\ x \notin TargetRefs => ~(Cardinality(TargetRefs) >= MaxTargets)
          /\ ~(FiveTuples >= MaxTuples)
          /\ UNCHANGED <<pcSock, pcSent, pcRate>>
      BY <2>2 DEF RegisterTarget, meter
    <3>2. IsFiniteSet(TargetRefs) /\ IsFiniteSet(Tuples)
      <4>1. TargetRefs \in SUBSET Targets /\ Tuples \in SUBSET (Socks \X Targets)
        BY DEF TargetRefs, Tuples, ProbeIInv, ProbeShapes
      <4>2. IsFiniteSet(Socks \X Targets) BY FS_Product DEF ControllerConstants
      <4>3. QED BY <4>1, <4>2, FS_Subset DEF ControllerConstants
    <3>3. TargetRefs' = TargetRefs \cup {x} BY <3>1 DEF TargetRefs, ProbeIInv, ProbeShapes
    <3>4. Tuples' = Tuples \cup {<<s, x>>} BY <3>1 DEF Tuples, ProbeIInv, ProbeShapes
    <3>5. /\ Cardinality(TargetRefs) \in Nat /\ Cardinality(Tuples) \in Nat
      BY <3>2, FS_CardinalityType
    <3>6. Cardinality(TargetRefs') <= MaxTargets
      <4>1. Cardinality(TargetRefs') =
              IF x \in TargetRefs THEN Cardinality(TargetRefs) ELSE Cardinality(TargetRefs) + 1
        BY <3>2, <3>3, FS_AddElement
      <4>2. QED BY <3>1, <3>5, <4>1 DEF ProbeIInv, Budgets, ControllerConstants
    <3>7. FiveTuples' <= MaxTuples
      <4>1. Cardinality(Tuples') <= Cardinality(Tuples) + 1
        <5>1. Cardinality(Tuples') =
                IF <<s, x>> \in Tuples THEN Cardinality(Tuples) ELSE Cardinality(Tuples) + 1
          BY <3>2, <3>4, FS_AddElement
        <5>2. QED BY <3>5, <5>1
      <4>2. FiveTuples = Cardinality(Tuples) /\ FiveTuples' = Cardinality(Tuples')
        BY DEF FiveTuples, Tuples
      <4>3. Cardinality(Tuples') \in Nat BY <3>2, <3>4, FS_AddElement, FS_CardinalityType
      <4>4. QED BY <3>1, <3>5, <4>1, <4>2, <4>3 DEF ControllerConstants
    <3>8. Slots' = Slots BY <3>1 DEF Slots
    <3>9. QED BY <3>1, <3>6, <3>7, <3>8 DEF ProbeIInv, Budgets
  <2>3. QED BY <2>1, <2>2
<1>8. QED BY <1>1, <1>2, <1>3, <1>4, <1>5, <1>6, <1>7 DEF ProbeIInv

\* A verdict counts only for a socket that is still open.
LEMMA VerifyReturnsInv ==
    ASSUME ControllerConstants, ProbeIInv, NEW s \in Socks, NEW x \in Targets, VerifyReturns(s, x)
    PROVE  ProbeIInv'
<1>1. ProbeShapes' BY DEF VerifyReturns, Rest, meter, drains, lease, ProbeIInv, ProbeShapes
<1>2. \A t \in Socks : PlacedSocket(t)' BY DEF VerifyReturns, ProbeIInv, PlacedSocket
<1>3. \A t \in Socks : Given(t)' BY DEF VerifyReturns, Rest, lease, ProbeIInv, Given
<1>4. \A t \in Socks : Answered(t)' BY DEF VerifyReturns, ProbeIInv, ProbeShapes, Answered, StillOpen
<1>5. Handed' BY DEF VerifyReturns, Rest, lease, ProbeIInv, Handed
<1>6. Ends' BY DEF VerifyReturns, Rest, drains, ProbeIInv, Ends
<1>7. Budgets'
  <2>1. Slots' \subseteq Slots BY DEF VerifyReturns, Slots
  <2>2. \A t \in Socks : pcTargets'[t] \subseteq pcTargets[t] BY DEF VerifyReturns
  <2>3. pcSent' <= MaxPackets /\ pcRate' <= MaxRate BY DEF VerifyReturns, meter, ProbeIInv, Budgets
  <2>4. QED BY <2>1, <2>2, <2>3, Fewer DEF ProbeIInv
<1>8. QED BY <1>1, <1>2, <1>3, <1>4, <1>5, <1>6, <1>7 DEF ProbeIInv

\* A handle that closes itself.
LEMMA SocketCloseInv ==
    ASSUME ControllerConstants, ProbeIInv, NEW s \in Socks, SocketClose(s)
    PROVE  ProbeIInv'
<1>1. ProbeShapes' BY DEF SocketClose, Rest, Release, meter, drains, lease, ProbeIInv, ProbeShapes, Stages
<1>2. \A t \in Socks : PlacedSocket(t)' BY DEF SocketClose, Release, ProbeIInv, PlacedSocket
<1>3. \A t \in Socks : Given(t)' BY DEF SocketClose, Rest, Release, lease, ProbeIInv, Given
<1>4. \A t \in Socks : Answered(t)' BY DEF SocketClose, Release, ProbeIInv, Answered
<1>5. Handed' BY DEF SocketClose, Rest, Release, lease, ProbeIInv, ProbeShapes, Handed
<1>6. Ends' BY DEF SocketClose, Rest, Release, drains, ProbeIInv, Ends, Pending
<1>7. Budgets'
  <2>1. Slots' \subseteq Slots BY DEF SocketClose, Release, Slots
  <2>2. \A t \in Socks : pcTargets'[t] \subseteq pcTargets[t] BY DEF SocketClose, Release
  <2>3. pcSent' <= MaxPackets /\ pcRate' <= MaxRate BY DEF SocketClose, meter, ProbeIInv, Budgets
  <2>4. QED BY <2>1, <2>2, <2>3, Fewer DEF ProbeIInv
<1>8. QED BY <1>1, <1>2, <1>3, <1>4, <1>5, <1>6, <1>7 DEF ProbeIInv

\* The datagram of a released socket.
LEMMA CloseDatagramInv ==
    ASSUME ControllerConstants, ProbeIInv, NEW s \in Socks, CloseDatagram(s)
    PROVE  ProbeIInv'
<1>1. ProbeShapes' BY DEF CloseDatagram, Rest, meter, drains, lease, ProbeIInv, ProbeShapes, Stages
<1>2. \A t \in Socks : PlacedSocket(t)' BY DEF CloseDatagram, ProbeIInv, PlacedSocket
<1>3. \A t \in Socks : Given(t)' BY DEF CloseDatagram, Rest, lease, ProbeIInv, Given
<1>4. \A t \in Socks : Answered(t)' BY DEF CloseDatagram, ProbeIInv, Answered
<1>5. Handed' BY DEF CloseDatagram, Rest, lease, ProbeIInv, PlacedSocket, Handed
<1>6. Ends' BY DEF CloseDatagram, Rest, drains, ProbeIInv, Ends, Pending
<1>7. Budgets'
  <2>1. Slots' \subseteq Slots BY DEF CloseDatagram, Slots
  <2>2. \A t \in Socks : pcTargets'[t] \subseteq pcTargets[t] BY DEF CloseDatagram
  <2>3. pcSent' <= MaxPackets /\ pcRate' <= MaxRate BY DEF CloseDatagram, meter, ProbeIInv, Budgets
  <2>4. QED BY <2>1, <2>2, <2>3, Fewer DEF ProbeIInv
<1>8. QED BY <1>1, <1>2, <1>3, <1>4, <1>5, <1>6, <1>7 DEF ProbeIInv

\* A promotion begins on an open socket.
LEMMA PromoteBeginInv ==
    ASSUME ControllerConstants, ProbeIInv, NEW s \in Socks, NEW x \in Targets, PromoteBegin(s, x)
    PROVE  ProbeIInv'
<1>1. ProbeShapes' BY DEF PromoteBegin, Rest, meter, drains, lease, ProbeIInv, ProbeShapes, Stages, InPromotion
<1>2. \A t \in Socks : PlacedSocket(t)' BY DEF PromoteBegin, ProbeIInv, PlacedSocket, MayPromote
<1>3. \A t \in Socks : Given(t)' BY DEF PromoteBegin, Rest, lease, ProbeIInv, Given, InPromotion
<1>4. \A t \in Socks : Answered(t)' BY DEF PromoteBegin, ProbeIInv, Answered
<1>5. Handed' BY DEF PromoteBegin, Rest, lease, ProbeIInv, Handed, MayPromote, InPromotion
<1>6. Ends' BY DEF PromoteBegin, Rest, drains, ProbeIInv, Ends, Pending
<1>7. Budgets'
  <2>1. Slots' \subseteq Slots BY DEF PromoteBegin, Slots, MayPromote
  <2>2. \A t \in Socks : pcTargets'[t] \subseteq pcTargets[t] BY DEF PromoteBegin
  <2>3. pcSent' <= MaxPackets /\ pcRate' <= MaxRate BY DEF PromoteBegin, meter, ProbeIInv, Budgets
  <2>4. QED BY <2>1, <2>2, <2>3, Fewer DEF ProbeIInv
<1>8. QED BY <1>1, <1>2, <1>3, <1>4, <1>5, <1>6, <1>7 DEF ProbeIInv

\* The commit of a promotion: the socket passes to it, or is released.
LEMMA PromoteCommitInv ==
    ASSUME ControllerConstants, ProbeIInv, NEW s \in Socks, PromoteCommit(s)
    PROVE  ProbeIInv'
<1>1. ProbeShapes'
  <2>1. CASE Guard = "ok" BY <2>1 DEF PromoteCommit, meter, drains, lease, ProbeIInv, ProbeShapes, Stages, InPromotion
  <2>2. CASE Guard # "ok"
    BY <2>2 DEF PromoteCommit, Release, meter, drains, lease, ProbeIInv, ProbeShapes, Stages, InPromotion
  <2>3. QED BY <2>1, <2>2
<1>2. \A t \in Socks : PlacedSocket(t)' BY DEF PromoteCommit, Release, ProbeIInv, PlacedSocket
<1>3. \A t \in Socks : Given(t)' BY DEF PromoteCommit, Release, lease, Guard, ProbeIInv, Given, Handed, InPromotion
<1>4. \A t \in Socks : Answered(t)' BY DEF PromoteCommit, Release, ProbeIInv, Answered
<1>5. Handed' BY DEF PromoteCommit, Release, lease, Guard, ProbeIInv, ProbeShapes, PlacedSocket, Given, Handed, InPromotion
<1>6. Ends' BY DEF PromoteCommit, Release, drains, ProbeIInv, Ends, Pending
<1>7. Budgets'
  <2>1. Slots' \subseteq Slots BY DEF PromoteCommit, Release, Slots
  <2>2. \A t \in Socks : pcTargets'[t] \subseteq pcTargets[t] BY DEF PromoteCommit, Release
  <2>3. pcSent' <= MaxPackets /\ pcRate' <= MaxRate BY DEF PromoteCommit, meter, ProbeIInv, Budgets
  <2>4. QED BY <2>1, <2>2, <2>3, Fewer DEF ProbeIInv
<1>8. QED BY <1>1, <1>2, <1>3, <1>4, <1>5, <1>6, <1>7 DEF ProbeIInv

\* The siblings are gone.
LEMMA PromoteHandoffInv ==
    ASSUME ControllerConstants, ProbeIInv, PromoteHandoff
    PROVE  ProbeIInv'
<1>1. ProbeShapes' BY DEF PromoteHandoff, ctl, socks, meter, lease, ProbeIInv, ProbeShapes, InPromotion
<1>2. \A t \in Socks : PlacedSocket(t)' BY DEF PromoteHandoff, socks, ProbeIInv, PlacedSocket
<1>3. \A t \in Socks : Given(t)' BY DEF PromoteHandoff, ctl, socks, ProbeIInv, Given, InPromotion
<1>4. \A t \in Socks : Answered(t)' BY DEF PromoteHandoff, socks, ProbeIInv, Answered
<1>5. Handed' BY DEF PromoteHandoff, ctl, socks, lease, ProbeIInv, ProbeShapes, Given, Handed, InPromotion
<1>6. Ends' BY DEF PromoteHandoff, ctl, socks, ProbeIInv, Ends, Pending
<1>7. Budgets'
  <2>1. Slots' \subseteq Slots BY DEF PromoteHandoff, socks, Slots
  <2>2. \A t \in Socks : pcTargets'[t] \subseteq pcTargets[t] BY DEF PromoteHandoff, socks
  <2>3. pcSent' <= MaxPackets /\ pcRate' <= MaxRate BY DEF PromoteHandoff, meter, ProbeIInv, Budgets
  <2>4. QED BY <2>1, <2>2, <2>3, Fewer DEF ProbeIInv
<1>8. QED BY <1>1, <1>2, <1>3, <1>4, <1>5, <1>6, <1>7 DEF ProbeIInv

\* A socket whose deadline cannot be cleared is released.
LEMMA DeadlineFailsInv ==
    ASSUME ControllerConstants, ProbeIInv, NEW s \in Socks, DeadlineFails(s)
    PROVE  ProbeIInv'
<1>1. ProbeShapes' BY DEF DeadlineFails, Release, Rest, meter, drains, lease, ProbeIInv, ProbeShapes, Stages, InPromotion
<1>2. \A t \in Socks : PlacedSocket(t)' BY DEF DeadlineFails, Release, ProbeIInv, PlacedSocket
<1>3. \A t \in Socks : Given(t)' BY DEF DeadlineFails, Release, Rest, lease, ProbeIInv, Given, InPromotion
<1>4. \A t \in Socks : Answered(t)' BY DEF DeadlineFails, Release, ProbeIInv, Answered
<1>5. Handed' BY DEF DeadlineFails, Release, Rest, lease, ProbeIInv, ProbeShapes, Handed, InPromotion
<1>6. Ends' BY DEF DeadlineFails, Release, Rest, drains, ProbeIInv, Ends, Pending
<1>7. Budgets'
  <2>1. Slots' \subseteq Slots BY DEF DeadlineFails, Release, Slots
  <2>2. \A t \in Socks : pcTargets'[t] \subseteq pcTargets[t] BY DEF DeadlineFails, Release
  <2>3. pcSent' <= MaxPackets /\ pcRate' <= MaxRate BY DEF DeadlineFails, meter, ProbeIInv, Budgets
  <2>4. QED BY <2>1, <2>2, <2>3, Fewer DEF ProbeIInv
<1>8. QED BY <1>1, <1>2, <1>3, <1>4, <1>5, <1>6, <1>7 DEF ProbeIInv

\* The promoted socket stays with the caller of the promotion, or is closed.
LEMMA CallerInv ==
    ASSUME ControllerConstants, ProbeIInv, ReleaseAttempt \/ CallerCloses
    PROVE  ProbeIInv'
<1>1. /\ UNCHANGED <<pcSock, pcCloser, pcTargets, pcVerified, pcOps, pcStopped, pcPromoted,
                     pcStop, tlSock, tlState, pcSent, pcRate>>
      /\ pcPromote.pc \in InPromotion
      /\ \/ pcPromote' = [pcPromote EXCEPT !.pc = "caller"] /\ UNCHANGED pcOpen
         \/ pcPromote' = [pcPromote EXCEPT !.pc = "done"] /\ pcOpen' = pcOpen \ {pcPromote.sock}
  BY DEF ReleaseAttempt, CallerCloses, InPromotion, ctl, meter, drains, lease
<1>2. ProbeShapes' BY <1>1 DEF ProbeIInv, ProbeShapes, InPromotion
<1>3. \A t \in Socks : PlacedSocket(t)' BY <1>1 DEF ProbeIInv, PlacedSocket, Handed
<1>4. \A t \in Socks : Given(t)' BY <1>1 DEF ProbeIInv, ProbeShapes, Given, InPromotion
<1>5. \A t \in Socks : Answered(t)' BY <1>1 DEF ProbeIInv, Answered
<1>6. Handed' BY <1>1 DEF ProbeIInv, ProbeShapes, Given, Handed, InPromotion, NoPromotion
<1>7. Ends' BY <1>1 DEF ProbeIInv, Ends, Pending
<1>8. Budgets'
  <2>1. Slots' \subseteq Slots BY <1>1 DEF Slots
  <2>2. \A t \in Socks : pcTargets'[t] \subseteq pcTargets[t] BY <1>1
  <2>3. pcSent' <= MaxPackets /\ pcRate' <= MaxRate BY <1>1 DEF ProbeIInv, Budgets
  <2>4. QED BY <2>1, <2>2, <2>3, Fewer DEF ProbeIInv
<1>9. QED BY <1>2, <1>3, <1>4, <1>5, <1>6, <1>7, <1>8 DEF ProbeIInv

\* The socket passes to the lease, or is closed.
LEMMA AttachInv ==
    ASSUME ControllerConstants, ProbeIInv, Attach
    PROVE  ProbeIInv'
<1>1. ProbeShapes' BY DEF Attach, ctl, meter, drains, ProbeIInv, ProbeShapes, LeaseStates, InPromotion
<1>2. \A t \in Socks : PlacedSocket(t)' BY DEF Attach, ProbeIInv, PlacedSocket, Handed, InPromotion
<1>3. \A t \in Socks : Given(t)' BY DEF Attach, ctl, ProbeIInv, Given, InPromotion
<1>4. \A t \in Socks : Answered(t)' BY DEF Attach, ProbeIInv, Answered
<1>5. Handed' BY DEF Attach, ctl, ProbeIInv, ProbeShapes, Given, Handed, InPromotion
<1>6. Ends' BY DEF Attach, ctl, drains, ProbeIInv, Ends, Pending
<1>7. Budgets'
  <2>1. Slots' \subseteq Slots BY DEF Attach, Slots
  <2>2. \A t \in Socks : pcTargets'[t] \subseteq pcTargets[t] BY DEF Attach
  <2>3. pcSent' <= MaxPackets /\ pcRate' <= MaxRate BY DEF Attach, meter, ProbeIInv, Budgets
  <2>4. QED BY <2>1, <2>2, <2>3, Fewer DEF ProbeIInv
<1>8. QED BY <1>1, <1>2, <1>3, <1>4, <1>5, <1>6, <1>7 DEF ProbeIInv

\* The lease gives up what it holds.
LEMMA LeaseCloseInv ==
    ASSUME ControllerConstants, ProbeIInv, LeaseClose
    PROVE  ProbeIInv'
<1>1. ProbeShapes' BY DEF LeaseClose, ctl, meter, drains, ProbeIInv, ProbeShapes, LeaseStates, InPromotion
<1>2. \A t \in Socks : PlacedSocket(t)' BY DEF LeaseClose, ProbeIInv, PlacedSocket, Handed, ControllerConstants
<1>3. \A t \in Socks : Given(t)' BY DEF LeaseClose, ctl, ProbeIInv, Given, InPromotion
<1>4. \A t \in Socks : Answered(t)' BY DEF LeaseClose, ProbeIInv, Answered
<1>5. Handed' BY DEF LeaseClose, ctl, ProbeIInv, ProbeShapes, Handed, ControllerConstants, InPromotion
<1>6. Ends' BY DEF LeaseClose, ctl, drains, ProbeIInv, Ends, Pending
<1>7. Budgets'
  <2>1. Slots' \subseteq Slots BY DEF LeaseClose, Slots
  <2>2. \A t \in Socks : pcTargets'[t] \subseteq pcTargets[t] BY DEF LeaseClose
  <2>3. pcSent' <= MaxPackets /\ pcRate' <= MaxRate BY DEF LeaseClose, meter, ProbeIInv, Budgets
  <2>4. QED BY <2>1, <2>2, <2>3, Fewer DEF ProbeIInv
<1>8. QED BY <1>1, <1>2, <1>3, <1>4, <1>5, <1>6, <1>7 DEF ProbeIInv

\* A stop releases every listed socket.
LEMMA StopLocalInv ==
    ASSUME ControllerConstants, ProbeIInv, StopLocal
    PROVE  ProbeIInv'
<1>1. ProbeShapes' BY DEF StopLocal, Release, meter, lease, ProbeIInv, ProbeShapes, Stages, InPromotion
<1>2. \A t \in Socks : PlacedSocket(t)' BY DEF StopLocal, Release, ProbeIInv, PlacedSocket
<1>3. \A t \in Socks : Given(t)' BY DEF StopLocal, Release, lease, ProbeIInv, Given, InPromotion
<1>4. \A t \in Socks : Answered(t)' BY DEF StopLocal, Release, ProbeIInv, Answered
<1>5. Handed' BY DEF StopLocal, Release, lease, ProbeIInv, ProbeShapes, Handed, Listed, InPromotion
<1>6. Ends' BY DEF StopLocal, Ends
<1>7. Budgets'
  <2>1. Slots' \subseteq Slots BY DEF StopLocal, Release, Slots
  <2>2. \A t \in Socks : pcTargets'[t] \subseteq pcTargets[t] BY DEF StopLocal, Release
  <2>3. pcSent' <= MaxPackets /\ pcRate' <= MaxRate BY DEF StopLocal, meter, ProbeIInv, Budgets
  <2>4. QED BY <2>1, <2>2, <2>3, Fewer DEF ProbeIInv
<1>8. QED BY <1>1, <1>2, <1>3, <1>4, <1>5, <1>6, <1>7 DEF ProbeIInv

-----------------------------------------------------------------------------
\* Every step preserves the invariant.
LEMMA ProbeStepInv == ASSUME ControllerConstants, ProbeIInv, ProbeNext PROVE ProbeIInv'
<1>1. CASE \E s \in Socks : \/ (\E x \in Targets : SendBegin(s, x))
                            \/ SendEnd(s) \/ ReceiveBegin(s) \/ ReadReturns(s)
  BY <1>1, OpsInv
<1>2. CASE \E s \in Socks : OpenBegin(s) BY <1>2, OpenBeginInv
<1>3. CASE \E s \in Socks : OpenReturn(s) BY <1>3, OpenReturnInv
<1>4. CASE \E s \in Socks : SocketClose(s) BY <1>4, SocketCloseInv
<1>5. CASE \E s \in Socks : CloseDatagram(s) BY <1>5, CloseDatagramInv
<1>6. CASE \E s \in Socks : PromoteCommit(s) BY <1>6, PromoteCommitInv
<1>7. CASE \E s \in Socks, x \in Targets : RegisterTarget(s, x) BY <1>7, RegisterTargetInv
<1>8. CASE \E s \in Socks, x \in Targets : VerifyReturns(s, x) BY <1>8, VerifyReturnsInv
<1>9. CASE \E s \in Socks, x \in Targets : PromoteBegin(s, x) BY <1>9, PromoteBeginInv
<1>10. CASE PromoteHandoff BY <1>10, PromoteHandoffInv
<1>11. CASE Attach BY <1>11, AttachInv
<1>12. CASE Adopt \/ MarkStandby \/ MarkChallengePassed \/ DetachAfterFinish BY <1>12, LeaseInv
<1>13. CASE LeaseClose \/ LeaseWatch BY <1>13, LeaseCloseInv DEF LeaseWatch
<1>14. CASE WatchStopping \/ RevokeForTerminal
  BY <1>14, StopLocalInv DEF WatchStopping, RevokeForTerminal
<1>15. CASE \/ WatchTimer \/ Poison \/ StopDone \/ WatchDone \/ AttemptStops
            \/ GenerationAdvances \/ DurationPasses \/ SecondPasses
  BY <1>15, WatcherInv
<1>16. CASE \E s \in Socks : DeadlineFails(s) BY <1>16, DeadlineFailsInv
<1>17. CASE ReleaseAttempt \/ CallerCloses BY <1>17, CallerInv
<1>18. QED
  BY <1>1, <1>2, <1>3, <1>4, <1>5, <1>6, <1>7, <1>8, <1>9, <1>10, <1>11, <1>12, <1>13, <1>14,
     <1>15, <1>16, <1>17, Zenon
  DEF ProbeNext, OpenProbeSocket, SendProbe, ReceiveReply, promote

\* At first there is nothing to own.
LEMMA ProbeInitInv == ASSUME ControllerConstants, ProbeInit PROVE ProbeIInv
<1>1. ProbeShapes BY DEF ProbeInit, ProbeShapes, Stages, LeaseStates, NoPromotion, InPromotion
<1>2. Handed /\ Ends BY DEF ProbeInit, Handed, Ends, NoPromotion, InPromotion
<1>3. Budgets
  <2>1. Slots = {} /\ TargetRefs = {} /\ Tuples = {}
    BY DEF ProbeInit, Slots, TargetRefs, Tuples
  <2>2. Cardinality(Slots) = 0 /\ Cardinality(TargetRefs) = 0 /\ FiveTuples = 0
    BY <2>1, FS_EmptySet DEF FiveTuples
  <2>3. QED BY <2>2 DEF ProbeInit, Budgets, ControllerConstants
<1>4. \A s \in Socks : PlacedSocket(s) /\ Given(s) /\ Answered(s)
  BY DEF ProbeInit, PlacedSocket, Given, Answered
<1>5. QED BY <1>1, <1>2, <1>3, <1>4 DEF ProbeIInv

\* The strengthening is an invariant of the controller.
THEOREM ProbeInvariance == ASSUME ControllerConstants PROVE ProbeSpec => []ProbeIInv
<1>1. ProbeInit => ProbeIInv BY ProbeInitInv
<1>2. ProbeIInv /\ [ProbeNext]_probeVars => ProbeIInv'
  <2>1. ASSUME ProbeIInv, ProbeNext PROVE ProbeIInv' BY <2>1, ProbeStepInv
  <2>2. ASSUME ProbeIInv, UNCHANGED probeVars PROVE ProbeIInv'
    <3>1. UNCHANGED <<pcSock, pcOpen, pcCloser, pcTargets, pcVerified, pcOps, pcStopped,
                      pcPromoted, pcPromote, tlSock, tlState, pcSent, pcRate, pcStop>>
      BY <2>2 DEF probeVars, ctl, socks, meter, drains, lease
    <3>2. Ends' /\ \A t \in Socks : Answered(t)' BY <2>2, <3>1 DEF ProbeIInv, Ends, Pending, Answered
    <3>3. QED BY <2>2, <3>1, <3>2, Aside DEF ProbeIInv, ProbeShapes, Budgets
  <2>3. QED BY <2>1, <2>2
<1>3. QED BY <1>1, <1>2, PTL DEF ProbeSpec

\* OneOwner: whatever promotion, stop, trip and close race, an open datagram
\* has one that uses it or will close it, the lease holds only the promoted
\* socket, and only one socket is ever promoted.
THEOREM SocketsHaveOneOwner == ASSUME ControllerConstants PROVE ProbeSpec => []OneOwner
<1>1. ProbeIInv => OneOwner
  <2>1. SUFFICES ASSUME ProbeIInv PROVE OneOwner OBVIOUS
  <2>2. ASSUME NEW s \in pcOpen
        PROVE  \/ pcSock[s] \in {"open", "promoting"} \/ pcCloser[s] # "none"
               \/ /\ pcSock[s] = "promoted"
                  /\ \/ pcPromote.sock = s /\ pcPromote.pc \in InPromotion
                     \/ tlSock = s
    <3>1. s \in Socks /\ PlacedSocket(s) /\ Given(s) BY <2>1, <2>2 DEF ProbeIInv, ProbeShapes
    <3>2. QED BY <2>1, <2>2, <3>1 DEF ProbeIInv, ProbeShapes, PlacedSocket, Given, Stages
  <2>3. tlSock # NoSock => tlSock \in pcOpen /\ pcSock[tlSock] = "promoted" /\ tlState # "closed"
    BY <2>1 DEF ProbeIInv, Handed
  <2>4. Cardinality({s \in Socks : pcSock[s] = "promoted"}) <= 1
    <3>1. {s \in Socks : pcSock[s] = "promoted"} \in SUBSET {pcPromote.sock}
      BY <2>1 DEF ProbeIInv, Given
    <3>2. IsFiniteSet({pcPromote.sock}) /\ Cardinality({pcPromote.sock}) = 1 BY FS_Singleton
    <3>3. QED BY <3>1, <3>2, FS_Subset
  <2>5. QED BY <2>2, <2>3, <2>4 DEF OneOwner
<1>2. QED BY ProbeInvariance, <1>1, PTL

\* Reserved: no interleaving of calls exceeds the reservation, and a stop that
\* returned leaves no operation and no opener.
THEOREM ReservationHolds == ASSUME ControllerConstants PROVE ProbeSpec => []Reserved
<1>1. ProbeIInv => Reserved
  <2>1. SUFFICES ASSUME ProbeIInv PROVE Reserved OBVIOUS
  <2>2. Cardinality(Listed) + Cardinality(Pending) <= MaxSockets
    BY <2>1, SlotsSum DEF ProbeIInv, Budgets
  <2>3. \A s \in Socks : pcVerified[s] \subseteq pcTargets[s] BY <2>1 DEF ProbeIInv, Answered
  <2>4. QED BY <2>1, <2>2, <2>3 DEF ProbeIInv, Budgets, Ends, Reserved
<1>2. QED BY ProbeInvariance, <1>1, PTL

\* Both together, what the run of the probe controller checks: the owner of every
\* datagram and the reservation of the attempt.
THEOREM SocketsAreAccounted == ASSUME ControllerConstants PROVE ProbeSpec => []SocketsAccounted
<1>1. OneOwner /\ Reserved => SocketsAccounted BY DEF SocketsAccounted
<1>2. QED BY <1>1, SocketsHaveOneOwner, ReservationHolds, PTL

-----------------------------------------------------------------------------
(* Proof of ConfirmedFinish, for any number of faults and any device         *)

Datagrams == {"R", "1", "2", "4", "F", "X"}
Writings == {NoPhase, "1", "2", "4", "1 written", "2 written", "4 written"}

Shapes ==
    /\ wgState \in [Roles -> {"standby", "capped", "drain", "passed", "confirming", "active",
                              "closed"}]
    /\ wgFinish \in [Roles -> {"no", "locks", "confirm", "durable", "send", "detach", "done",
                               "failed"}]
    /\ wgFrame \in [Roles -> {NoPhase, "F", "X"}]
    /\ wgReader \in [Roles -> {NoPhase, "capped", "active"} \cup {EndedRead["capped"], EndedRead["active"]}]
    /\ wgWriter \in [Roles -> Writings]
    /\ wgDurable \in [Roles -> BOOLEAN]
    /\ wgNet \in [Roles -> Seq(Datagrams)]

\* Until the responder's FINISH is durable nothing that says so exists: not on
\* the network, not in the initiator's buffer, not in what it has done.
Unsaid ==
    ~wgDurable["responder"] =>
        /\ wgNet["initiator"] \in Seq(Datagrams \ {"F"})
        /\ wgFrame["initiator"] \in {NoPhase, "X"}
        /\ wgFinish["initiator"] \notin {"durable", "send", "detach", "done"}
        /\ ~wgDurable["initiator"]

\* How far FinishAndActivate of g is.
FinishSound(g) ==
    /\ wgFinish[g] = "send" => g = "responder"
    /\ wgFinish[g] = "confirm" => g = "initiator"
    /\ wgFinish[g] \in {"send", "detach", "done"} => wgDurable[g]
    /\ wgState[g] = "active" => wgFinish[g] = "done"

Still(g) == wgState[g] \in {"passed", "confirming"} => ~InFlight(g)

GateIInv == Shapes /\ Unsaid /\ \A g \in Roles : FinishSound(g) /\ Still(g)

\* The model value is no phase of a read and no frame.
NoPhaseIsNone == NoPhase \notin {"capped", "active", "F", "1", "2", "4"}

USE DEF Roles

\* A queue with a datagram taken, added, repeated, swapped or forged holds
\* nothing new but that datagram.
LEMMA Queues ==
    ASSUME NEW S, NEW q \in Seq(S)
    PROVE  /\ \A m \in S : Append(q, m) \in Seq(S) /\ <<m>> \o q \in Seq(S)
           /\ q # <<>> => Tail(q) \in Seq(S) /\ Head(q) \in S /\ <<Head(q)>> \o q \in Seq(S)
           /\ Len(q) > 1 => <<q[2], q[1]>> \o SubSeq(q, 3, Len(q)) \in Seq(S)
<1>1. ASSUME Len(q) > 1 PROVE <<q[2], q[1]>> \o SubSeq(q, 3, Len(q)) \in Seq(S)
  <2>1. q[1] \in S /\ q[2] \in S BY <1>1
  <2>2. SubSeq(q, 3, Len(q)) \in Seq(S) BY <1>1
  <2>3. <<q[2], q[1]>> \in Seq(S) BY <2>1
  <2>4. QED BY <2>2, <2>3
<1>2. QED BY <1>1

\* What is on its way after a write: to the initiator, a finish frame only if
\* that was written.
LEMMA SendIs ==
    ASSUME Shapes, NEW g \in Roles, NEW m \in Datagrams, Send(g, m)
    PROVE  /\ wgNet' \in [Roles -> Seq(Datagrams)]
           /\ wgNet["initiator"] \in Seq(Datagrams \ {"F"}) /\ m # "F" =>
                  wgNet'["initiator"] \in Seq(Datagrams \ {"F"})
<1> DEFINE o == Other(g)
<1>1. o \in Roles BY DEF Other
<1>2. wgNet' = [wgNet EXCEPT ![o] = Append(wgNet[o], m)] BY DEF Send
<1>3. wgNet \in [Roles -> Seq(Datagrams)] BY DEF Shapes
<1> HIDE DEF o
<1>4. Append(wgNet[o], m) \in Seq(Datagrams) BY <1>1, <1>3, Queues
<1>5. wgNet["initiator"] \in Seq(Datagrams \ {"F"}) /\ m # "F" =>
        Append(wgNet["initiator"], m) \in Seq(Datagrams \ {"F"})
  BY Queues
<1> HIDE DEF Datagrams
<1>6. wgNet' \in [Roles -> Seq(Datagrams)] BY <1>1, <1>2, <1>3, <1>4
<1>7. wgNet'["initiator"] \in {wgNet["initiator"], Append(wgNet["initiator"], m)}
  BY <1>1, <1>2, <1>3
<1>8. QED BY <1>5, <1>6, <1>7

\* What a read takes was on its way.
LEMMA TakeIs ==
    ASSUME Shapes, NEW g \in Roles, Take(g)
    PROVE  /\ wgNet' \in [Roles -> Seq(Datagrams)] /\ Head(wgNet[g]) \in Datagrams
           /\ wgNet["initiator"] \in Seq(Datagrams \ {"F"}) =>
                  /\ wgNet'["initiator"] \in Seq(Datagrams \ {"F"})
                  /\ g = "initiator" => Head(wgNet[g]) # "F"
<1>1. wgNet[g] # <<>> /\ wgNet' = [wgNet EXCEPT ![g] = Tail(wgNet[g])] BY DEF Take
<1>2. wgNet \in [Roles -> Seq(Datagrams)] BY DEF Shapes
<1>3. Tail(wgNet[g]) \in Seq(Datagrams) /\ Head(wgNet[g]) \in Datagrams BY <1>1, <1>2, Queues
<1>4. wgNet["initiator"] \in Seq(Datagrams \ {"F"}) /\ g = "initiator" =>
        /\ Tail(wgNet[g]) \in Seq(Datagrams \ {"F"}) /\ Head(wgNet[g]) # "F"
  BY <1>1, Queues
<1>5. wgNet'["initiator"] = IF g = "initiator" THEN Tail(wgNet[g]) ELSE wgNet["initiator"]
  BY <1>1, <1>2
<1>6. QED BY <1>1, <1>2, <1>3, <1>4, <1>5

\* The network forges no finish frame.
LEMMA NetworkIs ==
    ASSUME Shapes, NEW g \in Roles, Network(g)
    PROVE  /\ wgNet' \in [Roles -> Seq(Datagrams)]
           /\ wgNet["initiator"] \in Seq(Datagrams \ {"F"}) =>
                  wgNet'["initiator"] \in Seq(Datagrams \ {"F"})
<1> DEFINE q == wgNet[g]
<1>1. wgNet \in [Roles -> Seq(Datagrams)] /\ q \in Seq(Datagrams) BY DEF Shapes
<1> DEFINE Change(p) == wgNet' = [wgNet EXCEPT ![g] = p]
<1>2. PICK p : /\ Change(p)
               /\ \/ q # <<>> /\ p = Tail(q)
                  \/ q # <<>> /\ p = <<Head(q)>> \o q
                  \/ Len(q) > 1 /\ p = <<q[2], q[1]>> \o SubSeq(q, 3, Len(q))
                  \/ p = <<"X">> \o q
  <2>1. \/ q # <<>> /\ Change(Tail(q))
        \/ q # <<>> /\ Change(<<Head(q)>> \o q)
        \/ Len(q) > 1 /\ Change(<<q[2], q[1]>> \o SubSeq(q, 3, Len(q)))
        \/ Change(<<"X">> \o q)
    BY Zenon DEF Network
  <2> HIDE DEF Change, q
  <2>2. QED BY <2>1
<1> HIDE DEF q
<1>3. \A S : q \in Seq(S) /\ "X" \in S => p \in Seq(S) BY <1>2, Queues
<1>4. p \in Seq(Datagrams) BY <1>1, <1>3 DEF Datagrams
<1>5. q \in Seq(Datagrams \ {"F"}) => p \in Seq(Datagrams \ {"F"}) BY <1>3 DEF Datagrams
<1>6. wgNet'["initiator"] = IF g = "initiator" THEN p ELSE wgNet["initiator"] BY <1>1, <1>2
<1>7. g = "initiator" => q = wgNet["initiator"] BY DEF q
<1>8. QED BY <1>1, <1>2, <1>4, <1>5, <1>6, <1>7

-----------------------------------------------------------------------------
\* Datagrams come and go, and no finish frame appears on its way to the
\* initiator.
Carried ==
    /\ wgNet' \in [Roles -> Seq(Datagrams)]
    /\ wgNet["initiator"] \in Seq(Datagrams \ {"F"}) =>
           wgNet'["initiator"] \in Seq(Datagrams \ {"F"})

\* A step that only lets datagrams come and go, and a write go on or end.
LEMMA NetStep ==
    ASSUME GateIInv, Carried,
           UNCHANGED <<wgState, wgFrame, wgReader, wgFinish, wgDurable>>,
           NEW g \in Roles,
           \/ wgWriter' \in {wgWriter, [wgWriter EXCEPT ![g] = NoPhase]}
           \/ wgWriter[g] # NoPhase /\ \E w \in Writings : wgWriter' = [wgWriter EXCEPT ![g] = w]
    PROVE  GateIInv'
<1> HIDE DEF Datagrams
<1>0. wgWriter' \in [Roles -> Writings]
  <2>1. NoPhase \in Writings BY DEF Writings
  <2>2. QED BY <2>1 DEF GateIInv, Shapes
<1>1. Shapes' BY <1>0 DEF GateIInv, Shapes, Carried
<1>2. Unsaid' BY DEF GateIInv, Unsaid, Carried
<1>3. \A h \in Roles : wgWriter[h] = NoPhase => wgWriter'[h] = NoPhase BY DEF GateIInv, Shapes
<1>4. \A h \in Roles : FinishSound(h)' BY DEF GateIInv, FinishSound
<1>5. \A h \in Roles : Still(h)' BY <1>3 DEF GateIInv, Still, InFlight
<1>6. QED BY <1>1, <1>2, <1>4, <1>5 DEF GateIInv

\* Close, in whatever way the step ends a call.
LEMMA CloseStep ==
    ASSUME GateIInv, NEW g \in Roles, Close(g), wgDurable' = wgDurable, Carried,
           wgFinish' \in {wgFinish, [wgFinish EXCEPT ![g] = "failed"]},
           wgReader' \in {wgReader, [wgReader EXCEPT ![g] = NoPhase]},
           wgWriter' \in {wgWriter, [wgWriter EXCEPT ![g] = NoPhase]}
    PROVE  GateIInv'
<1> HIDE DEF Datagrams
<1>0. wgWriter' \in [Roles -> Writings]
  <2>1. NoPhase \in Writings BY DEF Writings
  <2>2. QED BY <2>1 DEF GateIInv, Shapes
<1>1. Shapes' BY <1>0 DEF GateIInv, Shapes, Close, Carried
<1>2. \A h \in Roles : /\ wgFinish'[h] \in {wgFinish[h], "failed"}
                       /\ wgState'[h] = IF h = g THEN "closed" ELSE wgState[h]
                       /\ wgFrame'[h] \in {wgFrame[h], NoPhase}
                       /\ h # g => wgFinish'[h] = wgFinish[h] /\ wgReader'[h] = wgReader[h]
                                   /\ wgWriter'[h] = wgWriter[h]
  BY DEF GateIInv, Shapes, Close
<1>3. Unsaid' BY <1>2 DEF GateIInv, Unsaid, Carried
<1>4. \A h \in Roles : FinishSound(h)' BY <1>2 DEF GateIInv, FinishSound
<1>5. \A h \in Roles : Still(h)' BY <1>2 DEF GateIInv, Still, InFlight
<1>6. QED BY <1>1, <1>3, <1>4, <1>5 DEF GateIInv

\* The transport's calls, and a step without one, in these terms.
LEMMA Carries ==
    ASSUME GateIInv, NEW g \in Roles
    PROVE  /\ \A m \in Datagrams \ {"F"} : Send(g, m) => Carried
           /\ Take(g) => Carried
           /\ Network(g) => Carried
           /\ UNCHANGED wgNet => Carried
<1>0. Shapes BY DEF GateIInv
<1>1. ASSUME NEW m \in Datagrams \ {"F"}, Send(g, m) PROVE Carried
  <2>1. m \in Datagrams /\ m # "F" BY DEF Datagrams
  <2>2. QED BY <1>0, <1>1, <2>1, SendIs, Zenon DEF Carried
<1>2. ASSUME Take(g) PROVE Carried BY <1>0, <1>2, TakeIs, Zenon DEF Carried
<1>3. ASSUME Network(g) PROVE Carried BY <1>0, <1>3, NetworkIs, Zenon DEF Carried
<1>4. UNCHANGED wgNet => Carried BY <1>0 DEF Carried, Shapes
<1>5. QED BY <1>1, <1>2, <1>3, <1>4, Zenon

-----------------------------------------------------------------------------
\* A failing call of the barrier or of the finish closes the gate.
LEMMA Failing ==
    ASSUME GateIInv, NEW g \in Roles, wgDurable' = wgDurable, UNCHANGED wgOps, Carried,
           \/ ReadyFails(g) /\ UNCHANGED wgFinish
           \/ FinishFails(g)
    PROVE  GateIInv'
<1>1. Close(g) /\ wgFinish' \in {wgFinish, [wgFinish EXCEPT ![g] = "failed"]}
  BY DEF ReadyFails, FinishFails, Finish
<1>2. wgReader' = wgReader /\ wgWriter' = wgWriter BY DEF wgOps
<1>3. QED BY <1>1, <1>2, CloseStep

\* The barrier's write and read.
LEMMA ReadyInv ==
    ASSUME GateIInv, NEW g \in Roles, ReadyWrite(g) \/ ReadyRead(g)
    PROVE  GateIInv'
<1>1. UNCHANGED <<wgOps, wgFinish, wgDurable>> BY DEF ReadyWrite, ReadyRead
<1>2. Carried
  <2>1. CASE ReadyWrite(g)
    <3>1. Send(g, "R") \/ wgNet' = wgNet BY <2>1 DEF ReadyWrite, Fails, Quiet
    <3>2. QED BY <3>1, Carries DEF Datagrams
  <2>2. CASE ReadyRead(g)
    <3>1. Take(g) \/ wgNet' = wgNet BY <2>2 DEF ReadyRead, Fails, Quiet
    <3>2. QED BY <3>1, Carries
  <2>3. QED BY <2>1, <2>2
<1>3. Stay \/ ReadyFails(g) BY DEF ReadyWrite, ReadyRead
<1>4. CASE Stay
  <2>1. UNCHANGED <<wgState, wgFrame, wgReader, wgFinish, wgDurable, wgWriter>>
    BY <1>1, <1>4 DEF Stay, wgOps
  <2>2. QED BY <1>2, <2>1, NetStep
<1>5. CASE ReadyFails(g) BY <1>1, <1>2, <1>5, Failing
<1>6. QED BY <1>3, <1>4, <1>5

\* A write of the challenge goes to the transport, or fails.
LEMMA WriteSendInv ==
    ASSUME NoPhaseIsNone, GateIInv, NEW g \in Roles, WriteSend(g)
    PROVE  GateIInv'
<1>1. /\ UNCHANGED <<wgReader, wgFinish, wgDurable>>
      /\ wgWriter[g] \in {"1", "2", "4"} /\ wgWriter[g] # NoPhase
  BY DEF WriteSend, Written, NoPhaseIsNone
<1>2. wgWriter[g] \in Datagrams \ {"F"} BY <1>1 DEF Datagrams
<1>3. CASE Send(g, wgWriter[g]) /\ wgWriter' = [wgWriter EXCEPT ![g] = Written[@]] /\ Stay
  <2>1. Carried BY <1>2, <1>3, Carries
  <2>2. Written[wgWriter[g]] \in Writings BY <1>1 DEF Written, Writings
  <2>3. wgWriter' = [wgWriter EXCEPT ![g] = Written[wgWriter[g]]] BY <1>3
  <2>4. UNCHANGED <<wgState, wgFrame>> BY <1>3 DEF Stay
  <2>5. QED BY <1>1, <2>1, <2>2, <2>3, <2>4, NetStep
<1>4. CASE wgNet' = wgNet /\ wgWriter' = [wgWriter EXCEPT ![g] = NoPhase] /\ Close(g)
  <2>1. Carried BY <1>4, Carries
  <2>2. QED BY <1>1, <1>4, <2>1, CloseStep
<1>5. QED BY <1>3, <1>4 DEF WriteSend, Fails, Quiet

\* The writes that return.
LEMMA WriteInv ==
    ASSUME NoPhaseIsNone, GateIInv, NEW g \in Roles, WriteEnd(g) \/ ActiveWrite(g)
    PROVE  GateIInv'
<1>1. /\ UNCHANGED <<wgReader, wgFinish, wgDurable>>
      /\ wgWriter' \in {wgWriter, [wgWriter EXCEPT ![g] = NoPhase]}
  BY DEF WriteEnd, ActiveWrite, wgOps
<1>2. Carried
  <2>1. CASE WriteEnd(g) BY <2>1, Carries DEF WriteEnd
  <2>2. CASE ActiveWrite(g)
    <3>1. Send(g, "4") \/ wgNet' = wgNet BY <2>2 DEF ActiveWrite, Quiet
    <3>2. QED BY <3>1, Carries DEF Datagrams
  <2>3. QED BY <2>1, <2>2
<1>3. Stay \/ Close(g) BY DEF WriteEnd, ActiveWrite
<1>4. CASE Stay
  <2>1. UNCHANGED <<wgState, wgFrame>> BY <1>4 DEF Stay
  <2>2. QED BY <1>1, <1>2, <2>1, NetStep
<1>5. CASE Close(g) BY <1>1, <1>2, <1>5, CloseStep
<1>6. QED BY <1>3, <1>4, <1>5

\* The network's own steps.
LEMMA NetworkInv ==
    ASSUME GateIInv, NEW g \in Roles, Network(g)
    PROVE  GateIInv'
<1>1. Carried BY Carries
<1>2. UNCHANGED <<wgState, wgFrame, wgReader, wgFinish, wgDurable, wgWriter>>
  BY DEF Network, wgTrace, wgOps
<1>3. QED BY <1>1, <1>2, NetStep

-----------------------------------------------------------------------------
\* The initiator takes a confirmation only when there is one to take.
LEMMA ConfirmInv ==
    ASSUME NoPhaseIsNone, GateIInv, NEW g \in Roles, FinishConfirm(g)
    PROVE  GateIInv'
<1>1. UNCHANGED <<wgOps, wgDurable>> BY DEF FinishConfirm
<1>2. Take(g) \/ wgNet' = wgNet BY DEF FinishConfirm, Fails, Quiet
<1>3. Carried BY <1>2, Carries
<1>4. \/ FinishFails(g)
      \/ /\ Finish(g, "durable") /\ wgState' = wgState
         /\ wgFrame' \in {wgFrame, [wgFrame EXCEPT ![g] = NoPhase]}
         /\ wgFrame[g] = "F" \/ (Take(g) /\ Head(wgNet[g]) = "F")
  BY DEF FinishConfirm, Stay
<1>5. CASE FinishFails(g) BY <1>1, <1>3, <1>5, Failing
<1>6. CASE /\ Finish(g, "durable") /\ wgState' = wgState
           /\ wgFrame' \in {wgFrame, [wgFrame EXCEPT ![g] = NoPhase]}
           /\ wgFrame[g] = "F" \/ (Take(g) /\ Head(wgNet[g]) = "F")
  <2>1. g = "initiator" /\ wgFinish[g] = "confirm" BY DEF GateIInv, FinishSound, FinishConfirm
  <2>2. wgDurable["responder"]
    <3>1. SUFFICES ASSUME ~wgDurable["responder"] PROVE FALSE OBVIOUS
    <3>2. wgNet["initiator"] \in Seq(Datagrams \ {"F"}) /\ wgFrame["initiator"] # "F"
      BY <3>1 DEF GateIInv, Unsaid, NoPhaseIsNone
    <3>3. Shapes BY DEF GateIInv
    <3>4. Take(g) => Head(wgNet[g]) # "F" BY <2>1, <3>2, <3>3, TakeIs
    <3>5. QED BY <1>6, <2>1, <3>2, <3>4
  <2>3. wgReader' = wgReader /\ wgWriter' = wgWriter BY <1>1 DEF wgOps
  <2> HIDE DEF Datagrams
  <2>4. Shapes' BY <1>1, <1>3, <1>6, <2>3 DEF GateIInv, Shapes, Carried, Finish
  <2>5. Unsaid' BY <1>1, <2>2 DEF Unsaid
  <2>6. \A h \in Roles : /\ wgFinish'[h] = IF h = g THEN "durable" ELSE wgFinish[h]
    BY <1>6 DEF Finish, GateIInv, Shapes
  <2>7. \A h \in Roles : FinishSound(h)' BY <1>1, <1>6, <2>1, <2>6 DEF GateIInv, FinishSound
  <2>8. \A h \in Roles : Still(h)' BY <1>6, <2>3 DEF GateIInv, Still, InFlight
  <2>9. QED BY <2>4, <2>5, <2>7, <2>8 DEF GateIInv
<1>7. QED BY <1>4, <1>5, <1>6

\* The FINISH is recorded.
LEMMA DurableInv ==
    ASSUME GateIInv, NEW g \in Roles, FinishDurable(g)
    PROVE  GateIInv'
<1>1. UNCHANGED <<wgOps, wgNet>> BY DEF FinishDurable
<1>2. Carried BY <1>1, Carries
<1>3. \/ FinishFails(g) /\ UNCHANGED wgDurable
      \/ /\ wgDurable' = [wgDurable EXCEPT ![g] = TRUE]
         /\ Finish(g, IF g = "responder" THEN "send" ELSE "detach") /\ Stay
  BY DEF FinishDurable
<1>4. CASE FinishFails(g) /\ UNCHANGED wgDurable BY <1>1, <1>2, <1>4, Failing
<1>5. CASE /\ wgDurable' = [wgDurable EXCEPT ![g] = TRUE]
           /\ Finish(g, IF g = "responder" THEN "send" ELSE "detach") /\ Stay
  <2>1. wgFinish[g] = "durable" BY DEF FinishDurable
  <2>2. wgReader' = wgReader /\ wgWriter' = wgWriter /\ wgState' = wgState /\ wgFrame' = wgFrame
    BY <1>1, <1>5 DEF wgOps, Stay
  <2> HIDE DEF Datagrams
  <2>3. Shapes' BY <1>1, <1>5, <2>2 DEF GateIInv, Shapes, Finish
  <2>4. \A h \in Roles :
          /\ wgFinish'[h] = IF h # g THEN wgFinish[h]
                            ELSE IF g = "responder" THEN "send" ELSE "detach"
          /\ wgDurable'[h] = (wgDurable[h] \/ h = g)
    BY <1>5 DEF Finish, GateIInv, Shapes
  <2>5. wgDurable'["responder"]
    <3>1. CASE g = "responder" BY <2>4, <3>1
    <3>2. CASE g = "initiator" BY <2>1, <2>4, <3>2 DEF GateIInv, Unsaid
    <3>3. QED BY <3>1, <3>2
  <2>6. Unsaid' BY <2>5 DEF Unsaid
  <2>7. \A h \in Roles : FinishSound(h)' BY <2>1, <2>2, <2>4 DEF GateIInv, FinishSound
  <2>8. \A h \in Roles : Still(h)' BY <2>2 DEF GateIInv, Still, InFlight
  <2>9. QED BY <2>3, <2>6, <2>7, <2>8 DEF GateIInv
<1>6. QED BY <1>3, <1>4, <1>5

\* The responder says what is already durable.
LEMMA SayInv ==
    ASSUME GateIInv, NEW g \in Roles, FinishSend(g)
    PROVE  GateIInv'
<1>1. UNCHANGED <<wgOps, wgDurable>> BY DEF FinishSend
<1>2. \/ FinishFails(g) /\ UNCHANGED wgNet
      \/ Send(g, "F") /\ Finish(g, "detach") /\ Stay
  BY DEF FinishSend, Fails, Quiet
<1>3. CASE FinishFails(g) /\ UNCHANGED wgNet
  <2>1. Carried BY <1>3, Carries
  <2>2. QED BY <1>1, <1>3, <2>1, Failing
<1>4. CASE Send(g, "F") /\ Finish(g, "detach") /\ Stay
  <2>1. wgFinish[g] = "send" /\ g = "responder" /\ wgDurable[g]
    BY DEF FinishSend, GateIInv, FinishSound
  <2>2. wgNet' \in [Roles -> Seq(Datagrams)]
    <3>1. Shapes /\ "F" \in Datagrams BY DEF GateIInv, Datagrams
    <3>2. QED BY <1>4, <3>1, SendIs
  <2>3. wgReader' = wgReader /\ wgWriter' = wgWriter /\ wgState' = wgState /\ wgFrame' = wgFrame
    BY <1>1, <1>4 DEF wgOps, Stay
  <2> HIDE DEF Datagrams
  <2>4. Shapes' BY <1>1, <1>4, <2>2, <2>3 DEF GateIInv, Shapes, Finish
  <2>5. \A h \in Roles : wgFinish'[h] = IF h = g THEN "detach" ELSE wgFinish[h]
    BY <1>4 DEF Finish, GateIInv, Shapes
  <2>6. Unsaid' BY <1>1, <2>1 DEF Unsaid
  <2>7. \A h \in Roles : FinishSound(h)' BY <1>1, <2>1, <2>3, <2>5 DEF GateIInv, FinishSound
  <2>8. \A h \in Roles : Still(h)' BY <2>3 DEF GateIInv, Still, InFlight
  <2>9. QED BY <2>4, <2>6, <2>7, <2>8 DEF GateIInv
<1>5. QED BY <1>2, <1>3, <1>4

-----------------------------------------------------------------------------
\* Every step preserves the invariant.
LEMMA GateStepInv == ASSUME NoPhaseIsNone, GateIInv, GateNext PROVE GateIInv'
<1>0. PICK g \in Roles :
        \/ Owner(g) \/ Writer(g) \/ WriteRefused(g) \/ ActiveWrite(g)
        \/ ReadBegin(g) \/ ReadPacket(g) \/ ReadCancelled(g) \/ ReadJudged(g)
        \/ GateExpire(g) \/ OwnerClose(g) \/ Network(g)
  BY DEF GateNext, WritePacket
<1>1. CASE ReadyWrite(g) \/ ReadyRead(g) BY <1>1, ReadyInv
<1>2. CASE WriteEnd(g) \/ ActiveWrite(g) BY <1>2, WriteInv
<1>w. CASE WriteSend(g) BY <1>w, WriteSendInv
<1>3. CASE Network(g) BY <1>3, NetworkInv
<1>4. CASE FinishConfirm(g) BY <1>4, ConfirmInv
<1>5. CASE FinishDurable(g) BY <1>5, DurableInv
<1>6. CASE FinishSend(g) BY <1>6, SayInv
<1> USE DEF GateIInv, Shapes, Unsaid, FinishSound, Still, NoPhaseIsNone, Go, Stay, Close, Finish,
            FinishFails, Take, Quiet, ReadyFails, wgTrace, wgOps, InFlight
<1>7. CASE BeginChallenge(g) BY <1>7, SMTT(20) DEF BeginChallenge
<1>8. CASE ReadyStart(g) BY <1>8, SMTT(20) DEF ReadyStart
<1>9. CASE ReadyEnd(g) BY <1>9, SMTT(20) DEF ReadyEnd
<1>10. CASE CompleteChallenge(g) BY <1>10, SMTT(20) DEF CompleteChallenge
<1>11. CASE Drain(g) BY <1>11, SMTT(20) DEF Drain
<1>12. CASE FinishStart(g) BY <1>12, SMTT(20) DEF FinishStart
<1>13. CASE FinishLocks(g) BY <1>13, SMTT(20) DEF FinishLocks
<1>14. CASE FinishDetach(g) BY <1>14, SMTT(20) DEF FinishDetach
<1>15. CASE WriteRefused(g) BY <1>15, SMTT(20) DEF WriteRefused
<1>16. CASE ReadBegin(g) BY <1>16, SMTT(20) DEF ReadBegin
<1>17. CASE ReadPacket(g) BY <1>17, SMTT(20) DEF ReadPacket, Spend, Datagrams
<1>18. CASE ReadCancelled(g) BY <1>18, SMTT(20) DEF ReadCancelled
<1>19. CASE ReadJudged(g) BY <1>19, SMTT(20) DEF ReadJudged
<1>20. CASE GateExpire(g) BY <1>20, SMTT(20) DEF GateExpire
<1>21. CASE OwnerClose(g) BY <1>21, SMTT(20) DEF OwnerClose
<1>22. CASE \E m \in {"1", "2", "4"} : WriteBegin(g, m)
  <2>1. {"1", "2", "4"} \subseteq Writings BY DEF Writings
  <2>2. wgWriter' \in [Roles -> Writings] BY <1>22, <2>1 DEF WriteBegin
  <2>3. QED BY <1>22, <2>2, SMTT(20) DEF WriteBegin
<1>23. QED
  BY <1>0, <1>1, <1>2, <1>3, <1>4, <1>5, <1>6, <1>7, <1>8, <1>9, <1>10, <1>11,
     <1>12, <1>13, <1>14, <1>15, <1>16, <1>17, <1>18, <1>19, <1>20, <1>21, <1>22, <1>w
  DEF Owner, ConsumerReady, finishWithConfirmation, Writer

\* Nothing has happened at first.
LEMMA GateInitInv == ASSUME NoPhaseIsNone, GateInit PROVE GateIInv
<1>1. Shapes BY DEF GateInit, Shapes, Writings
<1>2. Unsaid BY DEF GateInit, Unsaid, Datagrams
<1>3. \A g \in Roles : FinishSound(g) /\ Still(g)
  BY DEF GateInit, FinishSound, Still, InFlight, NoPhaseIsNone
<1>4. QED BY <1>1, <1>2, <1>3 DEF GateIInv

\* The strengthening is an invariant of the gates, whatever the device and
\* however many faults.
THEOREM GateInvariance == ASSUME NoPhaseIsNone PROVE GateSpec => []GateIInv
<1>1. GateInit => GateIInv BY GateInitInv
<1>2. GateIInv /\ [GateNext]_gateVars => GateIInv'
  <2>1. ASSUME GateIInv, GateNext PROVE GateIInv' BY <2>1, GateStepInv
  <2>2. ASSUME GateIInv, UNCHANGED gateVars PROVE GateIInv'
    <3>1. UNCHANGED <<wgState, wgFrame, wgReader, wgWriter, wgFinish, wgDurable, wgNet>>
      BY <2>2 DEF gateVars, wgOps, wgTrace
    <3>2. QED BY <2>2, <3>1 DEF GateIInv, Shapes, Unsaid, FinishSound, Still, InFlight
  <2>3. QED BY <2>1, <2>2
<1>3. QED BY <1>1, <1>2, PTL DEF GateSpec

\* ConfirmedFinish: neither side of a session activates, and the initiator
\* records no FINISH, before the responder's FINISH is durable; and from the
\* drain to the activation no packet of wireguard-go is under way.
THEOREM FinishIsConfirmed == ASSUME NoPhaseIsNone PROVE GateSpec => []ConfirmedFinish
<1>1. GateIInv => ConfirmedFinish
  <2>1. SUFFICES ASSUME GateIInv PROVE ConfirmedFinish OBVIOUS
  <2>2. wgDurable["initiator"] => wgDurable["responder"] BY <2>1 DEF GateIInv, Unsaid
  <2>3. \A g \in Roles : wgState[g] = "active" => wgDurable[g] BY <2>1 DEF GateIInv, FinishSound
  <2>4. \A g \in Roles : wgState[g] \in {"passed", "confirming"} => ~InFlight(g)
    BY <2>1 DEF GateIInv, Still
  <2>5. QED BY <2>2, <2>3, <2>4 DEF ConfirmedFinish
<1>2. QED BY GateInvariance, <1>1, PTL
=============================================================================
