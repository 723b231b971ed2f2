-------------------------------- MODULE StdioRpc --------------------------------
(***************************************************************************)
(* The solver's stdio JSON-RPC server: internal/stdiojsonrpc (framing, the *)
(* Run loop, admission, in-flight registry, cancellation, shutdown) and    *)
(* the solver methods it serves (internal/solverstdio).                    *)
(*                                                                         *)
(* One loop reads frames and admits requests; every admitted request runs  *)
(* in a goroutine of its own, except the handshake, which the loop runs    *)
(* itself.  A frame is abstracted to its method, its id and, for a cancel, *)
(* the id it names.                                                        *)
(***************************************************************************)
EXTENDS Integers, Sequences, FiniteSets, FiniteSetTheorems, TLAPS

CONSTANTS
    RequestIds,            \* request ids the client uses (ID.Key)
    Methods,        \* methods it calls: "v1", "v2" (handshakes), "status", "diagnose", "export", "connect", "other"
    MaxConcurrent,  \* Limits.MaxConcurrent
    Burst,          \* Limits.RateBurst
    MaxRequests,    \* bound: admitted requests
    MaxFrames,      \* bound: other frames (cancel, malformed, refused)
    MaxRefill,      \* bound: tokens the bucket regains
    Breaks,         \* BOOLEAN: the output may break
    Interrupts,     \* BOOLEAN: the context of Run may end (a signal)
    NoId

VARIABLES
    rpLoop,         \* the Run loop: [at, frame, target, err, ended]; ended: the context of Run
    rpReq,          \* the requests admitted, in order
    rpInflight,     \* server.inflight: id to the request it names, or 0
    rpSlots,        \* tokens in the semaphore
    rpTokens,       \* the rate bucket
    rpVersion,      \* handler.version
    rpShaken,       \* handler.handshaken
    rpTrip,         \* the safety trip blocks active work
    rpBroken,       \* the output no longer takes bytes
    rpClosed,       \* the machine authority is closed
    rpLate,         \* a frame was written after Run returned nil
    rpFrames, rpRefill

rpVars == <<rpLoop, rpReq, rpInflight, rpSlots, rpTokens, rpVersion, rpShaken, rpTrip, rpBroken, rpClosed,
          rpLate, rpFrames, rpRefill>>
handler == <<rpVersion, rpShaken>>
around == <<rpTrip, rpBroken, rpClosed, rpFrames, rpRefill>>

Requests == 1..Len(rpReq)
NoFrame == [method |-> "none", id |-> NoId, bad |-> FALSE]

RpcInit ==
    /\ rpLoop = [at |-> "read", frame |-> NoFrame, target |-> 0, err |-> FALSE, ended |-> FALSE]
    /\ rpReq = <<>> /\ rpInflight = [i \in RequestIds |-> 0]
    /\ rpSlots = 0 /\ rpTokens = Burst
    /\ rpVersion = 0 /\ rpShaken = FALSE
    /\ rpTrip = FALSE /\ rpBroken = FALSE /\ rpClosed = FALSE
    /\ rpLate = FALSE /\ rpFrames = 0 /\ rpRefill = 0

LoopAt(where) == rpLoop.at = where
Loop(where) == rpLoop' = [rpLoop EXCEPT !.at = where]
Returned == LoopAt("returned")

\* ctx of a request: a child of the context of Run, so cancelled with it.
Ends(r, why) == IF r.ctx = "live" THEN [r EXCEPT !.ctx = why, !.cut = r.at] ELSE r
Cancelled(r) == Ends(r, "cancelled")
AllCancelled == [n \in Requests |-> Cancelled(rpReq[n])]
\* cancelAllInflight
InflightCancelled ==
    [n \in Requests |-> IF n \in {rpInflight[i] : i \in RequestIds} THEN Cancelled(rpReq[n]) ELSE rpReq[n]]

-----------------------------------------------------------------------------
(* The Run loop. *)

\* A failed write in the loop: cancel(), then shutdown(true).
LoopWriteFails ==
    /\ rpLoop' = [rpLoop EXCEPT !.at = "drain2", !.err = TRUE]
    /\ rpReq' = AllCancelled
\* An answer the loop writes itself: to a malformed or refused frame, or to a cancel.
LoopAnswers ==
    IF rpBroken THEN LoopWriteFails ELSE Loop("read") /\ rpReq' = rpReq

\* ReadFrame fails (header, length, size, truncation): the reason is written if it
\* can be, everything is cancelled and the framing error is returned.
BadFrame ==
    /\ LoopAt("read") /\ rpFrames < MaxFrames
    /\ rpFrames' = rpFrames + 1
    /\ LoopWriteFails
    /\ UNCHANGED <<rpInflight, rpSlots, rpTokens, handler, rpTrip, rpBroken, rpClosed, rpLate, rpRefill>>

\* ParseRequest or ParseID refuses the payload.
Malformed ==
    /\ LoopAt("read") /\ rpFrames < MaxFrames
    /\ rpFrames' = rpFrames + 1
    /\ LoopAnswers
    /\ UNCHANGED <<rpInflight, rpSlots, rpTokens, handler, rpTrip, rpBroken, rpClosed, rpLate, rpRefill>>

\* The client closes its end between two frames: shutdown(false).
EndOfInput ==
    /\ LoopAt("read")
    /\ Loop("drain1")
    /\ UNCHANGED <<rpReq, rpInflight, rpSlots, rpTokens, handler, rpLate, around>>

\* The caller's context ends, a signal say, wherever the loop is: every request ends
\* with it, also the handshake the loop runs and what a drain waits for ...
ContextEnds ==
    /\ Interrupts /\ ~rpLoop.ended /\ ~Returned
    /\ rpReq' = AllCancelled /\ rpLoop' = [rpLoop EXCEPT !.ended = TRUE]
    /\ UNCHANGED <<rpInflight, rpSlots, rpTokens, handler, rpLate, around>>

\* ... and the select of the loop may take it before a frame: shutdown(true).
ContextSeen ==
    /\ LoopAt("read") /\ rpLoop.ended
    /\ Loop("drain2") /\ rpReq' = InflightCancelled
    /\ UNCHANGED <<rpInflight, rpSlots, rpTokens, handler, rpLate, around>>

\* rpc.cancel: the entry is looked up, and seen active or not ...
LookUpCancel(i) ==
    /\ LoopAt("read") /\ rpFrames < MaxFrames
    /\ rpFrames' = rpFrames + 1
    /\ LET n == rpInflight[i] IN
       IF n # 0 /\ rpReq[n].active
       THEN rpLoop' = [rpLoop EXCEPT !.at = "cancel", !.target = n] /\ rpReq' = rpReq
       ELSE LoopAnswers
    /\ UNCHANGED <<rpInflight, rpSlots, rpTokens, handler, rpTrip, rpBroken, rpClosed, rpLate, rpRefill>>

\* ... and then cancelled, whatever it has done meanwhile.
DoCancel ==
    /\ LoopAt("cancel")
    /\ LET n == rpLoop.target
           asked == [rpReq EXCEPT ![n] = [Cancelled(@) EXCEPT !.asked = TRUE]] IN
       IF rpBroken THEN /\ rpLoop' = [rpLoop EXCEPT !.at = "drain2", !.err = TRUE, !.target = 0]
                        /\ rpReq' = [k \in Requests |-> Cancelled(asked[k])]
       ELSE rpLoop' = [rpLoop EXCEPT !.at = "read", !.target = 0] /\ rpReq' = asked
    /\ UNCHANGED <<rpInflight, rpSlots, rpTokens, handler, rpLate, around>>

\* tokenBucket.Allow, then the semaphore, without waiting.
Refused == rpTokens = 0 \/ rpSlots = MaxConcurrent
Admit(m, i) ==
    /\ LoopAt("read") /\ Len(rpReq) < MaxRequests
    /\ ~Refused
    /\ rpTokens' = rpTokens - 1 /\ rpSlots' = rpSlots + 1
    /\ \E bad \in BOOLEAN :
          rpLoop' = [rpLoop EXCEPT !.at = "start", !.frame = [method |-> m, id |-> i, bad |-> bad]]
    /\ UNCHANGED <<rpReq, rpInflight, handler, rpLate, around>>

RefuseBusy ==
    /\ LoopAt("read") /\ rpFrames < MaxFrames
    /\ Refused
    /\ rpFrames' = rpFrames + 1
    /\ rpTokens' = IF rpTokens = 0 THEN 0 ELSE rpTokens - 1
    /\ LoopAnswers
    /\ UNCHANGED <<rpInflight, rpSlots, handler, rpTrip, rpBroken, rpClosed, rpLate, rpRefill>>

\* start refuses a deadline out of range, and an id that is still in flight; the
\* slot goes back.
StartRefused ==
    /\ LoopAt("start")
    /\ rpLoop.frame.bad \/ rpInflight[rpLoop.frame.id] # 0
    /\ rpSlots' = rpSlots - 1
    /\ IF rpBroken THEN rpLoop' = [rpLoop EXCEPT !.at = "drain2", !.err = TRUE, !.frame = NoFrame] /\ rpReq' = AllCancelled
       ELSE rpLoop' = [rpLoop EXCEPT !.at = "read", !.frame = NoFrame] /\ rpReq' = rpReq
    /\ UNCHANGED <<rpInflight, rpTokens, handler, rpLate, around>>

\* MarkSynchronousMethod(MethodHandshake): the loop runs it to its end.
isSynchronous(m) == m \in {"v1", "v2"}

\* start: a child of Run's context, which may have ended, with the deadline the
\* selector chose under the version in force,
\* an entry in the registry, a goroutine or, for the handshake, the loop itself.
Start ==
    /\ LoopAt("start")
    /\ ~rpLoop.frame.bad /\ rpInflight[rpLoop.frame.id] = 0
    /\ LET f == rpLoop.frame  n == Len(rpReq) + 1 IN
       /\ rpReq' = Append(rpReq, [id |-> f.id, method |-> f.method, at |-> "handle", active |-> TRUE,
                                  ctx |-> IF rpLoop.ended THEN "cancelled" ELSE "live",
                                  cut |-> IF rpLoop.ended THEN "handle" ELSE "none",
                                  asked |-> FALSE, version |-> rpVersion, shaken |-> rpShaken,
                                  result |-> "none", answers |-> 0, sent |-> "none"])
       /\ rpInflight' = [rpInflight EXCEPT ![f.id] = n]
       /\ rpLoop' = [rpLoop EXCEPT !.at = IF isSynchronous(f.method) THEN "inline" ELSE "read",
                                   !.frame = NoFrame, !.target = IF isSynchronous(f.method) THEN n ELSE 0]
    /\ UNCHANGED <<rpSlots, rpTokens, handler, rpLate, around>>

InlineDone ==
    /\ LoopAt("inline") /\ rpReq[rpLoop.target].at = "done"
    /\ rpLoop' = [rpLoop EXCEPT !.at = "read", !.target = 0]
    /\ UNCHANGED <<rpReq, rpInflight, rpSlots, rpTokens, handler, rpLate, around>>

\* shutdown: waitInflight sees every goroutine end, or its timeout passes; after an
\* end of input the requests are then cancelled and waited for once more.
Drained == \A n \in Requests : rpReq[n].at = "done"
DrainEnds ==
    /\ rpLoop.at \in {"drain1", "drain2"} /\ Drained
    /\ Loop("returned")
    /\ UNCHANGED <<rpReq, rpInflight, rpSlots, rpTokens, handler, rpLate, around>>
DrainExpires ==
    /\ ~Drained
    /\ \/ /\ LoopAt("drain1")
          /\ rpReq' = InflightCancelled /\ Loop("drain2")
       \/ /\ LoopAt("drain2")
          /\ rpReq' = AllCancelled    \* the deferred cancel of Run
          /\ rpLoop' = [rpLoop EXCEPT !.at = "returned", !.err = TRUE]
    /\ UNCHANGED <<rpInflight, rpSlots, rpTokens, handler, rpLate, around>>

\* serveWithDependencies: the authority is closed when Run has returned.
CloseAuthority ==
    /\ Returned /\ ~rpClosed
    /\ rpClosed' = TRUE
    /\ UNCHANGED <<rpLoop, rpReq, rpInflight, rpSlots, rpTokens, handler, rpTrip, rpBroken, rpLate, rpFrames, rpRefill>>

-----------------------------------------------------------------------------
(* A request: handler.Handle, then the rest of execute. *)

RequestAt(n, where) == rpReq[n].at = where
Moves(n, where) == rpReq' = [rpReq EXCEPT ![n].at = where]
\* The handler returns (or panics): active becomes false at once.
Returns(n, result) == rpReq' = [rpReq EXCEPT ![n].at = "returned", ![n].active = FALSE, ![n].result = result]
handlerSame == <<rpLoop, rpInflight, rpSlots, rpTokens, around>>

\* requestProgressReporter.Report: the notification goes out, or the handler fails.
Report(n, next) ==
    /\ IF rpBroken THEN Returns(n, "internal") ELSE Moves(n, next)
    /\ rpLate' = (rpLate \/ (Returned /\ ~rpLoop.err))

\* Handle: the handshake compares the version asked with the one in force ...
Handshake(n) ==
    /\ RequestAt(n, "handle") /\ rpReq[n].method \in {"v1", "v2"}
    /\ LET asked == IF rpReq[n].method = "v1" THEN 1 ELSE 2 IN
       IF rpVersion \notin {0, asked} THEN Returns(n, "incompatible") ELSE Moves(n, "pin")
    /\ UNCHANGED <<handler, rpLate, handlerSame>>
\* ... and stores it.
Pin(n) ==
    /\ RequestAt(n, "pin")
    /\ rpVersion' = (IF rpReq[n].method = "v1" THEN 1 ELSE 2) /\ rpShaken' = TRUE
    /\ Returns(n, "ok")
    /\ UNCHANGED <<rpLate, handlerSame>>

\* diagnose, export and connect_test: the parameters are wrong (or the authority
\* has no such connector), or the first stage is reported.
BeginRequest(n) ==
    \/ Returns(n, "invalid") /\ rpLate' = rpLate
    \/ Report(n, "collect")

\* Any other method: after the handshake, and only status under a safety trip.
Handle(n) ==
    /\ RequestAt(n, "handle") /\ rpReq[n].method \notin {"v1", "v2"}
    /\ \/ ~rpShaken /\ Returns(n, "handshake_required") /\ rpLate' = rpLate
       \/ /\ rpShaken /\ rpTrip /\ rpReq[n].method # "status"
          /\ Returns(n, "safety_trip") /\ rpLate' = rpLate
       \/ /\ rpShaken /\ (rpTrip => rpReq[n].method = "status")
          /\ CASE rpReq[n].method = "status" -> Moves(n, "collect") /\ rpLate' = rpLate
               [] rpReq[n].method = "other" -> Returns(n, "not_found") /\ rpLate' = rpLate
               [] OTHER -> BeginRequest(n)
    /\ UNCHANGED <<handler, handlerSame>>

\* diagnose.Run, ConnectTest or ConnectDirect: external work.
Collect(n) ==
    /\ RequestAt(n, "collect")
    /\ Moves(n, "collected")
    /\ UNCHANGED <<handler, rpLate, handlerSame>>

\* connect_test, of version 1 or 2: what the authority said.
Connected(n) ==
    \/ Returns(n, "failed") /\ rpLate' = rpLate
    \/ Report(n, "last")

\* runDiagnose and export look at the context and at the trip again before they
\* report.
Finish(n) ==
    /\ RequestAt(n, "collected")
    /\ CASE rpReq[n].method = "status" -> Returns(n, "ok") /\ rpLate' = rpLate
         [] rpReq[n].method = "connect" -> Connected(n)
         [] OTHER ->
              \/ rpReq[n].ctx # "live" /\ Returns(n, "ok") /\ rpLate' = rpLate
              \/ rpReq[n].ctx = "live" /\ rpTrip /\ Returns(n, "safety_trip") /\ rpLate' = rpLate
              \/ rpReq[n].ctx = "live" /\ ~rpTrip /\ Report(n, "last")
    /\ UNCHANGED <<handler, handlerSame>>

\* The last step: the answer, or the report that is written or could not be.
Last(n) ==
    /\ RequestAt(n, "last")
    /\ \/ Returns(n, "ok")
       \/ rpReq[n].method = "export" /\ Returns(n, "failed")
    /\ UNCHANGED <<handler, rpLate, handlerSame>>

\* The registry forgets the request, if the entry is still its own.
Retire(n) ==
    /\ RequestAt(n, "returned")
    /\ Moves(n, "retired")
    /\ rpInflight' = [i \in RequestIds |-> IF rpInflight[i] = n THEN 0 ELSE rpInflight[i]]
    /\ UNCHANGED <<rpLoop, rpSlots, rpTokens, handler, rpLate, around>>

\* Mutant: the result stands although the context has ended.
DecideIgnoringContext(n) ==
    /\ RequestAt(n, "retired")
    /\ rpReq' = [rpReq EXCEPT ![n].at = "write"]
    /\ UNCHANGED <<handler, rpLate, handlerSame>>

\* ctx.Err() decides over the result.
Decide(n) ==
    /\ RequestAt(n, "retired")
    /\ rpReq' = [rpReq EXCEPT ![n].at = "write", ![n].result = IF rpReq[n].ctx = "live" THEN @ ELSE rpReq[n].ctx]
    /\ UNCHANGED <<handler, rpLate, handlerSame>>

\* writeSuccess or writeError: lost, unnoticed, when the output is broken or the
\* result is larger than a frame may be.
Answer(n) ==
    /\ RequestAt(n, "write")
    /\ \E big \in IF rpReq[n].method \in {"status", "diagnose"} /\ rpReq[n].result = "ok" THEN BOOLEAN ELSE {FALSE} :
          rpReq' = [rpReq EXCEPT ![n].at = "answered", ![n].answers = @ + 1,
                                 ![n].sent = IF rpBroken \/ big THEN "lost" ELSE rpReq[n].result]
    /\ rpLate' = (rpLate \/ (Returned /\ ~rpLoop.err))
    /\ UNCHANGED <<handler, handlerSame>>

\* The deferred calls: cancel, the slot, the wait group.
Release(n) ==
    /\ RequestAt(n, "answered")
    /\ rpReq' = [rpReq EXCEPT ![n] = [Cancelled(@) EXCEPT !.at = "done"]]
    /\ rpSlots' = rpSlots - 1
    /\ UNCHANGED <<rpLoop, rpInflight, rpTokens, handler, rpLate, around>>

\* The deadline of the request passes.
Expire(n) ==
    /\ rpReq[n].at # "done" /\ rpReq[n].ctx = "live"
    /\ rpReq' = [rpReq EXCEPT ![n] = Ends(@, "deadline")]
    /\ UNCHANGED <<handler, rpLate, handlerSame>>

-----------------------------------------------------------------------------
(* The world around. *)

Refill ==
    /\ rpRefill < MaxRefill /\ rpTokens < Burst
    /\ rpTokens' = rpTokens + 1 /\ rpRefill' = rpRefill + 1
    /\ UNCHANGED <<rpLoop, rpReq, rpInflight, rpSlots, handler, rpTrip, rpBroken, rpClosed, rpLate, rpFrames>>
Trip ==
    /\ ~rpTrip /\ rpShaken
    /\ rpTrip' = TRUE
    /\ UNCHANGED <<rpLoop, rpReq, rpInflight, rpSlots, rpTokens, handler, rpBroken, rpClosed, rpLate, rpFrames, rpRefill>>
BreakOutput ==
    /\ Breaks /\ ~rpBroken
    /\ rpBroken' = TRUE
    /\ UNCHANGED <<rpLoop, rpReq, rpInflight, rpSlots, rpTokens, handler, rpTrip, rpClosed, rpLate, rpFrames, rpRefill>>

Run ==
    \/ EndOfInput \/ ContextEnds \/ ContextSeen \/ RefuseBusy
    \/ \E m \in Methods, i \in RequestIds : Admit(m, i)
handshake(n) == Handshake(n) \/ Pin(n)
execute(n) == Retire(n) \/ Decide(n) \/ Answer(n) \/ Release(n)
RequestStep(n) ==
    \/ handshake(n) \/ Handle(n) \/ Collect(n) \/ Finish(n) \/ Last(n)
    \/ execute(n) \/ Expire(n)
RpcNext ==
    \/ BadFrame \/ Malformed \/ Run \/ DoCancel \/ StartRefused \/ Start
    \/ InlineDone \/ DrainEnds \/ DrainExpires \/ CloseAuthority
    \/ \E i \in RequestIds : LookUpCancel(i)
    \/ \E n \in Requests : RequestStep(n)
    \/ Refill \/ Trip \/ BreakOutput

RpcSpec == RpcInit /\ [][RpcNext]_rpVars

-----------------------------------------------------------------------------
(* Properties. *)

RequestRuns(n) == rpReq[n].at \in {"handle", "pin", "collect", "collected", "last"}
Asked(m) == IF m = "v1" THEN 1 ELSE 2

\* The registry and the semaphore agree with the goroutines: an id names the one
\* request under it that has not been retired, and every slot is held by a request
\* that is not done or by the loop on its way to start one.
RegistryExact ==
    /\ \A i \in RequestIds : {n \in Requests : rpReq[n].id = i /\ (RequestRuns(n) \/ RequestAt(n, "returned"))}
                      = {rpInflight[i]} \ {0}
    /\ rpSlots = Cardinality({n \in Requests : ~RequestAt(n, "done")}) + (IF LoopAt("start") THEN 1 ELSE 0)

\* Run that returns nil leaves nothing behind: every request it admitted has been
\* answered exactly once (or its answer was lost to the output), no handler uses the
\* authority that is closed next, and nothing is written any more.
NilMeansQuiet ==
    /\ Returned /\ ~rpLoop.err => \A n \in Requests : RequestAt(n, "done") /\ rpReq[n].answers = 1
    /\ rpClosed /\ ~rpLoop.err => \A n \in Requests : ~RequestRuns(n)
    /\ ~rpLate

\* The handshake pins one version: all that succeed agree with it, a method that
\* started behind a successful handshake is not refused for want of one, and it runs
\* under the version that chose its deadline.
VersionPinned ==
    /\ \A n \in Requests : rpReq[n].method \in {"v1", "v2"} /\ rpReq[n].sent = "ok" => rpVersion = Asked(rpReq[n].method)
    /\ \A n, k \in Requests :
          /\ n < k /\ rpReq[n].method \in {"v1", "v2"} /\ rpReq[n].result = "ok" => rpReq[k].result # "handshake_required"
    /\ \A n \in Requests :
          rpReq[n].method \notin {"v1", "v2"} /\ rpReq[n].version # 0 => rpReq[n].version = rpVersion

\* A request is answered "cancelled" only when a cancel named it while it was in
\* flight, the context of Run had ended or Run was cancelling what was left, and one whose context ended before execute looked is
\* never answered with what its handler returned.
CancelHonest ==
    \A n \in Requests :
        /\ rpReq[n].sent = "cancelled" => rpReq[n].asked \/ rpLoop.ended \/ rpLoop.at \in {"drain2", "returned"}
        /\ rpReq[n].cut \notin {"none", "write", "answered"} => rpReq[n].sent \in {"none", "lost", rpReq[n].ctx}

\* The JSON-RPC server's registry and slots are exact, a Run that returns nil leaves
\* nothing behind, one version is pinned, and a cancelled request is never answered
\* as if it had not been (internal/stdiojsonrpc, internal/solverstdio).
ServerAnswers == RegistryExact /\ NilMeansQuiet /\ VersionPinned /\ CancelHonest

-----------------------------------------------------------------------------
(* The inductive invariant.  The version is pinned because the loop runs a   *)
(* handshake itself: while one is unfinished the loop waits for it and no    *)
(* later request exists.                                                     *)

isHandshake(r) == r.method \in {"v1", "v2"}

ResultStates ==
    {"none", "ok", "incompatible", "handshake_required", "safety_trip", "not_found", "invalid",
     "internal", "failed", "cancelled", "deadline"}

RequestStates ==
    [id : RequestIds, method : Methods,
     at : {"handle", "pin", "collect", "collected", "last", "returned", "retired", "write", "answered", "done"},
     ctx : {"live", "cancelled", "deadline"},
     cut : {"none", "handle", "pin", "collect", "collected", "last", "returned", "retired", "write", "answered", "done"},
     active : BOOLEAN, asked : BOOLEAN, version : {0, 1, 2}, shaken : BOOLEAN,
     result : ResultStates, answers : Nat, sent : {"lost"} \cup ResultStates]

Frames == [method : Methods \cup {"none"}, id : RequestIds \cup {NoId}, bad : BOOLEAN]
LoopStates ==
    [at : {"read", "start", "cancel", "inline", "drain1", "drain2", "returned"},
     frame : Frames, target : Nat, err : BOOLEAN, ended : BOOLEAN]

RpcTypeOK ==
    /\ rpReq \in Seq(RequestStates) /\ rpLoop \in LoopStates
    /\ rpInflight \in [RequestIds -> Nat] /\ rpSlots \in Int
    /\ rpVersion \in {0, 1, 2} /\ rpShaken \in BOOLEAN
    /\ rpTrip \in BOOLEAN /\ rpBroken \in BOOLEAN /\ rpClosed \in BOOLEAN /\ rpLate \in BOOLEAN

\* A request by itself: it is answered once, its context ends once, and what it
\* sends is what was decided, after its context if that had ended by then.
Sound(r) ==
    /\ r.answers = IF r.at \in {"answered", "done"} THEN 1 ELSE 0
    /\ r.ctx = "live" <=> r.cut = "none"
    /\ r.at = "done" => r.ctx # "live"
    /\ r.at \notin {"answered", "done"} => r.sent = "none"
    /\ r.sent \in {"none", "lost", r.result}
    /\ r.cut \notin {"none", "write", "answered"} /\ r.at \in {"write", "answered", "done"} => r.result = r.ctx
    /\ r.at = "pin" => isHandshake(r)
    /\ r.at \in {"collect", "collected", "last"} => ~isHandshake(r)

\* A request and the server: an unfinished handshake has the loop to itself, a
\* version, once stored, is the one in force, and only a cancel or the end of Run
\* cancels.
Placed(n) ==
    LET r == rpReq[n] IN
    /\ isHandshake(r) /\ r.at # "done" => LoopAt("inline") /\ rpLoop.target = n
    /\ r.at = "pin" => rpVersion \in {0, Asked(r.method)}
    /\ isHandshake(r) /\ r.result = "ok" => rpVersion = Asked(r.method) /\ rpShaken
    /\ r.version # 0 => r.version = rpVersion
    /\ (r.ctx = "cancelled" /\ r.at # "done") \/ r.result = "cancelled" =>
          r.asked \/ rpLoop.ended \/ rpLoop.at \in {"drain2", "returned"}

\* The loop: what it waits for is the last request, and what it is about to start
\* or to cancel exists.
LoopSound ==
    /\ LoopAt("inline") => rpLoop.target = Len(rpReq)
    /\ LoopAt("cancel") => rpLoop.target \in Requests
    /\ LoopAt("start") => rpLoop.frame.id \in RequestIds /\ rpLoop.frame.method \in Methods
    /\ rpClosed => Returned
    /\ Returned /\ ~rpLoop.err => Drained
    /\ ~rpLate

\* Behind a successful handshake nothing is refused for want of one.
Shaken ==
    \A n, k \in Requests : n < k /\ isHandshake(rpReq[n]) /\ rpReq[n].result = "ok" =>
        rpReq[k].result # "handshake_required"

RpcIInv ==
    /\ RpcTypeOK /\ LoopSound /\ Shaken /\ RegistryExact
    /\ \A n \in Requests : Sound(rpReq[n]) /\ Placed(n)

-----------------------------------------------------------------------------
(* Proofs, for every set of ids and methods and every value of the limits.   *)
(* A step of the loop leaves requests as they are or ends their contexts; a  *)
(* step of a request changes that request alone.                             *)

\* An element of a sequence is replaced.
LEMMA Replace ==
    ASSUME NEW S, NEW q \in Seq(S), NEW n \in 1..Len(q), NEW r \in S
    PROVE  /\ [q EXCEPT ![n] = r] \in Seq(S) /\ Len([q EXCEPT ![n] = r]) = Len(q)
           /\ [q EXCEPT ![n] = r][n] = r
           /\ \A k \in 1..Len(q) : k # n => [q EXCEPT ![n] = r][k] = q[k]
OBVIOUS

\* Requests are requests.
LEMMA RequestType ==
    ASSUME RpcTypeOK, NEW n \in Requests PROVE rpReq[n] \in RequestStates
BY DEF RpcTypeOK, Requests

\* The end of a context changes nothing but the context and where it was cut.
LEMMA EndsFields ==
    ASSUME NEW r \in RequestStates, NEW why \in {"cancelled", "deadline"}
    PROVE  LET s == Ends(r, why) IN
           /\ s \in RequestStates
           /\ s.id = r.id /\ s.method = r.method /\ s.at = r.at /\ s.asked = r.asked
           /\ s.version = r.version /\ s.result = r.result /\ s.answers = r.answers /\ s.sent = r.sent
           /\ s.ctx = (IF r.ctx = "live" THEN why ELSE r.ctx)
           /\ s.cut = (IF r.ctx = "live" THEN r.at ELSE r.cut)
<1>1. CASE r.ctx = "live"
  <2>1. Ends(r, why) = [r EXCEPT !.ctx = why, !.cut = r.at] BY <1>1 DEF Ends
  <2>2. [r EXCEPT !.ctx = why, !.cut = r.at] \in RequestStates BY DEF RequestStates
  <2>3. QED BY <1>1, <2>1, <2>2 DEF RequestStates
<1>2. CASE r.ctx # "live" BY <1>2 DEF Ends
<1>3. QED BY <1>1, <1>2

\* It keeps a request sound: one that is done has ended its context.
LEMMA EndsSound ==
    ASSUME NEW r \in RequestStates, NEW why \in {"cancelled", "deadline"}, Sound(r)
    PROVE  Sound(Ends(r, why))
<1>1. CASE r.ctx = "live"
  <2> DEFINE s == Ends(r, why)
  <2>1. /\ s.method = r.method /\ s.at = r.at /\ s.result = r.result /\ s.answers = r.answers
        /\ s.sent = r.sent /\ s.ctx = why /\ s.cut = r.at
    BY <1>1, EndsFields
  <2>2. r.at # "none" /\ r.at # "done" BY <1>1 DEF Sound, RequestStates
  <2> HIDE DEF s
  <2>3. Sound(s) BY <1>1, <2>1, <2>2 DEF Sound, isHandshake
  <2>4. QED BY <2>3 DEF s
<1>2. CASE r.ctx # "live" BY <1>2 DEF Ends
<1>3. QED BY <1>1, <1>2

\* The names a cancel leaves: the request asked, or not.
LEMMA AskedFields ==
    ASSUME NEW r \in RequestStates
    PROVE  LET s == [r EXCEPT !.asked = TRUE] IN
           /\ s \in RequestStates /\ s.asked
           /\ s.id = r.id /\ s.method = r.method /\ s.at = r.at /\ s.ctx = r.ctx /\ s.cut = r.cut
           /\ s.version = r.version /\ s.result = r.result /\ s.answers = r.answers /\ s.sent = r.sent
BY DEF RequestStates

\* What a step of the loop may do to a request: nothing, end its context because
\* Run is ending, or cancel it on demand.
Touched(r, s) ==
    /\ s \in RequestStates /\ Sound(s)
    /\ s.id = r.id /\ s.method = r.method /\ s.at = r.at /\ s.version = r.version
    /\ s.result = r.result /\ (r.asked => s.asked)
    /\ \/ s.ctx = r.ctx
       \/ rpLoop'.ended \/ rpLoop'.at \in {"drain2", "returned"}
       \/ s.asked

\* A request left alone.
LEMMA TouchedSame ==
    ASSUME NEW r \in RequestStates, Sound(r) PROVE Touched(r, r)
BY DEF Touched

\* A context that ends with Run.
LEMMA TouchedEnds ==
    ASSUME NEW r \in RequestStates, Sound(r), rpLoop'.ended \/ rpLoop'.at \in {"drain2", "returned"}
    PROVE  Touched(r, Cancelled(r))
BY EndsFields, EndsSound DEF Touched, Cancelled

\* A context that a cancel ends.
LEMMA TouchedAsked ==
    ASSUME NEW r \in RequestStates, Sound(r)
    PROVE  Touched(r, [Cancelled(r) EXCEPT !.asked = TRUE])
<1> DEFINE c == Cancelled(r)
           s == [c EXCEPT !.asked = TRUE]
<1>1. /\ c \in RequestStates /\ Sound(c) /\ c.id = r.id /\ c.method = r.method /\ c.at = r.at
      /\ c.version = r.version /\ c.result = r.result
    BY EndsFields, EndsSound DEF Cancelled
<1> HIDE DEF c
<1>2. /\ s \in RequestStates /\ s.asked
      /\ s.id = c.id /\ s.method = c.method /\ s.at = c.at /\ s.ctx = c.ctx /\ s.cut = c.cut
      /\ s.version = c.version /\ s.result = c.result /\ s.answers = c.answers /\ s.sent = c.sent
    BY <1>1, AskedFields
<1> HIDE DEF s
<1>3. Sound(s) BY <1>1, <1>2 DEF Sound, isHandshake
<1>4. Touched(r, s) BY <1>1, <1>2, <1>3 DEF Touched
<1>5. QED BY <1>4 DEF s, c

\* The requests an id names, and those that hold a slot.
Held(i) == {n \in Requests : rpReq[n].id = i /\ (RequestRuns(n) \/ RequestAt(n, "returned"))}
Undone == {n \in Requests : ~RequestAt(n, "done")}
StartingRequest == IF LoopAt("start") THEN 1 ELSE 0

\* The registry by its parts.
LEMMA RegistryParts ==
    RegistryExact <=> /\ \A i \in RequestIds : Held(i) = {rpInflight[i]} \ {0}
                      /\ rpSlots = Cardinality(Undone) + StartingRequest
BY DEF RegistryExact, Held, Undone, StartingRequest

\* The same of the next state.
LEMMA RegistryPartsAfter ==
    RegistryExact' <=> /\ \A i \in RequestIds : Held(i)' = {rpInflight'[i]} \ {0}
                       /\ rpSlots' = Cardinality(Undone') + StartingRequest'
BY DEF RegistryExact, Held, Undone, StartingRequest

\* Outside the loop's own handshake every handshake is done.
LEMMA HandshakesDone ==
    ASSUME RpcIInv, ~LoopAt("inline"), NEW n \in Requests, isHandshake(rpReq[n]) PROVE RequestAt(n, "done")
BY DEF RpcIInv, Placed, RequestAt

\* A step of the loop that starts no request keeps the invariant.
LEMMA LoopKeeps ==
    ASSUME RpcIInv, RpcTypeOK', LoopSound', Len(rpReq') = Len(rpReq),
           \A k \in Requests : Touched(rpReq[k], rpReq'[k]),
           UNCHANGED <<rpVersion, rpShaken, rpInflight>>,
           \/ \A n \in Requests : isHandshake(rpReq[n]) => RequestAt(n, "done")
           \/ rpLoop'.at = rpLoop.at /\ rpLoop'.target = rpLoop.target,
           rpLoop.ended => rpLoop'.ended,
           rpLoop.at \in {"drain2", "returned"} => rpLoop'.at \in {"drain2", "returned"},
           rpSlots' = rpSlots - StartingRequest + StartingRequest'
    PROVE  RpcIInv'
<1>0. Requests' = Requests BY DEF Requests
<1>1. ASSUME NEW n \in Requests PROVE Sound(rpReq'[n]) /\ Placed(n)'
  <2>1. /\ Touched(rpReq[n], rpReq'[n]) /\ Placed(n)
        /\ \/ isHandshake(rpReq[n]) => RequestAt(n, "done")
           \/ rpLoop'.at = rpLoop.at /\ rpLoop'.target = rpLoop.target
    BY DEF RpcIInv
  <2>2. QED BY <2>1 DEF Touched, Placed, isHandshake, RequestAt, Asked, LoopAt
<1>2. Shaken' BY <1>0 DEF RpcIInv, Shaken, Touched, isHandshake
<1>3. RegistryExact'
  <2>1. \A i \in RequestIds : Held(i)' = Held(i) BY <1>0 DEF Held, Touched, RequestRuns, RequestAt
  <2>2. Undone' = Undone BY <1>0 DEF Undone, Touched, RequestAt
  <2>3. Cardinality(Undone) \in Nat
    <3>1. IsFiniteSet(Requests) BY FS_Interval DEF Requests, RpcIInv, RpcTypeOK
    <3>2. IsFiniteSet(Undone) BY <3>1, FS_Subset DEF Undone
    <3>3. QED BY <3>2, FS_CardinalityType
  <2>4. rpSlots = Cardinality(Undone) + StartingRequest BY RegistryParts DEF RpcIInv
  <2>5. StartingRequest \in Nat /\ StartingRequest' \in Nat BY DEF StartingRequest
  <2>6. rpSlots' = Cardinality(Undone) + StartingRequest' BY <2>3, <2>4, <2>5
  <2>7. QED BY <2>1, <2>2, <2>6, RegistryParts, RegistryPartsAfter DEF RpcIInv
<1>4. QED BY <1>0, <1>1, <1>2, <1>3 DEF RpcIInv

\* cancel() of Run's context, with Run on its way out.
LEMMA AllTouched ==
    ASSUME RpcIInv, rpReq' = AllCancelled, rpLoop'.ended \/ rpLoop'.at \in {"drain2", "returned"}
    PROVE  /\ rpReq' \in Seq(RequestStates) /\ Len(rpReq') = Len(rpReq)
           /\ \A k \in Requests : Touched(rpReq[k], rpReq'[k])
<1>1. \A k \in Requests : Touched(rpReq[k], Cancelled(rpReq[k]))
    BY RequestType, TouchedEnds DEF RpcIInv
<1>2. \A k \in Requests : Cancelled(rpReq[k]) \in RequestStates BY <1>1 DEF Touched
<1>3. Len(rpReq) \in Nat BY DEF RpcIInv, RpcTypeOK
<1>4. QED BY <1>1, <1>2, <1>3 DEF AllCancelled, Requests

\* The requests as they are.
LEMMA NoneTouched ==
    ASSUME RpcIInv, rpReq' = rpReq
    PROVE  /\ rpReq' \in Seq(RequestStates) /\ Len(rpReq') = Len(rpReq)
           /\ \A k \in Requests : Touched(rpReq[k], rpReq'[k])
BY RequestType, TouchedSame DEF RpcIInv, RpcTypeOK

\* cancelAllInflight, with Run on its way out.
LEMMA SomeTouched ==
    ASSUME RpcIInv, rpReq' = InflightCancelled, rpLoop'.ended \/ rpLoop'.at \in {"drain2", "returned"}
    PROVE  /\ rpReq' \in Seq(RequestStates) /\ Len(rpReq') = Len(rpReq)
           /\ \A k \in Requests : Touched(rpReq[k], rpReq'[k])
<1>1. \A k \in Requests : Touched(rpReq[k], Cancelled(rpReq[k])) /\ Touched(rpReq[k], rpReq[k])
    BY RequestType, TouchedEnds, TouchedSame DEF RpcIInv
<1>2. \A k \in Requests : Cancelled(rpReq[k]) \in RequestStates /\ rpReq[k] \in RequestStates
    BY <1>1 DEF Touched
<1>3. Len(rpReq) \in Nat BY DEF RpcIInv, RpcTypeOK
<1>4. QED BY <1>1, <1>2, <1>3 DEF InflightCancelled, Requests

\* A loop record that is updated.
LEMMA LoopFields ==
    ASSUME NEW r \in LoopStates, NEW w \in {"read", "start", "cancel", "inline", "drain1", "drain2", "returned"},
           NEW f \in Frames, NEW n \in Nat, NEW e \in BOOLEAN
    PROVE  LET s == [r EXCEPT !.at = w, !.frame = f, !.target = n, !.err = e] IN
           s \in LoopStates /\ s.at = w /\ s.frame = f /\ s.target = n /\ s.err = e
BY DEF LoopStates

\* The loop moves on, from outside Run's return, and does not wait for a handshake.
LEMMA LoopStep ==
    ASSUME RpcIInv, UNCHANGED <<rpInflight, rpVersion, rpShaken, rpLate, rpClosed, rpTrip, rpBroken>>,
           rpSlots' = rpSlots - StartingRequest + StartingRequest',
           rpReq' \in Seq(RequestStates), Len(rpReq') = Len(rpReq),
           \A k \in Requests : Touched(rpReq[k], rpReq'[k]),
           \A n \in Requests : isHandshake(rpReq[n]) => RequestAt(n, "done"),
           ~Returned, rpLoop.at = "drain2" => rpLoop'.at \in {"drain2", "returned"},
           rpLoop' \in LoopStates, rpLoop'.at # "inline", rpLoop'.ended = rpLoop.ended,
           rpLoop'.at = "cancel" => rpLoop'.target \in Requests,
           rpLoop'.at = "start" => rpLoop'.frame.id \in RequestIds /\ rpLoop'.frame.method \in Methods,
           rpLoop'.at = "returned" /\ ~rpLoop'.err => Drained
    PROVE  RpcIInv'
<1>0. Requests' = Requests BY DEF Requests
<1>1. rpSlots' \in Int BY DEF StartingRequest, RpcIInv, RpcTypeOK
<1>2. RpcTypeOK' BY <1>1 DEF RpcIInv, RpcTypeOK
<1>3. Drained => Drained' BY <1>0 DEF Drained, Touched
<1>4. LoopSound' BY <1>0, <1>3 DEF RpcIInv, LoopSound, LoopAt, Returned
<1>5. rpLoop.at \in {"drain2", "returned"} => rpLoop'.at \in {"drain2", "returned"}
    BY DEF Returned, LoopAt
<1>6. QED BY <1>2, <1>4, <1>5, LoopKeeps

\* Where the loop goes from a record it updates, with its error set ...
LEMMA LoopTo ==
    ASSUME RpcIInv, NEW w \in {"read", "start", "cancel", "drain1", "drain2", "returned"}, NEW e \in BOOLEAN
    PROVE  /\ LET s == [rpLoop EXCEPT !.at = w, !.err = e] IN
              s \in LoopStates /\ s.at = w /\ s.err = e /\ s.ended = rpLoop.ended
           /\ LET s == [rpLoop EXCEPT !.at = w, !.err = e, !.target = 0] IN
              s \in LoopStates /\ s.at = w /\ s.err = e /\ s.ended = rpLoop.ended
           /\ LET s == [rpLoop EXCEPT !.at = w, !.err = e, !.frame = NoFrame] IN
              s \in LoopStates /\ s.at = w /\ s.err = e /\ s.ended = rpLoop.ended
<1>1. rpLoop \in LoopStates BY DEF RpcIInv, RpcTypeOK
<1>2. NoFrame \in Frames BY DEF NoFrame, Frames
<1>3. QED BY <1>1, <1>2 DEF LoopStates

\* ... and with its error kept.
LEMMA LoopOn ==
    ASSUME RpcIInv, NEW w \in {"read", "start", "cancel", "drain1", "drain2", "returned"}
    PROVE  /\ LET s == [rpLoop EXCEPT !.at = w] IN
              s \in LoopStates /\ s.at = w /\ s.err = rpLoop.err /\ s.ended = rpLoop.ended
           /\ LET s == [rpLoop EXCEPT !.at = w, !.target = 0] IN
              s \in LoopStates /\ s.at = w /\ s.err = rpLoop.err /\ s.ended = rpLoop.ended
           /\ LET s == [rpLoop EXCEPT !.at = w, !.frame = NoFrame] IN
              s \in LoopStates /\ s.at = w /\ s.err = rpLoop.err /\ s.ended = rpLoop.ended
<1>1. rpLoop \in LoopStates BY DEF RpcIInv, RpcTypeOK
<1>2. NoFrame \in Frames BY DEF NoFrame, Frames
<1>3. QED BY <1>1, <1>2 DEF LoopStates

\* What the loop's answers to a frame do: on to the next frame, or out.
LEMMA AnswersKeep ==
    ASSUME RpcIInv, LoopAt("read"), LoopAnswers \/ LoopWriteFails,
           UNCHANGED <<rpInflight, rpVersion, rpShaken, rpLate, rpClosed, rpTrip, rpBroken, rpSlots>>
    PROVE  RpcIInv'
<1>1. \A n \in Requests : isHandshake(rpReq[n]) => RequestAt(n, "done") BY HandshakesDone DEF LoopAt
<1>2. CASE LoopWriteFails
  <2>1. rpLoop' \in LoopStates /\ rpLoop'.at = "drain2" /\ rpLoop'.ended = rpLoop.ended BY <1>2, LoopTo DEF LoopWriteFails
  <2>2. /\ rpReq' \in Seq(RequestStates) /\ Len(rpReq') = Len(rpReq)
        /\ \A k \in Requests : Touched(rpReq[k], rpReq'[k])
    BY <1>2, <2>1, AllTouched DEF LoopWriteFails
  <2>3. rpSlots' = rpSlots - StartingRequest + StartingRequest' BY <2>1 DEF StartingRequest, LoopAt, RpcIInv, RpcTypeOK
  <2>4. QED BY <1>1, <2>1, <2>2, <2>3, LoopStep DEF LoopAt, Returned
<1>3. CASE Loop("read") /\ rpReq' = rpReq
  <2>1. rpLoop' \in LoopStates /\ rpLoop'.at = "read" /\ rpLoop'.ended = rpLoop.ended BY <1>3, LoopOn DEF Loop
  <2>2. /\ rpReq' \in Seq(RequestStates) /\ Len(rpReq') = Len(rpReq)
        /\ \A k \in Requests : Touched(rpReq[k], rpReq'[k])
    BY <1>3, NoneTouched
  <2>3. rpSlots' = rpSlots - StartingRequest + StartingRequest' BY <2>1 DEF StartingRequest, LoopAt, RpcIInv, RpcTypeOK
  <2>4. QED BY <1>1, <2>1, <2>2, <2>3, LoopStep DEF LoopAt, Returned
<1>4. QED BY <1>2, <1>3 DEF LoopAnswers

\* Frames that start nothing.
LEMMA FramesKeep ==
    ASSUME RpcIInv, BadFrame \/ Malformed \/ RefuseBusy PROVE RpcIInv'
BY AnswersKeep DEF BadFrame, Malformed, RefuseBusy, handler

\* The end of the input, the end of the context seen, and an admission.
LEMMA ReadsKeep ==
    ASSUME RpcIInv, EndOfInput \/ ContextSeen \/ \E m \in Methods, i \in RequestIds : Admit(m, i)
    PROVE  RpcIInv'
<1>a. LoopAt("read") BY DEF EndOfInput, ContextSeen, Admit
<1>1. \A n \in Requests : isHandshake(rpReq[n]) => RequestAt(n, "done") BY <1>a, HandshakesDone DEF LoopAt
<1>2. UNCHANGED <<rpInflight, rpVersion, rpShaken, rpLate, rpClosed, rpTrip, rpBroken>>
    BY DEF EndOfInput, ContextSeen, Admit, handler, around
<1>3. CASE EndOfInput
  <2>1. rpLoop' \in LoopStates /\ rpLoop'.at = "drain1" /\ rpLoop'.ended = rpLoop.ended BY <1>3, LoopOn DEF EndOfInput, Loop
  <2>2. /\ rpReq' \in Seq(RequestStates) /\ Len(rpReq') = Len(rpReq)
        /\ \A k \in Requests : Touched(rpReq[k], rpReq'[k])
    BY <1>3, NoneTouched DEF EndOfInput
  <2>3. rpSlots' = rpSlots - StartingRequest + StartingRequest'
    BY <1>a, <1>3, <2>1 DEF StartingRequest, LoopAt, RpcIInv, RpcTypeOK, EndOfInput
  <2>4. QED BY <1>a, <1>1, <1>2, <2>1, <2>2, <2>3, LoopStep DEF LoopAt, Returned
<1>4. CASE ContextSeen
  <2>1. rpLoop' \in LoopStates /\ rpLoop'.at = "drain2" /\ rpLoop'.ended = rpLoop.ended BY <1>4, LoopOn DEF ContextSeen, Loop
  <2>2. /\ rpReq' \in Seq(RequestStates) /\ Len(rpReq') = Len(rpReq)
        /\ \A k \in Requests : Touched(rpReq[k], rpReq'[k])
    BY <1>4, <2>1, SomeTouched DEF ContextSeen
  <2>3. rpSlots' = rpSlots - StartingRequest + StartingRequest'
    BY <1>a, <1>4, <2>1 DEF StartingRequest, LoopAt, RpcIInv, RpcTypeOK, ContextSeen
  <2>4. QED BY <1>a, <1>1, <1>2, <2>1, <2>2, <2>3, LoopStep DEF LoopAt, Returned
<1>5. ASSUME NEW m \in Methods, NEW i \in RequestIds, Admit(m, i) PROVE RpcIInv'
  <2>0. PICK bad \in BOOLEAN :
          rpLoop' = [rpLoop EXCEPT !.at = "start", !.frame = [method |-> m, id |-> i, bad |-> bad]]
    BY <1>5 DEF Admit
  <2>1. /\ rpLoop' \in LoopStates /\ rpLoop'.at = "start" /\ rpLoop'.ended = rpLoop.ended
        /\ rpLoop'.frame = [method |-> m, id |-> i, bad |-> bad]
    <3>1. rpLoop \in LoopStates BY DEF RpcIInv, RpcTypeOK
    <3>2. [method |-> m, id |-> i, bad |-> bad] \in Frames BY DEF Frames
    <3>3. QED BY <2>0, <3>1, <3>2 DEF LoopStates
  <2>2. /\ rpReq' \in Seq(RequestStates) /\ Len(rpReq') = Len(rpReq)
        /\ \A k \in Requests : Touched(rpReq[k], rpReq'[k])
    BY <1>5, NoneTouched DEF Admit
  <2>3. rpSlots' = rpSlots - StartingRequest + StartingRequest'
    <3>1. rpSlots' = rpSlots + 1 /\ rpSlots \in Int BY <1>5 DEF Admit, RpcIInv, RpcTypeOK
    <3>2. StartingRequest = 0 /\ StartingRequest' = 1 BY <1>a, <2>1 DEF StartingRequest, LoopAt
    <3>3. QED BY <3>1, <3>2
  <2>4. QED BY <1>a, <1>1, <1>2, <2>1, <2>2, <2>3, LoopStep DEF LoopAt, Returned
<1>6. QED BY <1>3, <1>4, <1>5

\* The end of Run's context, wherever the loop is, also inside its handshake.
LEMMA ContextKeeps ==
    ASSUME RpcIInv, ContextEnds PROVE RpcIInv'
<1>0. rpLoop \in LoopStates /\ ~Returned BY DEF ContextEnds, RpcIInv, RpcTypeOK
<1>1. /\ rpLoop' \in LoopStates /\ rpLoop'.ended /\ rpLoop'.at = rpLoop.at
      /\ rpLoop'.target = rpLoop.target /\ rpLoop'.frame = rpLoop.frame
    BY <1>0 DEF ContextEnds, LoopStates
<1>2. UNCHANGED <<rpInflight, rpVersion, rpShaken, rpLate, rpClosed, rpTrip, rpBroken, rpSlots>>
    BY DEF ContextEnds, handler, around
<1>3. /\ rpReq' \in Seq(RequestStates) /\ Len(rpReq') = Len(rpReq)
      /\ \A k \in Requests : Touched(rpReq[k], rpReq'[k])
    BY <1>1, AllTouched DEF ContextEnds
<1>4. RpcTypeOK' BY <1>1, <1>2, <1>3 DEF RpcIInv, RpcTypeOK
<1>5. Requests' = Requests BY <1>3 DEF Requests
<1>6. LoopSound' BY <1>0, <1>1, <1>2, <1>3, <1>5 DEF RpcIInv, LoopSound, LoopAt, Returned
<1>7. rpSlots' = rpSlots - StartingRequest + StartingRequest'
    BY <1>1, <1>2 DEF StartingRequest, LoopAt, RpcIInv, RpcTypeOK
<1>8. QED BY <1>1, <1>2, <1>3, <1>4, <1>6, <1>7, LoopKeeps

\* rpc.cancel: looked up ...
LEMMA LookUpKeeps ==
    ASSUME RpcIInv, NEW i \in RequestIds, LookUpCancel(i) PROVE RpcIInv'
<1>a. LoopAt("read") BY DEF LookUpCancel
<1>1. \A n \in Requests : isHandshake(rpReq[n]) => RequestAt(n, "done") BY <1>a, HandshakesDone DEF LoopAt
<1>2. UNCHANGED <<rpInflight, rpVersion, rpShaken, rpLate, rpClosed, rpTrip, rpBroken, rpSlots>>
    BY DEF LookUpCancel, handler
<1>3. CASE LoopAnswers BY <1>a, <1>2, <1>3, AnswersKeep
<1>4. CASE /\ rpInflight[i] # 0
           /\ rpLoop' = [rpLoop EXCEPT !.at = "cancel", !.target = rpInflight[i]]
           /\ rpReq' = rpReq
  <2>1. rpInflight[i] \in Nat /\ rpLoop \in LoopStates BY DEF RpcIInv, RpcTypeOK
  <2>2. rpLoop' \in LoopStates /\ rpLoop'.at = "cancel" /\ rpLoop'.ended = rpLoop.ended /\ rpLoop'.target = rpInflight[i]
    BY <1>4, <2>1 DEF LoopStates
  <2>3. rpInflight[i] \in Requests
    <3>1. Held(i) = {rpInflight[i]} \ {0} BY RegistryParts DEF RpcIInv
    <3>2. QED BY <1>4, <3>1 DEF Held
  <2>4. /\ rpReq' \in Seq(RequestStates) /\ Len(rpReq') = Len(rpReq)
        /\ \A k \in Requests : Touched(rpReq[k], rpReq'[k])
    BY <1>4, NoneTouched
  <2>5. rpSlots' = rpSlots - StartingRequest + StartingRequest'
    BY <1>a, <1>2, <2>2 DEF StartingRequest, LoopAt, RpcIInv, RpcTypeOK
  <2>6. QED BY <1>a, <1>1, <1>2, <2>2, <2>3, <2>4, <2>5, LoopStep DEF LoopAt, Returned
<1>5. QED BY <1>3, <1>4 DEF LookUpCancel

\* ... and cancelled.
LEMMA DoCancelKeeps ==
    ASSUME RpcIInv, DoCancel PROVE RpcIInv'
<1> DEFINE t == rpLoop.target
           c == [Cancelled(rpReq[t]) EXCEPT !.asked = TRUE]
           asked == [rpReq EXCEPT ![t] = c]
<1>a. LoopAt("cancel") /\ t \in Requests BY DEF DoCancel, RpcIInv, LoopSound
<1>1. \A n \in Requests : isHandshake(rpReq[n]) => RequestAt(n, "done") BY <1>a, HandshakesDone DEF LoopAt
<1>2. UNCHANGED <<rpInflight, rpVersion, rpShaken, rpLate, rpClosed, rpTrip, rpBroken, rpSlots>>
    BY DEF DoCancel, handler, around
<1>3. rpReq[t] \in RequestStates /\ Sound(rpReq[t]) BY <1>a, RequestType DEF RpcIInv
<1>4. Touched(rpReq[t], c) BY <1>3, TouchedAsked
<1>5. c \in RequestStates BY <1>4 DEF Touched
<1> HIDE DEF c
<1>6. /\ asked \in Seq(RequestStates) /\ Len(asked) = Len(rpReq) /\ asked[t] = c
      /\ \A k \in Requests : k # t => asked[k] = rpReq[k]
    BY <1>a, <1>5, Replace DEF RpcIInv, RpcTypeOK, Requests
<1>7. \A k \in Requests : Touched(rpReq[k], asked[k])
    BY <1>4, <1>6, RequestType, TouchedSame DEF RpcIInv
<1> HIDE DEF asked
<1>8. CASE ~rpBroken
  <2>1. rpLoop' = [rpLoop EXCEPT !.at = "read", !.target = 0] /\ rpReq' = asked
    BY <1>8 DEF DoCancel, asked, c
  <2>2. rpLoop' \in LoopStates /\ rpLoop'.at = "read" /\ rpLoop'.ended = rpLoop.ended BY <2>1, LoopOn
  <2>3. rpSlots' = rpSlots - StartingRequest + StartingRequest'
    BY <1>a, <1>2, <2>2 DEF StartingRequest, LoopAt, RpcIInv, RpcTypeOK
  <2>4. QED BY <1>a, <1>1, <1>2, <1>6, <1>7, <2>1, <2>2, <2>3, LoopStep DEF LoopAt, Returned
<1>9. CASE rpBroken
  <2>1. /\ rpLoop' = [rpLoop EXCEPT !.at = "drain2", !.err = TRUE, !.target = 0]
        /\ rpReq' = [k \in Requests |-> Cancelled(asked[k])]
    BY <1>9 DEF DoCancel, asked, c
  <2>2. rpLoop' \in LoopStates /\ rpLoop'.at = "drain2" /\ rpLoop'.ended = rpLoop.ended BY <2>1, LoopTo
  <2>3. ASSUME NEW k \in Requests
        PROVE  Cancelled(asked[k]) \in RequestStates /\ Touched(rpReq[k], Cancelled(asked[k]))
    <3>1. Touched(rpReq[k], asked[k]) BY <1>7
    <3>2. asked[k] \in RequestStates /\ Sound(asked[k]) BY <3>1 DEF Touched
    <3>3. Touched(asked[k], Cancelled(asked[k])) BY <2>2, <3>2, TouchedEnds
    <3>4. QED BY <2>2, <3>1, <3>3 DEF Touched
  <2>4. Len(rpReq) \in Nat BY DEF RpcIInv, RpcTypeOK
  <2>5. /\ rpReq' \in Seq(RequestStates) /\ Len(rpReq') = Len(rpReq)
        /\ \A k \in Requests : Touched(rpReq[k], rpReq'[k])
    BY <2>1, <2>3, <2>4 DEF Requests
  <2>6. rpSlots' = rpSlots - StartingRequest + StartingRequest'
    BY <1>a, <1>2, <2>2 DEF StartingRequest, LoopAt, RpcIInv, RpcTypeOK
  <2>7. QED BY <1>a, <1>1, <1>2, <2>2, <2>5, <2>6, LoopStep DEF LoopAt, Returned
<1>10. QED BY <1>8, <1>9

\* start refuses: the slot goes back.
LEMMA StartRefusedKeeps ==
    ASSUME RpcIInv, StartRefused PROVE RpcIInv'
<1>a. LoopAt("start") BY DEF StartRefused
<1>1. \A n \in Requests : isHandshake(rpReq[n]) => RequestAt(n, "done") BY <1>a, HandshakesDone DEF LoopAt
<1>2. UNCHANGED <<rpInflight, rpVersion, rpShaken, rpLate, rpClosed, rpTrip, rpBroken>>
    BY DEF StartRefused, handler, around
<1>3. rpSlots' = rpSlots - 1 /\ rpSlots \in Int /\ StartingRequest = 1
    BY <1>a DEF StartRefused, StartingRequest, RpcIInv, RpcTypeOK
<1>4. CASE rpBroken
  <2>1. /\ rpLoop' = [rpLoop EXCEPT !.at = "drain2", !.err = TRUE, !.frame = NoFrame]
        /\ rpReq' = AllCancelled
    BY <1>4 DEF StartRefused
  <2>2. rpLoop' \in LoopStates /\ rpLoop'.at = "drain2" /\ rpLoop'.ended = rpLoop.ended BY <2>1, LoopTo
  <2>3. /\ rpReq' \in Seq(RequestStates) /\ Len(rpReq') = Len(rpReq)
        /\ \A k \in Requests : Touched(rpReq[k], rpReq'[k])
    BY <2>1, <2>2, AllTouched
  <2>4. StartingRequest' = 0 BY <2>2 DEF StartingRequest, LoopAt
  <2>5. rpSlots' = rpSlots - StartingRequest + StartingRequest' BY <1>3, <2>4
  <2>6. QED BY <1>a, <1>1, <1>2, <2>2, <2>3, <2>5, LoopStep DEF LoopAt, Returned
<1>5. CASE ~rpBroken
  <2>1. /\ rpLoop' = [rpLoop EXCEPT !.at = "read", !.frame = NoFrame] /\ rpReq' = rpReq
    BY <1>5 DEF StartRefused
  <2>2. rpLoop' \in LoopStates /\ rpLoop'.at = "read" /\ rpLoop'.ended = rpLoop.ended BY <2>1, LoopOn
  <2>3. /\ rpReq' \in Seq(RequestStates) /\ Len(rpReq') = Len(rpReq)
        /\ \A k \in Requests : Touched(rpReq[k], rpReq'[k])
    BY <2>1, NoneTouched
  <2>4. StartingRequest' = 0 BY <2>2 DEF StartingRequest, LoopAt
  <2>5. rpSlots' = rpSlots - StartingRequest + StartingRequest' BY <1>3, <2>4
  <2>6. QED BY <1>a, <1>1, <1>2, <2>2, <2>3, <2>5, LoopStep DEF LoopAt, Returned
<1>6. QED BY <1>4, <1>5

\* The loop's handshake is done: it was the last one that was not.
LEMMA InlineDoneKeeps ==
    ASSUME RpcIInv, InlineDone PROVE RpcIInv'
<1>1. \A n \in Requests : isHandshake(rpReq[n]) => RequestAt(n, "done")
    BY DEF InlineDone, RpcIInv, Placed, RequestAt
<1>2. UNCHANGED <<rpInflight, rpVersion, rpShaken, rpLate, rpClosed, rpTrip, rpBroken, rpSlots>>
    BY DEF InlineDone, handler, around
<1>3. rpLoop' \in LoopStates /\ rpLoop'.at = "read" /\ rpLoop'.ended = rpLoop.ended BY LoopOn DEF InlineDone
<1>4. /\ rpReq' \in Seq(RequestStates) /\ Len(rpReq') = Len(rpReq)
      /\ \A k \in Requests : Touched(rpReq[k], rpReq'[k])
    BY NoneTouched DEF InlineDone
<1>5. rpSlots' = rpSlots - StartingRequest + StartingRequest'
    BY <1>2, <1>3 DEF InlineDone, StartingRequest, LoopAt, RpcIInv, RpcTypeOK
<1>6. rpLoop.at = "inline" BY DEF InlineDone, LoopAt
<1>7. QED BY <1>1, <1>2, <1>3, <1>4, <1>5, <1>6, LoopStep DEF LoopAt, Returned

\* shutdown.
LEMMA DrainsKeep ==
    ASSUME RpcIInv, DrainEnds \/ DrainExpires PROVE RpcIInv'
<1>a. rpLoop.at \in {"drain1", "drain2"} BY DEF DrainEnds, DrainExpires, LoopAt
<1>1. \A n \in Requests : isHandshake(rpReq[n]) => RequestAt(n, "done") BY <1>a, HandshakesDone DEF LoopAt
<1>2. UNCHANGED <<rpInflight, rpVersion, rpShaken, rpLate, rpClosed, rpTrip, rpBroken, rpSlots>>
    BY DEF DrainEnds, DrainExpires, handler, around
<1>s. ASSUME rpLoop'.at # "start" PROVE rpSlots' = rpSlots - StartingRequest + StartingRequest'
    BY <1>a, <1>2, <1>s DEF StartingRequest, LoopAt, RpcIInv, RpcTypeOK
<1>3. CASE DrainEnds
  <2>1. rpLoop' \in LoopStates /\ rpLoop'.at = "returned" /\ rpLoop'.ended = rpLoop.ended BY <1>3, LoopOn DEF DrainEnds, Loop
  <2>2. /\ rpReq' \in Seq(RequestStates) /\ Len(rpReq') = Len(rpReq)
        /\ \A k \in Requests : Touched(rpReq[k], rpReq'[k])
    BY <1>3, NoneTouched DEF DrainEnds
  <2>3. Drained BY <1>3 DEF DrainEnds
  <2>4. QED BY <1>a, <1>1, <1>2, <1>s, <2>1, <2>2, <2>3, LoopStep DEF LoopAt, Returned
<1>4. CASE LoopAt("drain1") /\ rpReq' = InflightCancelled /\ Loop("drain2")
  <2>1. rpLoop' \in LoopStates /\ rpLoop'.at = "drain2" /\ rpLoop'.ended = rpLoop.ended BY <1>4, LoopOn DEF Loop
  <2>2. /\ rpReq' \in Seq(RequestStates) /\ Len(rpReq') = Len(rpReq)
        /\ \A k \in Requests : Touched(rpReq[k], rpReq'[k])
    BY <1>4, <2>1, SomeTouched
  <2>3. QED BY <1>a, <1>1, <1>2, <1>s, <2>1, <2>2, LoopStep DEF LoopAt, Returned
<1>5. CASE /\ LoopAt("drain2") /\ rpReq' = AllCancelled
           /\ rpLoop' = [rpLoop EXCEPT !.at = "returned", !.err = TRUE]
  <2>1. rpLoop' \in LoopStates /\ rpLoop'.at = "returned" /\ rpLoop'.ended = rpLoop.ended /\ rpLoop'.err BY <1>5, LoopTo
  <2>2. /\ rpReq' \in Seq(RequestStates) /\ Len(rpReq') = Len(rpReq)
        /\ \A k \in Requests : Touched(rpReq[k], rpReq'[k])
    BY <1>5, <2>1, AllTouched
  <2>3. QED BY <1>a, <1>1, <1>2, <1>s, <2>1, <2>2, LoopStep DEF LoopAt, Returned
<1>6. QED BY <1>3, <1>4, <1>5 DEF DrainExpires

\* The world around, and the close of the authority, touch no request.
LEMMA AroundKeeps ==
    ASSUME RpcIInv, UNCHANGED <<rpLoop, rpReq, rpInflight, rpSlots, rpVersion, rpShaken, rpLate>>,
           rpTrip' \in BOOLEAN, rpBroken' \in BOOLEAN, rpClosed' \in BOOLEAN,
           rpClosed' => rpClosed \/ Returned
    PROVE  RpcIInv'
<1>1. RpcTypeOK' /\ LoopSound' BY DEF RpcIInv, RpcTypeOK, LoopSound, LoopAt, Returned, Drained, Requests
<1>2. Shaken' /\ RegistryExact'
    BY DEF RpcIInv, Shaken, RegistryExact, Requests, RequestRuns, RequestAt, LoopAt
<1>3. Requests' = Requests BY DEF Requests
<1>4. \A n \in Requests : (Sound(rpReq[n]) /\ Placed(n))'
    BY DEF RpcIInv, Placed, LoopAt
<1>5. QED BY <1>1, <1>2, <1>3, <1>4 DEF RpcIInv

\* Finite sets of requests.
LEMMA UndoneFinite ==
    ASSUME RpcTypeOK PROVE IsFiniteSet(Undone) /\ Cardinality(Undone) \in Nat
<1>1. IsFiniteSet(Requests) BY FS_Interval DEF Requests, RpcTypeOK
<1>2. IsFiniteSet(Undone) BY <1>1, FS_Subset DEF Undone
<1>3. QED BY <1>2, FS_CardinalityType

\* start: the request is the last one, under an id that named none.
LEMMA StartKeeps ==
    ASSUME RpcIInv, Start PROVE RpcIInv'
<1> DEFINE f == rpLoop.frame
           r == [id |-> f.id, method |-> f.method, at |-> "handle", active |-> TRUE,
                 ctx |-> IF rpLoop.ended THEN "cancelled" ELSE "live",
                 cut |-> IF rpLoop.ended THEN "handle" ELSE "none", asked |-> FALSE, version |-> rpVersion, shaken |-> rpShaken,
                 result |-> "none", answers |-> 0, sent |-> "none"]
<1>a. /\ LoopAt("start") /\ f.id \in RequestIds /\ f.method \in Methods /\ rpInflight[f.id] = 0
      /\ rpLoop \in LoopStates /\ rpReq \in Seq(RequestStates) /\ Len(rpReq) \in Nat
    BY DEF Start, RpcIInv, LoopSound, RpcTypeOK
<1>b. PICK n \in Nat : n = Len(rpReq) + 1 BY <1>a
<1>1. /\ r \in RequestStates /\ Sound(r) /\ r.id = f.id /\ r.method = f.method /\ r.at = "handle"
      /\ (r.ctx = "live" \/ rpLoop.ended) /\ r.result = "none" /\ r.version = rpVersion
    BY <1>a DEF RequestStates, ResultStates, Sound, isHandshake, RpcIInv, RpcTypeOK
<1>2. /\ rpReq' = Append(rpReq, r)
      /\ rpInflight' = [rpInflight EXCEPT ![f.id] = n]
      /\ rpLoop' = [rpLoop EXCEPT !.at = IF isSynchronous(f.method) THEN "inline" ELSE "read",
                                  !.frame = NoFrame, !.target = IF isSynchronous(f.method) THEN n ELSE 0]
      /\ UNCHANGED <<rpSlots, rpVersion, rpShaken, rpLate, rpTrip, rpBroken, rpClosed>>
    BY <1>b DEF Start, handler, around
<1> HIDE DEF r
<1>3. /\ rpReq' \in Seq(RequestStates) /\ Len(rpReq') = n /\ rpReq'[n] = r
      /\ \A k \in Requests : rpReq'[k] = rpReq[k]
      /\ Requests' = Requests \cup {n} /\ n \notin Requests /\ n # 0
    BY <1>a, <1>b, <1>1, <1>2 DEF Requests
<1>4. /\ rpLoop' \in LoopStates /\ rpLoop'.at = (IF isSynchronous(f.method) THEN "inline" ELSE "read")
      /\ rpLoop'.target = (IF isSynchronous(f.method) THEN n ELSE 0) /\ rpLoop'.ended = rpLoop.ended
  <2>1. NoFrame \in Frames BY DEF NoFrame, Frames
  <2>2. CASE isSynchronous(f.method) BY <1>a, <1>2, <2>1, <2>2 DEF LoopStates
  <2>3. CASE ~isSynchronous(f.method) BY <1>a, <1>2, <2>1, <2>3 DEF LoopStates
  <2>4. QED BY <2>2, <2>3
<1>5. RpcTypeOK' BY <1>a, <1>2, <1>3, <1>4 DEF RpcIInv, RpcTypeOK
<1>6. LoopSound'
  <2>1. rpLoop'.at # "start" /\ rpLoop'.at # "cancel" /\ rpLoop'.at # "returned" BY <1>4
  <2>2. rpLoop'.at = "inline" => rpLoop'.target = n BY <1>4
  <2>3. ~rpClosed /\ ~rpLate BY <1>a DEF RpcIInv, LoopSound, LoopAt, Returned
  <2>4. QED BY <1>2, <1>3, <2>1, <2>2, <2>3 DEF LoopSound, LoopAt, Returned
<1>7. ASSUME NEW k \in Requests PROVE Sound(rpReq'[k]) /\ Placed(k)'
  <2>1. rpReq'[k] = rpReq[k] /\ Sound(rpReq[k]) /\ Placed(k) BY <1>3 DEF RpcIInv
  <2>2. isHandshake(rpReq[k]) => rpReq[k].at = "done" BY <1>a, HandshakesDone DEF LoopAt, RequestAt
  <2>3. rpLoop.at = "start" BY <1>a DEF LoopAt
  <2>4. QED BY <1>2, <1>4, <2>1, <2>2, <2>3 DEF Placed
<1>8. Sound(rpReq'[n]) /\ Placed(n)'
  <2>1. isHandshake(r) => rpLoop'.at = "inline" /\ rpLoop'.target = n
    BY <1>1, <1>4 DEF isHandshake, isSynchronous
  <2>2. QED BY <1>1, <1>2, <1>3, <1>4, <2>1 DEF Placed, LoopAt
<1>9. Shaken'
  <2> SUFFICES ASSUME NEW j \in Requests', NEW k \in Requests', j < k, isHandshake(rpReq'[j]),
                      rpReq'[j].result = "ok"
               PROVE  rpReq'[k].result # "handshake_required"
    BY DEF Shaken
  <2>1. CASE k = n BY <1>1, <1>3, <2>1
  <2>2. CASE k # n
    <3>1. k \in Requests /\ j \in Requests BY <1>3, <1>a, <1>b, <2>2 DEF Requests
    <3>2. QED BY <1>3, <3>1 DEF RpcIInv, Shaken
  <2>3. QED BY <2>1, <2>2
<1>10. RegistryExact'
  <2>1. ASSUME NEW i \in RequestIds PROVE Held(i)' = {rpInflight'[i]} \ {0}
    <3>1. Held(i) = {rpInflight[i]} \ {0} BY RegistryParts DEF RpcIInv
    <3>2. Held(i)' = IF i = f.id THEN Held(i) \cup {n} ELSE Held(i)
      BY <1>1, <1>3 DEF Held, RequestRuns, RequestAt
    <3>3. CASE i = f.id
      <4>1. rpInflight'[i] = n BY <1>a, <1>2, <3>3 DEF RpcIInv, RpcTypeOK
      <4>2. QED BY <1>a, <1>3, <3>1, <3>2, <3>3, <4>1
    <3>4. CASE i # f.id
      <4>1. rpInflight'[i] = rpInflight[i] BY <1>2, <3>4 DEF RpcIInv, RpcTypeOK
      <4>2. QED BY <3>1, <3>2, <3>4, <4>1
    <3>5. QED BY <3>3, <3>4
  <2>2. Undone' = Undone \cup {n} BY <1>1, <1>3 DEF Undone, RequestAt
  <2>3. n \notin Undone BY <1>3 DEF Undone
  <2>4. Cardinality(Undone') = Cardinality(Undone) + 1 /\ Cardinality(Undone) \in Nat
    BY <2>2, <2>3, UndoneFinite, FS_AddElement DEF RpcIInv
  <2>5. StartingRequest = 1 /\ StartingRequest' = 0 BY <1>a, <1>4 DEF StartingRequest, LoopAt
  <2>6. rpSlots' = Cardinality(Undone') + StartingRequest' BY <1>2, <2>4, <2>5, RegistryParts DEF RpcIInv
  <2>7. QED BY <2>1, <2>6, RegistryPartsAfter
<1>11. QED BY <1>3, <1>5, <1>6, <1>7, <1>8, <1>9, <1>10 DEF RpcIInv

\* A request n that is not done becomes s: the others are as they were, and what
\* s may not do is undo what the others rely on.
Change(n, s) ==
    /\ rpReq' = [rpReq EXCEPT ![n] = s] /\ s \in RequestStates /\ Sound(s)
    /\ rpReq[n].at # "done" /\ s.id = rpReq[n].id /\ s.method = rpReq[n].method
    /\ s.version = rpReq[n].version /\ s.asked = rpReq[n].asked
    /\ rpLoop' = rpLoop /\ UNCHANGED <<rpTrip, rpBroken, rpClosed>>
    /\ rpLate' \in {rpLate, rpLate \/ (Returned /\ ~rpLoop.err)}
    /\ (s.ctx = "cancelled" /\ s.at # "done") \/ s.result = "cancelled" =>
          (rpReq[n].ctx = "cancelled" \/ rpReq[n].result = "cancelled")

\* What holds of the requests' sequence after such a change.
LEMMA ChangeEffect ==
    ASSUME RpcIInv, NEW n \in Requests, NEW s, Change(n, s)
    PROVE  /\ rpReq' \in Seq(RequestStates) /\ Len(rpReq') = Len(rpReq) /\ Requests' = Requests
           /\ rpReq'[n] = s /\ \A k \in Requests : k # n => rpReq'[k] = rpReq[k]
           /\ LoopSound'
<1>1. /\ rpReq' \in Seq(RequestStates) /\ Len(rpReq') = Len(rpReq)
      /\ rpReq'[n] = s /\ \A k \in Requests : k # n => rpReq'[k] = rpReq[k]
    BY Replace DEF Change, RpcIInv, RpcTypeOK, Requests
<1>2. Requests' = Requests BY <1>1 DEF Requests
<1>3. ~(Returned /\ ~rpLoop.err)
    BY DEF Change, RpcIInv, LoopSound, Drained
<1>4. ~rpLate' BY <1>3 DEF Change, RpcIInv, LoopSound
<1>5. LoopSound'
    BY <1>1, <1>2, <1>3, <1>4 DEF Change, RpcIInv, LoopSound, LoopAt, Returned
<1>6. QED BY <1>1, <1>2, <1>5

\* Handshakes and versions after a change that stores none.
LEMMA ChangePlaced ==
    ASSUME RpcIInv, NEW n \in Requests, NEW s, Change(n, s), UNCHANGED <<rpVersion, rpShaken>>,
           s.at = "pin" => rpVersion \in {0, Asked(s.method)},
           isHandshake(s) /\ s.result = "ok" => rpReq[n].result = "ok",
           s.result = "handshake_required" => rpReq[n].result = "handshake_required" \/ ~rpShaken
    PROVE  /\ \A k \in Requests : Sound(rpReq'[k]) /\ Placed(k)'
           /\ Shaken'
<1>0. /\ Requests' = Requests /\ rpReq'[n] = s /\ \A k \in Requests : k # n => rpReq'[k] = rpReq[k]
    BY ChangeEffect
<1>1. ASSUME NEW k \in Requests, k # n PROVE Sound(rpReq'[k]) /\ Placed(k)'
    BY <1>0, <1>1 DEF RpcIInv, Placed, Change, LoopAt
<1>2. Sound(rpReq'[n]) /\ Placed(n)'
  <2>1. Placed(n) /\ Sound(s) BY DEF RpcIInv, Change
  <2>2. isHandshake(s) <=> isHandshake(rpReq[n]) BY DEF Change, isHandshake
  <2>3. QED BY <1>0, <2>1, <2>2 DEF Placed, Change, LoopAt
<1>3. Shaken'
  <2> SUFFICES ASSUME NEW j \in Requests, NEW k \in Requests, j < k, isHandshake(rpReq'[j]),
                      rpReq'[j].result = "ok", rpReq'[k].result = "handshake_required"
               PROVE  FALSE
    BY <1>0 DEF Shaken
  <2>1. isHandshake(rpReq[j]) /\ rpReq[j].result = "ok"
    BY <1>0 DEF Change, isHandshake
  <2>2. rpShaken BY <2>1 DEF RpcIInv, Placed
  <2>3. rpReq[k].result = "handshake_required" BY <1>0, <2>2
  <2>4. QED BY <2>1, <2>3 DEF RpcIInv, Shaken
<1>4. QED BY <1>1, <1>2, <1>3

\* A request in flight: its id names it.
InFlight(r) == r.at \in {"handle", "pin", "collect", "collected", "last", "returned"}

\* What an id holds is what is in flight under it.
LEMMA HeldInFlight ==
    ASSUME NEW i PROVE Held(i) = {n \in Requests : rpReq[n].id = i /\ InFlight(rpReq[n])}
BY DEF Held, InFlight, RequestRuns, RequestAt

\* The same of the next state.
LEMMA HeldInFlightAfter ==
    ASSUME NEW i PROVE Held(i)' = {n \in Requests' : rpReq'[n].id = i /\ InFlight(rpReq'[n])}
BY DEF Held, InFlight, RequestRuns, RequestAt

\* A change that takes a request neither out of the registry nor to its end.
LEMMA ChangeKeeps ==
    ASSUME RpcIInv, NEW n \in Requests, NEW s, Change(n, s),
           \A k \in Requests : Sound(rpReq'[k]) /\ Placed(k)', Shaken',
           rpVersion' \in {0, 1, 2}, rpShaken' \in BOOLEAN,
           UNCHANGED <<rpInflight, rpSlots>>, s.at # "done", InFlight(s) <=> InFlight(rpReq[n])
    PROVE  RpcIInv'
<1>0. /\ Requests' = Requests /\ rpReq'[n] = s /\ \A k \in Requests : k # n => rpReq'[k] = rpReq[k]
      /\ rpReq' \in Seq(RequestStates) /\ LoopSound'
    BY ChangeEffect
<1>1. RpcTypeOK'
  <2>1. rpLate' \in BOOLEAN BY DEF Change, RpcIInv, RpcTypeOK
  <2>2. QED BY <1>0, <2>1 DEF Change, RpcIInv, RpcTypeOK
<1>2. ASSUME NEW i \in RequestIds PROVE Held(i)' = Held(i)
  <2>1. ASSUME NEW k \in Requests
        PROVE  /\ rpReq'[k].id = rpReq[k].id
               /\ InFlight(rpReq'[k]) <=> InFlight(rpReq[k])
    <3>1. CASE k = n BY <1>0, <3>1 DEF Change
    <3>2. CASE k # n BY <1>0, <3>2
    <3>3. QED BY <3>1, <3>2
  <2>2. Held(i)' = {k \in Requests : rpReq'[k].id = i /\ InFlight(rpReq'[k])} BY <1>0, HeldInFlightAfter
  <2>3. QED BY <2>1, <2>2, HeldInFlight
<1>3. Undone' = Undone BY <1>0 DEF Undone, RequestAt, Change
<1>4. StartingRequest' = StartingRequest BY DEF StartingRequest, LoopAt, Change
<1>5. RegistryExact' BY <1>2, <1>3, <1>4, RegistryParts, RegistryPartsAfter DEF RpcIInv
<1>6. QED BY <1>0, <1>1, <1>5 DEF RpcIInv

\* What never changes while a handler runs.
Calm == UNCHANGED <<rpLoop, rpInflight, rpSlots, rpTrip, rpBroken, rpClosed>>
Quiet == rpLate' \in {rpLate, rpLate \/ (Returned /\ ~rpLoop.err)}

\* The handler moves on.
LEMMA MovesKeeps ==
    ASSUME RpcIInv, NEW n \in Requests, rpReq[n].at \in {"handle", "collect", "collected"},
           NEW w \in {"pin", "collect", "collected", "last"}, Moves(n, w), Calm, Quiet,
           UNCHANGED <<rpVersion, rpShaken>>,
           w = "pin" => isHandshake(rpReq[n]) /\ rpVersion \in {0, Asked(rpReq[n].method)},
           w # "pin" => ~isHandshake(rpReq[n])
    PROVE  RpcIInv'
<1> DEFINE r == rpReq[n]
           s == [r EXCEPT !.at = w]
<1>1. r \in RequestStates /\ Sound(r) BY RequestType DEF RpcIInv
<1>2. /\ s \in RequestStates /\ s.at = w /\ s.id = r.id /\ s.method = r.method /\ s.version = r.version
      /\ s.asked = r.asked /\ s.ctx = r.ctx /\ s.cut = r.cut /\ s.result = r.result
      /\ s.answers = r.answers /\ s.sent = r.sent
    BY <1>1 DEF RequestStates
<1>3. rpReq' = [rpReq EXCEPT ![n] = s] BY DEF Moves
<1> HIDE DEF s
<1>4. Sound(s) BY <1>1, <1>2 DEF Sound, isHandshake
<1>5. Change(n, s) BY <1>2, <1>3, <1>4 DEF Change, Calm, Quiet
<1>6. /\ \A k \in Requests : Sound(rpReq'[k]) /\ Placed(k)'
      /\ Shaken'
    BY <1>2, <1>5, ChangePlaced
<1>7. QED BY <1>2, <1>5, <1>6, ChangeKeeps DEF InFlight, Calm, RpcIInv, RpcTypeOK

\* What a handler returns.
Results == {"ok", "incompatible", "handshake_required", "safety_trip", "not_found", "invalid", "internal", "failed"}

\* What the return of a handler is.
LEMMA ReturnsChange ==
    ASSUME RpcIInv, NEW n \in Requests, rpReq[n].at \in {"handle", "pin", "collect", "collected", "last"},
           NEW res \in Results, Returns(n, res), Calm, Quiet
    PROVE  \E s : /\ Change(n, s) /\ s.at = "returned" /\ s.result = res /\ InFlight(s) /\ InFlight(rpReq[n])
<1> DEFINE r == rpReq[n]
           s == [r EXCEPT !.at = "returned", !.active = FALSE, !.result = res]
<1>1. r \in RequestStates /\ Sound(r) BY RequestType DEF RpcIInv
<1>2. /\ s \in RequestStates /\ s.at = "returned" /\ s.id = r.id /\ s.method = r.method
      /\ s.version = r.version /\ s.asked = r.asked /\ s.ctx = r.ctx /\ s.cut = r.cut /\ s.result = res
      /\ s.answers = r.answers /\ s.sent = r.sent
    BY <1>1 DEF RequestStates, ResultStates, Results
<1>3. rpReq' = [rpReq EXCEPT ![n] = s] BY DEF Returns
<1> HIDE DEF s
<1>4. Sound(s) BY <1>1, <1>2 DEF Sound
<1>5. res # "cancelled" BY DEF Results
<1>6. Change(n, s) BY <1>2, <1>3, <1>4, <1>5 DEF Change, Calm, Quiet
<1>7. QED BY <1>2, <1>6 DEF InFlight

\* The handler returns.
LEMMA ReturnsKeeps ==
    ASSUME RpcIInv, NEW n \in Requests, rpReq[n].at \in {"handle", "pin", "collect", "collected", "last"},
           NEW res \in Results, Returns(n, res), Calm, Quiet, UNCHANGED <<rpVersion, rpShaken>>,
           res = "ok" => ~isHandshake(rpReq[n]), res = "handshake_required" => ~rpShaken
    PROVE  RpcIInv'
<1>1. PICK s : /\ Change(n, s) /\ s.at = "returned" /\ s.result = res /\ InFlight(s) /\ InFlight(rpReq[n])
    BY ReturnsChange
<1>2. isHandshake(s) <=> isHandshake(rpReq[n]) BY <1>1 DEF Change, isHandshake
<1>3. /\ \A k \in Requests : Sound(rpReq'[k]) /\ Placed(k)'
      /\ Shaken'
    BY <1>1, <1>2, ChangePlaced
<1>4. QED BY <1>1, <1>3, ChangeKeeps DEF Calm, RpcIInv, RpcTypeOK

\* The handshake stores its version: no other is in force, and no request is behind it.
LEMMA PinKeeps ==
    ASSUME RpcIInv, NEW n \in Requests, Pin(n) PROVE RpcIInv'
<1> DEFINE v == Asked(rpReq[n].method)
<1>1. /\ rpReq[n].at = "pin" /\ Returns(n, "ok") /\ rpVersion' = v /\ rpShaken' = TRUE
      /\ Calm /\ Quiet
    BY DEF Pin, RequestAt, Asked, Calm, Quiet, handlerSame, around
<1>2. PICK s : /\ Change(n, s) /\ s.at = "returned" /\ s.result = "ok" /\ InFlight(s) /\ InFlight(rpReq[n])
    BY <1>1, ReturnsChange DEF Results
<1>3. /\ isHandshake(rpReq[n]) /\ isHandshake(s) /\ s.method = rpReq[n].method
      /\ rpVersion \in {0, v} /\ rpLoop.at = "inline" /\ rpLoop.target = n
      /\ n = Len(rpReq) /\ v \in {1, 2}
    BY <1>1, <1>2 DEF RpcIInv, Sound, Placed, Change, isHandshake, LoopAt, LoopSound, Asked
<1>4. /\ Requests' = Requests /\ rpReq'[n] = s /\ \A k \in Requests : k # n => rpReq'[k] = rpReq[k]
    BY <1>2, ChangeEffect
<1>5. ASSUME NEW k \in Requests, k # n PROVE Sound(rpReq'[k]) /\ Placed(k)'
  <2>1. rpReq'[k] = rpReq[k] /\ Sound(rpReq[k]) /\ Placed(k) BY <1>4, <1>5 DEF RpcIInv
  <2>2. isHandshake(rpReq[k]) => rpReq[k].at = "done" BY <1>3, <1>5, <2>1 DEF Placed
  <2>3. rpReq[k].at # "pin" BY <2>1, <2>2 DEF Sound
  <2>4. Asked(rpReq[k].method) \in {1, 2} BY DEF Asked
  <2>5. isHandshake(rpReq[k]) /\ rpReq[k].result = "ok" => rpVersion' = Asked(rpReq[k].method)
    BY <1>1, <1>3, <2>1, <2>4 DEF Placed
  <2>6. rpReq[k].version # 0 => rpReq[k].version = rpVersion' BY <1>1, <1>3, <2>1 DEF Placed
  <2>7. rpLoop' = rpLoop BY <1>2 DEF Change
  <2>8. QED BY <1>1, <2>1, <2>2, <2>3, <2>5, <2>6, <2>7 DEF Placed, LoopAt
<1>6. Sound(rpReq'[n]) /\ Placed(n)'
  <2>1. rpLoop' = rpLoop /\ Sound(s) /\ s.version = rpReq[n].version /\ s.asked = rpReq[n].asked
        /\ (s.ctx = "cancelled" => rpReq[n].ctx = "cancelled" \/ rpReq[n].result = "cancelled")
    BY <1>2 DEF Change
  <2>2. Placed(n) BY DEF RpcIInv
  <2>3. s.version # 0 => s.version = rpVersion' BY <1>1, <1>3, <2>1, <2>2 DEF Placed
  <2>4. s.ctx = "cancelled" => s.asked \/ rpLoop'.ended \/ rpLoop'.at \in {"drain2", "returned"}
    BY <1>1, <2>1, <2>2 DEF Placed
  <2>5. QED BY <1>1, <1>2, <1>3, <1>4, <2>1, <2>3, <2>4 DEF Placed, LoopAt
<1>7. Shaken'
  <2> SUFFICES ASSUME NEW j \in Requests, NEW k \in Requests, j < k, isHandshake(rpReq'[j]),
                      rpReq'[j].result = "ok", rpReq'[k].result = "handshake_required"
               PROVE  FALSE
    BY <1>4 DEF Shaken
  <2>1. j # n BY <1>3 DEF Requests, RpcIInv, RpcTypeOK
  <2>2. k # n BY <1>2, <1>4
  <2>3. QED BY <1>4, <2>1, <2>2 DEF RpcIInv, Shaken
<1>8. rpVersion' \in {0, 1, 2} /\ rpShaken' \in BOOLEAN /\ UNCHANGED <<rpInflight, rpSlots>>
    BY <1>1, <1>3 DEF Calm
<1>9. QED BY <1>2, <1>5, <1>6, <1>7, <1>8, ChangeKeeps

\* Report: on, or back with an error; the notification is not late.
LEMMA ReportKeeps ==
    ASSUME RpcIInv, NEW n \in Requests, rpReq[n].at \in {"handle", "collect", "collected"},
           NEW w \in {"collect", "last"}, Report(n, w), Calm, UNCHANGED <<rpVersion, rpShaken>>,
           ~isHandshake(rpReq[n])
    PROVE  RpcIInv'
<1>1. Quiet BY DEF Report, Quiet
<1>2. "internal" \in Results BY DEF Results
<1>3. QED BY <1>1, <1>2, MovesKeeps, ReturnsKeeps DEF Report

\* The handlers.
LEMMA HandlersKeep ==
    ASSUME RpcIInv, NEW n \in Requests,
           Handshake(n) \/ Handle(n) \/ Collect(n) \/ Finish(n) \/ Last(n)
    PROVE  RpcIInv'
<1>c. Calm /\ UNCHANGED <<rpVersion, rpShaken>>
    BY DEF Handshake, Handle, Collect, Finish, Last, Calm, handlerSame, around, handler
<1>m. ASSUME NEW res \in Results, res # "ok", res # "handshake_required", Returns(n, res), rpLate' = rpLate,
             rpReq[n].at \in {"handle", "pin", "collect", "collected", "last"}
      PROVE  RpcIInv'
    BY <1>c, <1>m, ReturnsKeeps DEF Quiet
<1>r. /\ "incompatible" \in Results /\ "handshake_required" \in Results /\ "safety_trip" \in Results
      /\ "not_found" \in Results /\ "invalid" \in Results /\ "failed" \in Results /\ "ok" \in Results
    BY DEF Results
<1>1. CASE Handshake(n)
  <2>1. /\ rpReq[n].at = "handle" /\ isHandshake(rpReq[n]) /\ rpLate' = rpLate
        /\ IF rpVersion \notin {0, Asked(rpReq[n].method)} THEN Returns(n, "incompatible") ELSE Moves(n, "pin")
    BY <1>1 DEF Handshake, RequestAt, isHandshake, Asked
  <2>2. QED BY <1>c, <1>m, <1>r, <2>1, MovesKeeps DEF Quiet
<1>2. CASE Handle(n)
  <2>1. rpReq[n].at = "handle" /\ ~isHandshake(rpReq[n]) BY <1>2 DEF Handle, RequestAt, isHandshake
  <2>2. CASE ~rpShaken /\ Returns(n, "handshake_required") /\ rpLate' = rpLate
    BY <1>c, <1>r, <2>1, <2>2, ReturnsKeeps DEF Quiet
  <2>3. CASE Returns(n, "safety_trip") /\ rpLate' = rpLate BY <1>m, <1>r, <2>1, <2>3
  <2>4. CASE Moves(n, "collect") /\ rpLate' = rpLate BY <1>c, <2>1, <2>4, MovesKeeps DEF Quiet
  <2>5. CASE Returns(n, "not_found") /\ rpLate' = rpLate BY <1>m, <1>r, <2>1, <2>5
  <2>6. CASE BeginRequest(n)
    <3>1. CASE Returns(n, "invalid") /\ rpLate' = rpLate BY <1>m, <1>r, <2>1, <3>1
    <3>2. CASE Report(n, "collect") BY <1>c, <2>1, <3>2, ReportKeeps
    <3>3. QED BY <2>6, <3>1, <3>2 DEF BeginRequest
  <2>7. QED BY <1>2, <2>2, <2>3, <2>4, <2>5, <2>6 DEF Handle
<1>h. rpReq[n].at \in {"collect", "collected", "last"} => ~isHandshake(rpReq[n]) BY DEF RpcIInv, Sound
<1>3. CASE Collect(n)
    BY <1>c, <1>h, <1>3, MovesKeeps DEF Collect, RequestAt, Quiet
<1>4. CASE Finish(n)
  <2>1. rpReq[n].at = "collected" /\ ~isHandshake(rpReq[n]) BY <1>4, <1>h DEF Finish, RequestAt
  <2>2. CASE Returns(n, "ok") /\ rpLate' = rpLate BY <1>c, <1>r, <2>1, <2>2, ReturnsKeeps DEF Quiet
  <2>3. CASE Returns(n, "failed") /\ rpLate' = rpLate BY <1>m, <1>r, <2>1, <2>3
  <2>4. CASE Returns(n, "safety_trip") /\ rpLate' = rpLate BY <1>m, <1>r, <2>1, <2>4
  <2>5. CASE Report(n, "last") BY <1>c, <2>1, <2>5, ReportKeeps
  <2>6. QED BY <1>4, <2>2, <2>3, <2>4, <2>5 DEF Finish, Connected
<1>5. CASE Last(n)
  <2>1. rpReq[n].at = "last" /\ ~isHandshake(rpReq[n]) /\ rpLate' = rpLate BY <1>5, <1>h DEF Last, RequestAt
  <2>2. CASE Returns(n, "ok") BY <1>c, <1>r, <2>1, <2>2, ReturnsKeeps DEF Quiet
  <2>3. CASE Returns(n, "failed") BY <1>m, <1>r, <2>1, <2>3
  <2>4. QED BY <1>5, <2>2, <2>3 DEF Last
<1>6. QED BY <1>1, <1>2, <1>3, <1>4, <1>5

\* The registry forgets a request: the entry under its id was its own.
LEMMA RetireKeeps ==
    ASSUME RpcIInv, NEW n \in Requests, Retire(n) PROVE RpcIInv'
<1> DEFINE r == rpReq[n]
           s == [r EXCEPT !.at = "retired"]
<1>1. r \in RequestStates /\ Sound(r) /\ r.at = "returned" BY RequestType DEF RpcIInv, Retire, RequestAt
<1>2. /\ s \in RequestStates /\ s.at = "retired" /\ s.id = r.id /\ s.method = r.method
      /\ s.version = r.version /\ s.asked = r.asked /\ s.ctx = r.ctx /\ s.cut = r.cut
      /\ s.result = r.result /\ s.answers = r.answers /\ s.sent = r.sent
    BY <1>1 DEF RequestStates
<1>3. /\ rpReq' = [rpReq EXCEPT ![n] = s]
      /\ UNCHANGED <<rpLoop, rpSlots, rpVersion, rpShaken, rpLate, rpTrip, rpBroken, rpClosed>>
    BY DEF Retire, Moves, handler, around
<1> HIDE DEF s
<1>4. Sound(s) BY <1>1, <1>2 DEF Sound
<1>5. Change(n, s) BY <1>1, <1>2, <1>3, <1>4 DEF Change
<1>6. /\ \A k \in Requests : Sound(rpReq'[k]) /\ Placed(k)'
      /\ Shaken'
    BY <1>2, <1>3, <1>5, ChangePlaced
<1>7. /\ Requests' = Requests /\ rpReq'[n] = s /\ \A k \in Requests : k # n => rpReq'[k] = rpReq[k]
      /\ rpReq' \in Seq(RequestStates) /\ LoopSound'
    BY <1>5, ChangeEffect
<1>8. /\ rpInflight' \in [RequestIds -> Nat]
      /\ \A i \in RequestIds : rpInflight'[i] = IF rpInflight[i] = n THEN 0 ELSE rpInflight[i]
    BY DEF Retire, RpcIInv, RpcTypeOK
<1>9. RpcTypeOK' BY <1>3, <1>7, <1>8 DEF RpcIInv, RpcTypeOK
<1>10. ASSUME NEW i \in RequestIds PROVE Held(i)' = {rpInflight'[i]} \ {0}
  <2>1. Held(i) = {rpInflight[i]} \ {0} BY RegistryParts DEF RpcIInv
  <2>2. Held(i)' = Held(i) \ {n}
    <3>1. Held(i)' = {k \in Requests : rpReq'[k].id = i /\ InFlight(rpReq'[k])} BY <1>7, HeldInFlightAfter
    <3>2. ~InFlight(rpReq'[n]) BY <1>2, <1>7 DEF InFlight
    <3>3. QED BY <1>7, <3>1, <3>2, HeldInFlight
  <2>3. n # 0 BY DEF Requests
  <2>4. QED BY <1>8, <2>1, <2>2, <2>3
<1>11. Undone' = Undone BY <1>1, <1>2, <1>7 DEF Undone, RequestAt
<1>12. StartingRequest' = StartingRequest BY <1>3 DEF StartingRequest, LoopAt
<1>13. RegistryExact' BY <1>3, <1>10, <1>11, <1>12, RegistryParts, RegistryPartsAfter DEF RpcIInv
<1>14. QED BY <1>6, <1>7, <1>9, <1>13 DEF RpcIInv


\* ctx.Err() decides over the result.
LEMMA DecideKeeps ==
    ASSUME RpcIInv, NEW n \in Requests, Decide(n) PROVE RpcIInv'
<1> DEFINE r == rpReq[n]
           res == IF r.ctx = "live" THEN r.result ELSE r.ctx
           s == [r EXCEPT !.at = "write", !.result = res]
<1>1. r \in RequestStates /\ Sound(r) /\ r.at = "retired" BY RequestType DEF RpcIInv, Decide, RequestAt
<1>2. /\ s \in RequestStates /\ s.at = "write" /\ s.id = r.id /\ s.method = r.method
      /\ s.version = r.version /\ s.asked = r.asked /\ s.ctx = r.ctx /\ s.cut = r.cut
      /\ s.result = res /\ s.answers = r.answers /\ s.sent = r.sent
    BY <1>1 DEF RequestStates, ResultStates
<1>3. /\ rpReq' = [rpReq EXCEPT ![n] = s]
      /\ UNCHANGED <<rpLoop, rpInflight, rpSlots, rpVersion, rpShaken, rpLate, rpTrip, rpBroken, rpClosed>>
    BY DEF Decide, handler, handlerSame, around
<1> HIDE DEF s
<1>4. Sound(s) BY <1>1, <1>2 DEF Sound
<1>5. Change(n, s) BY <1>1, <1>2, <1>3, <1>4 DEF Change
<1>6. r.ctx \in {"live", "cancelled", "deadline"} BY <1>1 DEF RequestStates
<1>7. /\ \A k \in Requests : Sound(rpReq'[k]) /\ Placed(k)'
      /\ Shaken'
    BY <1>2, <1>3, <1>5, <1>6, ChangePlaced
<1>8. QED BY <1>1, <1>2, <1>3, <1>5, <1>7, ChangeKeeps DEF InFlight, RpcIInv, RpcTypeOK

\* The answer, written or lost; Run has not returned nil.
LEMMA AnswerKeeps ==
    ASSUME RpcIInv, NEW n \in Requests, Answer(n) PROVE RpcIInv'
<1> DEFINE r == rpReq[n]
<1>1. r \in RequestStates /\ Sound(r) /\ r.at = "write" BY RequestType DEF RpcIInv, Answer, RequestAt
<1>2. PICK big :
        rpReq' = [rpReq EXCEPT ![n].at = "answered", ![n].answers = @ + 1,
                               ![n].sent = IF rpBroken \/ big THEN "lost" ELSE rpReq[n].result]
    BY DEF Answer
<1> DEFINE out == IF rpBroken \/ big THEN "lost" ELSE r.result
           s == [r EXCEPT !.at = "answered", !.answers = r.answers + 1, !.sent = out]
<1>3. out \in {"lost", r.result} OBVIOUS
<1>4. /\ rpReq' = [rpReq EXCEPT ![n] = s]
      /\ UNCHANGED <<rpLoop, rpInflight, rpSlots, rpVersion, rpShaken, rpTrip, rpBroken, rpClosed>>
      /\ Quiet
    BY <1>2 DEF Answer, handler, handlerSame, around, Quiet
<1> HIDE DEF out
<1>5. /\ s \in RequestStates /\ s.at = "answered" /\ s.id = r.id /\ s.method = r.method
      /\ s.version = r.version /\ s.asked = r.asked /\ s.ctx = r.ctx /\ s.cut = r.cut
      /\ s.result = r.result /\ s.answers = r.answers + 1 /\ s.sent = out
  <2>1. out \in {"lost"} \cup ResultStates BY <1>1, <1>3 DEF RequestStates
  <2>2. r.answers + 1 \in Nat BY <1>1 DEF RequestStates
  <2>3. QED BY <1>1, <2>1, <2>2 DEF RequestStates
<1> HIDE DEF s
<1>6. Sound(s) BY <1>1, <1>3, <1>5 DEF Sound
<1>7. Change(n, s) BY <1>1, <1>4, <1>5, <1>6 DEF Change, Quiet
<1>8. /\ \A k \in Requests : Sound(rpReq'[k]) /\ Placed(k)'
      /\ Shaken'
    BY <1>4, <1>5, <1>7, ChangePlaced
<1>9. QED BY <1>1, <1>4, <1>5, <1>7, <1>8, ChangeKeeps DEF InFlight, RpcIInv, RpcTypeOK

\* The deferred calls give the slot back.
LEMMA ReleaseKeeps ==
    ASSUME RpcIInv, NEW n \in Requests, Release(n) PROVE RpcIInv'
<1> DEFINE r == rpReq[n]
           c == Cancelled(r)
           s == [c EXCEPT !.at = "done"]
<1>1. r \in RequestStates /\ Sound(r) /\ r.at = "answered" BY RequestType DEF RpcIInv, Release, RequestAt
<1>2. /\ c \in RequestStates /\ Sound(c) /\ c.id = r.id /\ c.method = r.method /\ c.at = r.at
      /\ c.version = r.version /\ c.result = r.result /\ c.asked = r.asked /\ c.ctx # "live"
    BY <1>1, EndsFields, EndsSound DEF Cancelled
<1>3. /\ rpReq' = [rpReq EXCEPT ![n] = s] /\ rpSlots' = rpSlots - 1
      /\ UNCHANGED <<rpLoop, rpInflight, rpVersion, rpShaken, rpLate, rpTrip, rpBroken, rpClosed>>
    BY DEF Release, handler, around
<1> HIDE DEF c
<1>4. /\ s \in RequestStates /\ s.at = "done" /\ s.id = c.id /\ s.method = c.method
      /\ s.version = c.version /\ s.asked = c.asked /\ s.ctx = c.ctx /\ s.cut = c.cut
      /\ s.result = c.result /\ s.answers = c.answers /\ s.sent = c.sent
    BY <1>2 DEF RequestStates
<1> HIDE DEF s
<1>5. Sound(s) BY <1>1, <1>2, <1>4 DEF Sound
<1>6. Change(n, s) BY <1>1, <1>2, <1>3, <1>4, <1>5 DEF Change
<1>7. /\ \A k \in Requests : Sound(rpReq'[k]) /\ Placed(k)'
      /\ Shaken'
    BY <1>2, <1>3, <1>4, <1>6, ChangePlaced
<1>8. /\ Requests' = Requests /\ rpReq'[n] = s /\ \A k \in Requests : k # n => rpReq'[k] = rpReq[k]
      /\ rpReq' \in Seq(RequestStates) /\ LoopSound'
    BY <1>6, ChangeEffect
<1>9. RpcTypeOK' BY <1>3, <1>8 DEF RpcIInv, RpcTypeOK
<1>10. ASSUME NEW i \in RequestIds PROVE Held(i)' = Held(i)
  <2>1. Held(i)' = {k \in Requests : rpReq'[k].id = i /\ InFlight(rpReq'[k])} BY <1>8, HeldInFlightAfter
  <2>2. ~InFlight(rpReq'[n]) /\ ~InFlight(rpReq[n]) BY <1>1, <1>4, <1>8 DEF InFlight
  <2>3. QED BY <1>8, <2>1, <2>2, HeldInFlight
<1>11. Undone' = Undone \ {n} /\ n \in Undone BY <1>1, <1>4, <1>8 DEF Undone, RequestAt
<1>12. Cardinality(Undone') = Cardinality(Undone) - 1 /\ Cardinality(Undone) \in Nat
    BY <1>11, UndoneFinite, FS_RemoveElement DEF RpcIInv
<1>13. StartingRequest' = StartingRequest /\ StartingRequest \in Nat BY <1>3 DEF StartingRequest, LoopAt
<1>14. rpSlots' = Cardinality(Undone') + StartingRequest' BY <1>3, <1>12, <1>13, RegistryParts DEF RpcIInv
<1>15. RegistryExact' BY <1>3, <1>10, <1>14, RegistryParts, RegistryPartsAfter DEF RpcIInv
<1>16. QED BY <1>7, <1>8, <1>9, <1>15 DEF RpcIInv

\* The deadline passes.
LEMMA ExpireKeeps ==
    ASSUME RpcIInv, NEW n \in Requests, Expire(n) PROVE RpcIInv'
<1> DEFINE r == rpReq[n]
           s == Ends(r, "deadline")
<1>1. r \in RequestStates /\ Sound(r) /\ r.at # "done" /\ r.ctx = "live" BY RequestType DEF RpcIInv, Expire
<1>2. /\ s \in RequestStates /\ Sound(s) /\ s.at = r.at /\ s.id = r.id /\ s.method = r.method
      /\ s.version = r.version /\ s.asked = r.asked /\ s.ctx = "deadline" /\ s.result = r.result
    BY <1>1, EndsFields, EndsSound
<1>3. /\ rpReq' = [rpReq EXCEPT ![n] = s]
      /\ UNCHANGED <<rpLoop, rpInflight, rpSlots, rpVersion, rpShaken, rpLate, rpTrip, rpBroken, rpClosed>>
    BY DEF Expire, handler, handlerSame, around
<1> HIDE DEF s
<1>4. Change(n, s) BY <1>1, <1>2, <1>3 DEF Change
<1>5. Placed(n) BY DEF RpcIInv
<1>6. /\ \A k \in Requests : Sound(rpReq'[k]) /\ Placed(k)'
      /\ Shaken'
    BY <1>2, <1>3, <1>4, <1>5, ChangePlaced DEF Placed
<1>7. QED BY <1>1, <1>2, <1>3, <1>4, <1>6, ChangeKeeps DEF InFlight, RpcIInv, RpcTypeOK

\* No request yet.
LEMMA InitKeeps == RpcInit => RpcIInv
<1> SUFFICES ASSUME RpcInit PROVE RpcIInv OBVIOUS
<1>1. Requests = {} BY DEF RpcInit, Requests
<1>2. RpcTypeOK
  <2>1. NoFrame \in Frames BY DEF NoFrame, Frames
  <2>2. rpLoop \in LoopStates BY <2>1 DEF RpcInit, LoopStates
  <2>3. rpReq \in Seq(RequestStates) /\ rpInflight \in [RequestIds -> Nat] BY DEF RpcInit
  <2>4. rpSlots \in Int /\ rpVersion \in {0, 1, 2} BY DEF RpcInit
  <2>5. /\ rpShaken \in BOOLEAN /\ rpTrip \in BOOLEAN /\ rpBroken \in BOOLEAN
        /\ rpClosed \in BOOLEAN /\ rpLate \in BOOLEAN
    BY DEF RpcInit
  <2>6. QED BY <2>2, <2>3, <2>4, <2>5 DEF RpcTypeOK
<1>3. rpLoop.at = "read" /\ ~rpClosed /\ ~rpLate BY DEF RpcInit
<1>4. LoopSound BY <1>3 DEF LoopSound, LoopAt, Returned
<1>5. RegistryExact
  <2>1. Undone = {} /\ StartingRequest = 0 /\ \A i \in RequestIds : Held(i) = {} /\ rpInflight[i] = 0
    BY <1>1, <1>3 DEF Undone, StartingRequest, LoopAt, Held, RpcInit
  <2>2. Cardinality(Undone) = 0 BY <2>1, FS_EmptySet
  <2>3. rpSlots = 0 BY DEF RpcInit
  <2>4. QED BY <2>1, <2>2, <2>3, RegistryParts
<1>6. QED BY <1>1, <1>2, <1>4, <1>5 DEF RpcIInv, Shaken

\* Every step keeps the invariant.
LEMMA StepKeeps == RpcIInv /\ [RpcNext]_rpVars => RpcIInv'
<1> SUFFICES ASSUME RpcIInv, [RpcNext]_rpVars PROVE RpcIInv' OBVIOUS
<1>1. CASE BadFrame \/ Malformed \/ RefuseBusy BY <1>1, FramesKeep
<1>2. CASE EndOfInput \/ ContextSeen \/ \E m \in Methods, i \in RequestIds : Admit(m, i) BY <1>2, ReadsKeep
<1>2a. CASE ContextEnds BY <1>2a, ContextKeeps
<1>3. CASE DoCancel BY <1>3, DoCancelKeeps
<1>4. CASE StartRefused \/ Start BY <1>4, StartRefusedKeeps, StartKeeps
<1>5. CASE InlineDone \/ DrainEnds \/ DrainExpires BY <1>5, InlineDoneKeeps, DrainsKeep
<1>6. CASE \E i \in RequestIds : LookUpCancel(i) BY <1>6, LookUpKeeps
<1>7. ASSUME NEW n \in Requests, RequestStep(n) PROVE RpcIInv'
    BY <1>7, HandlersKeep, PinKeeps, RetireKeeps, DecideKeeps, AnswerKeeps, ReleaseKeeps, ExpireKeeps
       DEF RequestStep, handshake, execute
<1>8. CASE CloseAuthority \/ Refill \/ Trip \/ BreakOutput
  <2>1. /\ UNCHANGED <<rpLoop, rpReq, rpInflight, rpSlots, rpVersion, rpShaken, rpLate>>
        /\ rpClosed' = rpClosed \/ (rpClosed' = TRUE /\ Returned)
        /\ rpTrip' = rpTrip \/ rpTrip' = TRUE
        /\ rpBroken' = rpBroken \/ rpBroken' = TRUE
    BY <1>8 DEF CloseAuthority, Refill, Trip, BreakOutput, handler
  <2>2. rpTrip' \in BOOLEAN /\ rpBroken' \in BOOLEAN /\ rpClosed' \in BOOLEAN BY <2>1 DEF RpcIInv, RpcTypeOK
  <2>3. rpClosed' => rpClosed \/ Returned BY <2>1
  <2>4. QED BY <2>1, <2>2, <2>3, AroundKeeps
<1>9. CASE UNCHANGED rpVars BY <1>9, AroundKeeps DEF rpVars, RpcIInv, RpcTypeOK
<1>10. QED BY <1>1, <1>2, <1>2a, <1>3, <1>4, <1>5, <1>6, <1>7, <1>8, <1>9 DEF RpcNext, Run

\* The server's records are exact, Run that returns nil leaves nothing behind, one
\* version is pinned, and no cancelled request is answered as if it had not been,
\* whatever the client sends and however handlers, cancels and shutdown interleave.
THEOREM ServerIsHonest == RpcSpec => []ServerAnswers
<1>1. RpcIInv => ServerAnswers
  <2> SUFFICES ASSUME RpcIInv PROVE ServerAnswers OBVIOUS
  <2>1. NilMeansQuiet
    <3>1. ASSUME NEW n \in Requests, RequestAt(n, "done") PROVE rpReq[n].answers = 1 /\ ~RequestRuns(n)
      BY <3>1 DEF RpcIInv, Sound, RequestAt, RequestRuns
    <3>2. QED BY <3>1 DEF RpcIInv, LoopSound, Drained, RequestAt, NilMeansQuiet
  <2>2. VersionPinned
    <3>1. ASSUME NEW n \in Requests, isHandshake(rpReq[n]), rpReq[n].sent = "ok"
          PROVE  rpVersion = Asked(rpReq[n].method)
      <4>1. rpReq[n].result = "ok" BY <3>1 DEF RpcIInv, Sound
      <4>2. QED BY <3>1, <4>1 DEF RpcIInv, Placed
    <3>2. \A n \in Requests : rpReq[n].version # 0 => rpReq[n].version = rpVersion BY DEF RpcIInv, Placed
    <3>3. Shaken BY DEF RpcIInv
    <3>4. QED BY <3>1, <3>2, <3>3 DEF VersionPinned, Shaken, isHandshake
  <2>3. CancelHonest
    <3> SUFFICES ASSUME NEW n \in Requests
                 PROVE  /\ rpReq[n].sent = "cancelled" =>
                              rpReq[n].asked \/ rpLoop.ended \/ rpLoop.at \in {"drain2", "returned"}
                        /\ rpReq[n].cut \notin {"none", "write", "answered"} =>
                              rpReq[n].sent \in {"none", "lost", rpReq[n].ctx}
      BY DEF CancelHonest
    <3>1. Sound(rpReq[n]) /\ Placed(n) /\ rpReq[n] \in RequestStates BY RequestType DEF RpcIInv
    <3>2. rpReq[n].sent = "cancelled" => rpReq[n].asked \/ rpLoop.ended \/ rpLoop.at \in {"drain2", "returned"}
      BY <3>1 DEF Sound, Placed
    <3>3. rpReq[n].cut \notin {"none", "write", "answered"} => rpReq[n].sent \in {"none", "lost", rpReq[n].ctx}
      BY <3>1 DEF Sound
    <3>4. QED BY <3>2, <3>3
  <2>4. QED BY <2>1, <2>2, <2>3 DEF ServerAnswers, RpcIInv
<1>2. QED BY <1>1, InitKeeps, StepKeeps, PTL DEF RpcSpec
=============================================================================
