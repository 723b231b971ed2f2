----------------------------- MODULE ClientRuntime -----------------------------
(***************************************************************************)
(* The life of `wink up` processes that share one runtime state file, and  *)
(* of `wink down` (pkg/client engine.go, autonomous_engine.go, runtime*.go,*)
(* runtime_snapshot_writer.go; pkg/solver/store; cmd/wink/cmd up.go and    *)
(* down.go).                                                               *)
(*                                                                         *)
(* A legacy engine acquires its parts step by step, and two goroutines     *)
(* write its state file and its observation file.  An autonomous engine    *)
(* writes the state file itself, with an instance id, a process identity   *)
(* and a shutdown token.  A process may be killed at any time: the file    *)
(* lock goes with it, the files stay.                                      *)
(***************************************************************************)
EXTENDS Naturals

CONSTANTS
    Ups,            \* processes that run `wink up`
    Kinds,          \* what they may be: "legacy", "auto"
    QueueCap,       \* observationQueueCapacity
    MaxTicks,       \* bound: changes to record, per process
    MaxFaults,      \* bound: failing steps
    MaxCrashes,     \* bound: processes killed from outside
    None

VARIABLES
    crKind,         \* the engine each process runs, fixed
    crUp,           \* per process: [at, failed, res, wrote, ticks], failed: Stop was in vain
    crSnap,         \* its snapshot writer: [at, wake, closing, size]
    crObs,          \* its observation writer: [at, wake, closing, size]
    crLock,         \* who holds the runtime lock file
    crFile,         \* whose state the state file holds
    crObsFile,      \* the processes whose lines the observation file holds
    crDown,         \* the `wink down` command: [at, state, force]
    crForced,       \* `wink down --force` has removed a state file
    crFaults, crCrashes

vars == <<crKind, crUp, crSnap, crObs, crLock, crFile, crObsFile, crDown, crForced, crFaults, crCrashes>>
writers == <<crSnap, crObs>>
outside == <<crDown, crForced, crCrashes>>

\* The fallible steps of Start, and what follows each.
Following == [netif |-> "coord", coord |-> "tunnel", tunnel |-> "store", store |-> "run", run |-> "running"]
NoWriter == [at |-> "none", wake |-> FALSE, closing |-> FALSE, size |-> 0]

Init ==
    /\ crKind \in [Ups -> Kinds]
    /\ crUp = [u \in Ups |-> [at |-> "new", failed |-> FALSE, res |-> {}, wrote |-> FALSE, ticks |-> 0]]
    /\ crSnap = [u \in Ups |-> NoWriter] /\ crObs = [u \in Ups |-> NoWriter]
    /\ crLock = None /\ crFile = None /\ crObsFile = {}
    /\ crDown = [at |-> "idle", state |-> None, force |-> FALSE] /\ crForced = FALSE
    /\ crFaults = 0 /\ crCrashes = 0

At(u, where) == crUp[u].at = where
Alive(u) == u # None /\ crUp[u].at \notin {"new", "exited", "killed"}
Goto(u, where) == crUp' = [crUp EXCEPT ![u].at = where]
Fails(u, where) == crFaults < MaxFaults /\ crFaults' = crFaults + 1 /\ Goto(u, where)
StopFails(u) ==
    /\ crFaults < MaxFaults /\ crFaults' = crFaults + 1
    /\ crUp' = [crUp EXCEPT ![u].at = "exit", ![u].failed = TRUE]
Managed(u) == crKind[u] = "auto"

-----------------------------------------------------------------------------
(* cmd/up.go *)

\* AcquireRuntimeStateLock, without waiting.
AcquireLock(u) ==
    /\ At(u, "new")
    /\ IF crLock = None THEN crLock' = u /\ Goto(u, "prepare")
       ELSE crLock' = crLock /\ Goto(u, "exited")
    /\ UNCHANGED <<crKind, writers, crFile, crObsFile, outside, crFaults>>

\* prepareRuntimeStateForStart: a file whose owner still runs, or an ordinary one
\* that is fresh, stops the start; what a dead process left is removed.
Prepare(u) ==
    /\ At(u, "prepare")
    /\ \/ /\ ~Alive(crFile)
          /\ crFile' = None /\ Goto(u, "start")
       \/ /\ crFile # None /\ (Managed(crFile) => Alive(crFile))
          /\ crFile' = crFile /\ Goto(u, "exit")
    /\ UNCHANGED <<crKind, writers, crLock, crObsFile, outside, crFaults>>

\* The signal context ends, or the runtime's Done channel closes.
Interrupt(u) ==
    /\ At(u, "running")
    /\ Goto(u, "stop")
    /\ UNCHANGED <<crKind, writers, crLock, crFile, crObsFile, outside, crFaults>>

Exit(u) ==
    /\ At(u, "exit")
    /\ crLock' = None /\ Goto(u, "exited")
    /\ UNCHANGED <<crKind, writers, crFile, crObsFile, outside, crFaults>>

-----------------------------------------------------------------------------
(* engine.go: Start and Stop of the legacy engine. *)

Wake(writer) == [writer EXCEPT !.at = IF @ = "none" THEN "idle" ELSE @, !.wake = TRUE]

\* persistState makes the snapshot writer at the first change it records.
persistState(u) == crSnap' = [crSnap EXCEPT ![u] = IF @.closing THEN @ ELSE Wake(@)]

StartLegacy(u) ==
    /\ At(u, "start") /\ ~Managed(u)
    /\ Goto(u, "netif") /\ persistState(u)
    /\ UNCHANGED <<crKind, crObs, crLock, crFile, crObsFile, outside, crFaults>>

\* One fallible step of Start; "store" is initObservationStore.
StartStep(u) ==
    /\ crUp[u].at \in DOMAIN Following
    /\ LET k == crUp[u].at
       IN \/ /\ crUp' = [crUp EXCEPT ![u].res = @ \cup {k}, ![u].at = Following[k]]
             /\ crObs' = IF k = "store" THEN [crObs EXCEPT ![u].at = "idle"] ELSE crObs
             /\ UNCHANGED crFaults
             /\ IF k \in {"netif", "run"} THEN persistState(u) ELSE UNCHANGED crSnap
          \/ Fails(u, "stop") /\ UNCHANGED writers
    /\ UNCHANGED <<crKind, crLock, crFile, crObsFile, outside>>

\* What sessions and the state loop do while the engine runs: a change to persist,
\* and an observation to record.
Tick(u) ==
    /\ ~Managed(u) /\ (At(u, "running") \/ crUp[u].at \in DOMAIN Following)
    /\ crUp[u].ticks < MaxTicks /\ crUp' = [crUp EXCEPT ![u].ticks = @ + 1]
    /\ persistState(u)
    /\ crObs' = [crObs EXCEPT ![u] = IF @.at = "none" \/ @.closing \/ @.size = QueueCap THEN @
                                     ELSE [Wake(@) EXCEPT !.size = @ + 1]]
    /\ UNCHANGED <<crKind, crLock, crFile, crObsFile, outside, crFaults>>

\* Stop seals both writers: nothing is accepted any more and the queue is dropped.
Seal(writer) == IF writer.at = "none" THEN writer ELSE [Wake(writer) EXCEPT !.closing = TRUE, !.size = 0]

StopLegacy(u) ==
    /\ At(u, "stop") /\ ~Managed(u)
    /\ crSnap' = [crSnap EXCEPT ![u] = Seal(Wake(@))]
    /\ crObs' = [crObs EXCEPT ![u] = Seal(@)]
    /\ Goto(u, "release")
    /\ UNCHANGED <<crKind, crLock, crFile, crObsFile, outside, crFaults>>

\* The loops have ended; cleanupResources closes everything.  Without an
\* observation store the file of an earlier run is removed here.
Release(u) ==
    /\ At(u, "release")
    /\ crUp' = [crUp EXCEPT ![u].res = {}, ![u].at = "drainobs"]
    /\ crObsFile' = IF crObs[u].at = "none" THEN {} ELSE crObsFile
    /\ UNCHANGED <<crKind, writers, crLock, crFile, outside, crFaults>>

\* Drain and wait: the writer is done, or two seconds pass.
Waits(u, writer, next) ==
    \/ writer.at \in {"none", "done"} /\ Goto(u, next) /\ UNCHANGED crFaults
    \/ writer.at \notin {"none", "done"} /\ StopFails(u)

DrainObservations(u) ==
    /\ At(u, "drainobs") /\ Waits(u, crObs[u], "drainsnap")
    /\ UNCHANGED <<crKind, writers, crLock, crFile, crObsFile, outside>>

WaitSnapshot(u) ==
    /\ At(u, "drainsnap") /\ Waits(u, crSnap[u], "exit")
    /\ UNCHANGED <<crKind, writers, crLock, crFile, crObsFile, outside>>

-----------------------------------------------------------------------------
(* The writer goroutines of a legacy engine, while its process lives. *)

\* runtimeSnapshotWriter.run
SnapTakes(u) ==
    /\ Alive(u) /\ crSnap[u].at = "idle" /\ crSnap[u].wake
    /\ crSnap' = [crSnap EXCEPT ![u].wake = FALSE, ![u].at = IF crSnap[u].closing THEN "removing" ELSE "writing"]
    /\ UNCHANGED <<crKind, crUp, crObs, crLock, crFile, crObsFile, outside, crFaults>>

SnapWrites(u) ==
    /\ Alive(u) /\ crSnap[u].at \in {"writing", "removing"}
    /\ LET removing == crSnap[u].at = "removing"
       IN /\ crFile' = IF removing THEN None ELSE u
          /\ crUp' = [crUp EXCEPT ![u].wrote = TRUE]
          /\ crSnap' = [crSnap EXCEPT ![u].at = IF removing THEN "done" ELSE "idle"]
    /\ UNCHANGED <<crKind, crObs, crLock, crObsFile, outside, crFaults>>

\* observationWriter.run: the inner loop looks again after every line.
ObsTakes(u) ==
    /\ Alive(u)
    /\ (crObs[u].at = "idle" /\ crObs[u].wake) \/ crObs[u].at = "looking"
    /\ crObs' = [crObs EXCEPT ![u] =
           IF @.closing THEN [@ EXCEPT !.wake = FALSE, !.at = "removing"]
           ELSE IF @.size = 0 THEN [@ EXCEPT !.at = "idle", !.wake = FALSE]
           ELSE [@ EXCEPT !.wake = FALSE, !.size = @ - 1, !.at = "writing"]]
    /\ UNCHANGED <<crKind, crUp, crSnap, crLock, crFile, crObsFile, outside, crFaults>>

ObsWrites(u) ==
    /\ Alive(u) /\ crObs[u].at \in {"writing", "removing"}
    /\ LET removing == crObs[u].at = "removing"
       IN /\ crObsFile' = IF removing THEN {} ELSE crObsFile \cup {u}
          /\ crObs' = [crObs EXCEPT ![u].at = IF removing THEN "done" ELSE "looking"]
    /\ UNCHANGED <<crKind, crUp, crSnap, crLock, crFile, outside, crFaults>>

-----------------------------------------------------------------------------
(* autonomous_engine.go *)

RemoveIfInstance(u) == crFile' = IF crFile = u THEN None ELSE crFile

StartAuto(u) ==
    /\ At(u, "start") /\ Managed(u)
    /\ \/ /\ crUp' = [crUp EXCEPT ![u].res = {"runtime"}, ![u].at = "persist"]
          /\ UNCHANGED crFaults
       \/ Fails(u, "undo")
    /\ UNCHANGED <<crKind, writers, crLock, crFile, crObsFile, outside>>

\* The first persistState decides whether Start succeeds; later ones are of the loop.
PersistAuto(u) ==
    /\ \/ /\ At(u, "persist")
          /\ \/ crUp' = [crUp EXCEPT ![u].at = "running", ![u].wrote = TRUE] /\ crFile' = u /\ UNCHANGED crFaults
             \/ Fails(u, "undo") /\ UNCHANGED crFile
       \/ /\ At(u, "running") /\ Managed(u)
          /\ crFile' = u
          /\ UNCHANGED <<crUp, crFaults>>
    /\ UNCHANGED <<crKind, writers, crLock, crObsFile, outside>>

\* The cleanup of a failed Start, after closing the runtime.
UndoStart(u) ==
    /\ At(u, "undo")
    /\ RemoveIfInstance(u)
    /\ crUp' = [crUp EXCEPT ![u].res = {}, ![u].at = "exit"]
    /\ UNCHANGED <<crKind, writers, crLock, crObsFile, outside, crFaults>>

\* Stop: the loop has ended; a runtime that does not close keeps the state file,
\* which is written once more.
StopAuto(u) ==
    /\ At(u, "stop") /\ Managed(u)
    /\ \/ /\ crUp' = [crUp EXCEPT ![u].res = {}, ![u].at = "remove"]
          /\ UNCHANGED <<crFile, crFaults>>
       \/ StopFails(u) /\ crFile' = u
    /\ UNCHANGED <<crKind, writers, crLock, crObsFile, outside>>

\* RemoveRuntimeStateIfInstance
RemoveAuto(u) ==
    /\ At(u, "remove")
    /\ RemoveIfInstance(u)
    /\ crUp' = [crUp EXCEPT ![u].at = "exit", ![u].failed = crFile \notin {u, None}]
    /\ UNCHANGED <<crKind, writers, crLock, crObsFile, outside, crFaults>>

-----------------------------------------------------------------------------
(* cmd/down.go *)

Down(where) == crDown' = [crDown EXCEPT !.at = where]

\* The state is loaded once; only --force stops an ordinary runtime.
DownLoads ==
    /\ crDown.at = "idle"
    /\ \E force \in BOOLEAN:
           crDown' = [at |-> IF crFile = None THEN "nothing"
                             ELSE IF Managed(crFile) THEN "validate"
                             ELSE IF force THEN "kill" ELSE "refused",
                      state |-> crFile, force |-> force]
    /\ UNCHANGED <<crKind, crUp, writers, crLock, crFile, crObsFile, crForced, crFaults, crCrashes>>

\* validateManagedRuntimeOwner
DownValidates ==
    /\ crDown.at = "validate"
    /\ Down(IF Alive(crDown.state) THEN "request" ELSE "refused")
    /\ UNCHANGED <<crKind, crUp, writers, crLock, crFile, crObsFile, crForced, crFaults, crCrashes>>

\* The control endpoint accepts the token of its own instance only, and closes Done.
DownRequests ==
    /\ crDown.at = "request"
    /\ IF Alive(crDown.state) /\ crUp[crDown.state].res # {}
         THEN /\ crUp' = [crUp EXCEPT ![crDown.state].at = IF @ = "running" THEN "stop" ELSE @]
              /\ Down("wait")
         ELSE Down("failed") /\ UNCHANGED crUp
    /\ UNCHANGED <<crKind, writers, crLock, crFile, crObsFile, crForced, crFaults, crCrashes>>

\* waitRuntimeStateRemoved
DownWaits ==
    /\ crDown.at = "wait"
    /\ \/ crFile = None /\ Down("stopped")
       \/ crFile # None /\ Down("failed")       \* another instance, or the deadline
    /\ UNCHANGED <<crKind, crUp, writers, crLock, crFile, crObsFile, crForced, crFaults, crCrashes>>

\* forceStopLegacyRuntime waits for the process to end; then the file is removed,
\* whoever wrote it last.
DownKills ==
    /\ crDown.at = "kill"
    /\ LET u == crDown.state
       IN IF Alive(u) THEN /\ crUp' = [crUp EXCEPT ![u].at = "killed", ![u].res = {}]
                           /\ crLock' = IF crLock = u THEN None ELSE crLock
          ELSE UNCHANGED <<crUp, crLock>>
    /\ Down("removefile")
    /\ UNCHANGED <<crKind, writers, crFile, crObsFile, crForced, crFaults, crCrashes>>

DownRemoves ==
    /\ crDown.at = "removefile"
    /\ crFile' = None /\ crForced' = TRUE /\ Down("stopped")
    /\ UNCHANGED <<crKind, crUp, writers, crLock, crObsFile, crFaults, crCrashes>>

-----------------------------------------------------------------------------
\* The process is killed: the operating system drops the lock and its parts.
Crash(u) ==
    /\ Alive(u) /\ crCrashes < MaxCrashes /\ crCrashes' = crCrashes + 1
    /\ crUp' = [crUp EXCEPT ![u].at = "killed", ![u].res = {}]
    /\ crLock' = IF crLock = u THEN None ELSE crLock
    /\ UNCHANGED <<crKind, writers, crFile, crObsFile, crDown, crForced, crFaults>>

\* Start and Stop of the two engines, each step by step.
Start(u) == StartLegacy(u) \/ StartStep(u)
Stop(u) == StopLegacy(u) \/ DrainObservations(u) \/ WaitSnapshot(u)
AutonomousStart(u) == StartAuto(u) \/ PersistAuto(u) \/ UndoStart(u)
AutonomousStop(u) == StopAuto(u) \/ RemoveAuto(u)

Next ==
    \/ \E u \in Ups: \/ AcquireLock(u) \/ Prepare(u) \/ Interrupt(u) \/ Exit(u) \/ Release(u) \/ Crash(u)
                     \/ Start(u) \/ Tick(u) \/ Stop(u) \/ AutonomousStart(u) \/ AutonomousStop(u)
                     \/ SnapTakes(u) \/ SnapWrites(u) \/ ObsTakes(u) \/ ObsWrites(u)
    \/ DownLoads \/ DownValidates \/ DownRequests \/ DownWaits \/ DownKills \/ DownRemoves

Spec == Init /\ [][Next]_vars

-----------------------------------------------------------------------------
(* Properties. *)

\* The state file of a process that runs is its own: no other start, stop or
\* cleanup takes it away, except `wink down --force`.
FileIsMine ==
    \A u \in Ups: At(u, "running") /\ crUp[u].wrote => crFile = u \/ (crFile = None /\ crForced)

\* A process whose Stop, or the cleanup of whose failed Start, reports no error
\* leaves none of its files and parts.
CleanExit ==
    \A u \in Ups: At(u, "exited") /\ ~crUp[u].failed =>
        crFile # u /\ u \notin crObsFile /\ crUp[u].res = {}

\* `wink down` says stopped only when the runtime it was asked to stop is closed.
DownMeansStopped ==
    crDown.at = "stopped" => crUp[crDown.state].res = {} \/ ~Alive(crDown.state)

RuntimeSafe == FileIsMine /\ CleanExit /\ DownMeansStopped
=============================================================================
