------------------------------ MODULE FieldRouter ------------------------------
(***************************************************************************)
(* The life of one disposable field router (internal/c1crouter): a guardian *)
(* process lowers a machine-wide ceiling and starts an owned worker; the   *)
(* worker builds network namespaces, links and a forwarding switch; a      *)
(* separate teardown command cleans up what a killed run left.  All three  *)
(* work from the ownership journal of the run.                             *)
(*                                                                         *)
(* A process may be killed between any two steps.  Killing the guardian    *)
(* kills its worker a little later (Pdeathsig); until then the worker still *)
(* holds the run's lock, which both inherited.  What lives in the kernel - *)
(* mounted names, links, switches - stays.                                 *)
(***************************************************************************)
EXTENDS Naturals, FiniteSets

CONSTANTS
    Runs,           \* instances of the router, each with its own journal
    N,              \* namespaces a run owns
    AnchorOf,       \* run -> the namespace it attaches to
    Ceilings,       \* the runs allowed to lower the conntrack ceiling
    MaxFaults,      \* bound: failing commands, writes and waits
    MaxKills,       \* bound: processes killed from outside
    MaxTeardowns,   \* bound: teardown commands
    None

VARIABLES
    frGuard,        \* per run, the guardian: [at, class]
    frWork,         \* per run, the worker: [at, i, failed]
    frTear,         \* per run, the teardown command: [at, class]
    frClean,        \* per run and process, its topology.cleanup: [at, i, bad]
    frJournal,      \* per run, the durable ownership journal
    frPath,         \* per run and index, what the namespace's name refers to
    frLinks,        \* per run, the owned namespaces that have links
    frSockets,      \* the runs whose worker has descriptors in its namespaces
    frForward,      \* per anchor, ip_forward
    frCeiling,      \* nf_conntrack_max: "high" at first, or "cap"
    frCeilLock,     \* who holds the machine-wide ceiling lock
    frReport,       \* per run, the worker's summary.json
    frChecklist,    \* the runs whose teardown-checklist.json exists
    frFaults, frKills, frTears

processes == <<frGuard, frWork, frTear, frClean>>
kernel == <<frPath, frLinks, frSockets, frForward>>
ceiling == <<frCeiling, frCeilLock>>
files == <<frJournal, frReport, frChecklist>>
bounds == <<frKills, frTears>>
vars == <<processes, kernel, ceiling, files, bounds, frFaults>>

Owned == 1..N
Actors == {"guard", "work", "tear"}
NoCleanup == [at |-> "none", i |-> 1, bad |-> FALSE]
NoJournal == [saved |-> FALSE, child |-> FALSE, ns |-> {}, placeholder |-> {}, forward |-> None,
              ceiling |-> None, restored |-> FALSE, clean |-> FALSE]

Init ==
    /\ frGuard = [r \in Runs |-> [at |-> "new", class |-> "none"]]
    /\ frWork = [r \in Runs |-> [at |-> "none", i |-> 1, failed |-> FALSE]]
    /\ frTear = [r \in Runs |-> [at |-> "idle", class |-> "none"]]
    /\ frClean = [r \in Runs |-> [a \in Actors |-> NoCleanup]]
    /\ frJournal = [r \in Runs |-> NoJournal]
    /\ frPath = [r \in Runs |-> [i \in Owned |-> "none"]]
    /\ frLinks = [r \in Runs |-> {}] /\ frSockets = {}
    /\ frForward = [a \in {AnchorOf[r]: r \in Runs} |-> FALSE]
    /\ frCeiling = "high" /\ frCeilLock = None
    /\ frReport = [r \in Runs |-> "none"] /\ frChecklist = {}
    /\ frFaults = 0 /\ frKills = 0 /\ frTears = 0

Works == UNCHANGED frFaults
Faults == frFaults < MaxFaults /\ frFaults' = frFaults + 1
Guard(r, where, class) == frGuard' = [frGuard EXCEPT ![r] = [at |-> where, class |-> class]]
GuardTo(r, where) == frGuard' = [frGuard EXCEPT ![r].at = where]
WorkTo(r, where) == frWork' = [frWork EXCEPT ![r].at = where]
WorkFails(r) == frWork' = [frWork EXCEPT ![r].at = "drain", ![r].failed = TRUE]
TearTo(r, where) == frTear' = [frTear EXCEPT ![r].at = where]

WorkerLives(r) == frWork[r].at \notin {"none", "exited", "killed"}
GuardLives(r) == frGuard[r].at \notin {"new", "ended", "killed"}

\* journal.save: an error can come before the rename, or after it.
Saved(r, j) == frJournal' = [frJournal EXCEPT ![r] = j] /\ Works
SaveFails(r, j) == frJournal' \in {frJournal, [frJournal EXCEPT ![r] = j]} /\ Faults

-----------------------------------------------------------------------------
(* The guardian. *)

\* preflightTopology: the names are free and the attachment has no links yet.
Preflight(r) ==
    /\ frGuard[r].at = "new"
    /\ IF /\ \A i \in Owned: frPath[r][i] = "none"
          /\ \A o \in Runs: AnchorOf[o] = AnchorOf[r] => frLinks[o] = {}
         THEN GuardTo(r, "journal") ELSE Guard(r, "ended", "failed")
    /\ UNCHANGED <<frWork, frTear, frClean, kernel, ceiling, files, bounds, frFaults>>

newJournal(r) ==
    /\ frGuard[r].at = "journal"
    /\ LET j == [NoJournal EXCEPT !.saved = TRUE]
       IN \/ Saved(r, j) /\ GuardTo(r, IF r \in Ceilings THEN "ceiling" ELSE "spawn")
          \/ SaveFails(r, j) /\ Guard(r, "ended", "failed")
    /\ UNCHANGED <<frWork, frTear, frClean, kernel, ceiling, frReport, frChecklist, bounds>>

\* acquireCeiling records the original value before it writes the lower one.
AcquireCeiling(r) ==
    /\ frGuard[r].at = "ceiling"
    /\ LET j == [frJournal[r] EXCEPT !.ceiling = frCeiling]
       IN \/ frCeilLock = None /\ frCeilLock' = <<"guard", r>> /\ Saved(r, j) /\ GuardTo(r, "lower")
          \/ frCeilLock = None /\ frCeilLock' = None /\ SaveFails(r, j) /\ Guard(r, "ended", "failed")
          \/ /\ frCeilLock # None /\ Guard(r, "ended", "failed")
             /\ UNCHANGED <<frCeilLock, frJournal, frFaults>>
    /\ UNCHANGED <<frWork, frTear, frClean, kernel, frCeiling, frReport, frChecklist, bounds>>

LowerCeiling(r) ==
    /\ frGuard[r].at = "lower"
    /\ \/ frCeiling' = "cap" /\ Works /\ GuardTo(r, "spawn")
       \/ frCeiling' \in {frCeiling, "cap"} /\ Faults /\ Guard(r, "restore", "failed")
    /\ UNCHANGED <<frWork, frTear, frClean, kernel, frCeilLock, files, bounds>>

\* startOwnedChild; the worker waits for the token.
Spawn(r) ==
    /\ frGuard[r].at = "spawn"
    /\ \/ GuardTo(r, "adopt") /\ WorkTo(r, "waiting") /\ Works
       \/ Guard(r, "restore", "failed") /\ Faults /\ UNCHANGED frWork
    /\ UNCHANGED <<frTear, frClean, kernel, ceiling, files, bounds>>

\* The child is recorded before it may touch anything, or killed.
Adopt(r) ==
    /\ frGuard[r].at = "adopt"
    /\ LET j == [frJournal[r] EXCEPT !.child = TRUE]
       IN \/ Saved(r, j) /\ GuardTo(r, "token") /\ UNCHANGED frWork
          \/ SaveFails(r, j) /\ Guard(r, "restore", "failed") /\ WorkTo(r, "killed")
    /\ UNCHANGED <<frTear, frClean, kernel, ceiling, frReport, frChecklist, bounds>>

SendToken(r) ==
    /\ frGuard[r].at = "token" /\ GuardTo(r, "wait")
    /\ \/ WorkTo(r, IF frWork[r].at = "waiting" THEN "namespace" ELSE frWork[r].at) /\ Works
       \/ WorkTo(r, "killed") /\ Faults
    /\ UNCHANGED <<frTear, frClean, kernel, ceiling, files, bounds>>

\* The worker has ended, or outlasts the deadline, SIGTERM and the last timer.
Collect(r) ==
    /\ frGuard[r].at = "wait"
    /\ \/ ~WorkerLives(r) /\ Works /\ UNCHANGED <<frWork, frClean, frSockets, frLinks>>
       \/ WorkerLives(r) /\ Faults /\ WorkTo(r, "killed") /\ frClean' = [frClean EXCEPT ![r]["work"] = NoCleanup]
          /\ frSockets' = frSockets \ {r}
          /\ frLinks' = [frLinks EXCEPT ![r] = {i \in @: frPath[r][i] = "mounted"}]
    /\ GuardTo(r, "collected")
    /\ UNCHANGED <<frTear, frPath, frForward, ceiling, files, bounds>>

\* A journal that is not clean gets the backstop cleanup; one that cannot be
\* read (readOwnership) ends the guardian without one.
StartBackstop(r) ==
    /\ frGuard[r].at = "collected"
    /\ \/ /\ ~frJournal[r].clean /\ Works /\ GuardTo(r, "backstop")
          /\ frClean' = [frClean EXCEPT ![r]["guard"] = [NoCleanup EXCEPT !.at = "ns"]]
       \/ Faults /\ Guard(r, "restore", "failed") /\ UNCHANGED frClean
    /\ UNCHANGED <<frWork, frTear, kernel, ceiling, files, bounds>>

\* A run whose result needed no backstop and whose worker reported a quiet end,
\* with every residue counted as zero, ends quietly; anything else is a failure.
resolveTerminalClass(r, backstop) ==
    IF ~backstop /\ frReport[r] = "peaceful" /\ ~frWork[r].failed THEN "peaceful" ELSE "failed"

Resolve(r) ==
    /\ \/ frGuard[r].at = "collected" /\ frJournal[r].clean
       \/ frGuard[r].at = "backstop" /\ frClean[r]["guard"].at = "done"
    /\ \/ Guard(r, "restore", resolveTerminalClass(r, frGuard[r].at = "backstop")) /\ Works
       \/ Guard(r, "restore", "failed") /\ Faults           \* terminal-resolution.json
    /\ frClean' = [frClean EXCEPT ![r]["guard"] = NoCleanup]
    /\ UNCHANGED <<frWork, frTear, kernel, ceiling, files, bounds>>

\* ceilingGuard.restore, deferred by every exit after acquireCeiling.
Restore(r) ==
    /\ frGuard[r].at = "restore"
    /\ IF frCeilLock # <<"guard", r>> THEN GuardTo(r, "ended") /\ UNCHANGED <<ceiling, frFaults>>
       ELSE \/ frCeiling' = frJournal[r].ceiling /\ Works /\ GuardTo(r, "restored") /\ UNCHANGED frCeilLock
            \/ frCeiling' \in {frCeiling, frJournal[r].ceiling} /\ Faults /\ Guard(r, "ended", "failed") /\ frCeilLock' = None
    /\ UNCHANGED <<frWork, frTear, frClean, kernel, files, bounds>>

RecordRestored(r) ==
    /\ frGuard[r].at = "restored"
    /\ LET j == [frJournal[r] EXCEPT !.restored = TRUE]
       IN \/ Saved(r, j) /\ GuardTo(r, "ended")
          \/ SaveFails(r, j) /\ Guard(r, "ended", "failed")
    /\ frCeilLock' = None
    /\ UNCHANGED <<frWork, frTear, frClean, kernel, frCeiling, frReport, frChecklist, bounds>>

-----------------------------------------------------------------------------
(* The worker. *)

\* readAdoptionToken waits two seconds.
TokenTimeout(r) ==
    /\ frWork[r].at = "waiting" /\ Faults /\ WorkTo(r, "exited")
    /\ UNCHANGED <<frGuard, frTear, frClean, kernel, ceiling, files, bounds>>

\* createNamespace: inode and mount point are journalled, then the name is linked
\* and the namespace mounted on it.
RecordNamespace(r) ==
    /\ frWork[r].at = "namespace"
    /\ LET j == [frJournal[r] EXCEPT !.ns = @ \cup {frWork[r].i}]
       IN \/ Saved(r, j) /\ WorkTo(r, "placeholder")
          \/ SaveFails(r, j) /\ WorkFails(r)
    /\ UNCHANGED <<frGuard, frTear, frClean, kernel, ceiling, frReport, frChecklist, bounds>>

RecordPlaceholder(r) ==
    /\ frWork[r].at = "placeholder"
    /\ LET j == [frJournal[r] EXCEPT !.placeholder = @ \cup {frWork[r].i}]
       IN \/ Saved(r, j) /\ WorkTo(r, "link")
          \/ SaveFails(r, j) /\ WorkFails(r)
    /\ UNCHANGED <<frGuard, frTear, frClean, kernel, ceiling, frReport, frChecklist, bounds>>

LinkName(r) ==
    /\ frWork[r].at = "link"
    /\ \/ Works /\ WorkTo(r, "mount") /\ frPath' = [frPath EXCEPT ![r][frWork[r].i] = "placeholder"]
       \/ Faults /\ WorkFails(r) /\ UNCHANGED frPath
    /\ UNCHANGED <<frGuard, frTear, frClean, frLinks, frSockets, frForward, ceiling, files, bounds>>

MountNamespace(r) ==
    /\ frWork[r].at = "mount"
    /\ \/ /\ Works /\ frPath' = [frPath EXCEPT ![r][frWork[r].i] = "mounted"]
          /\ frWork' = [frWork EXCEPT ![r] = IF @.i < N THEN [@ EXCEPT !.at = "namespace", !.i = @ + 1]
                                             ELSE [@ EXCEPT !.at = "links", !.i = 1]]
       \/ Faults /\ WorkFails(r) /\ UNCHANGED frPath
    /\ UNCHANGED <<frGuard, frTear, frClean, frLinks, frSockets, frForward, ceiling, files, bounds>>

\* topology.create: links, addresses, routes and filters; a cancelled context makes
\* the next command fail.
CreateLinks(r) ==
    /\ frWork[r].at = "links"
    /\ \/ /\ Works /\ frLinks' = [frLinks EXCEPT ![r] = @ \cup {frWork[r].i}]
          /\ frWork' = [frWork EXCEPT ![r] = IF @.i < N THEN [@ EXCEPT !.i = @ + 1] ELSE [@ EXCEPT !.at = "forward"]]
       \/ Works /\ WorkFails(r) /\ UNCHANGED frLinks
    /\ UNCHANGED <<frGuard, frTear, frClean, frPath, frSockets, frForward, ceiling, files, bounds>>

RecordForward(r) ==
    /\ frWork[r].at = "forward"
    /\ LET j == [frJournal[r] EXCEPT !.forward = frForward[AnchorOf[r]]]
       IN \/ Saved(r, j) /\ WorkTo(r, "setforward")
          \/ SaveFails(r, j) /\ WorkFails(r)
    /\ UNCHANGED <<frGuard, frTear, frClean, kernel, ceiling, frReport, frChecklist, bounds>>

SetForward(r) ==
    /\ frWork[r].at = "setforward"
    /\ \/ Works /\ frForward' = [frForward EXCEPT ![AnchorOf[r]] = TRUE] /\ WorkTo(r, "routers")
       \/ Faults /\ WorkFails(r) /\ UNCHANGED frForward
    /\ UNCHANGED <<frGuard, frTear, frClean, frPath, frLinks, frSockets, ceiling, files, bounds>>

\* Address translators, observer and sampler: runOwned up to router_ready.
StartRouters(r) ==
    /\ frWork[r].at = "routers" /\ frSockets' = frSockets \cup {r}
    /\ \/ Works /\ WorkTo(r, "running")
       \/ Faults /\ WorkFails(r)
    /\ UNCHANGED <<frGuard, frTear, frClean, frPath, frLinks, frForward, ceiling, files, bounds>>

\* The deadline or SIGTERM ends the run quietly; a part of it may fail instead.
WorkerStops(r) ==
    /\ frWork[r].at = "running"
    /\ \/ WorkTo(r, "drain") /\ Works
       \/ WorkFails(r) /\ Faults
    /\ UNCHANGED <<frGuard, frTear, frClean, kernel, ceiling, files, bounds>>

drainOwned(r) ==
    /\ frWork[r].at = "drain"
    /\ \/ Works /\ frSockets' = frSockets \ {r} /\ WorkTo(r, "clean")
       \/ Faults /\ frWork' = [frWork EXCEPT ![r].at = "clean", ![r].failed = TRUE] /\ UNCHANGED frSockets
    /\ frClean' = [frClean EXCEPT ![r]["work"] = [NoCleanup EXCEPT !.at = "ns"]]
    /\ UNCHANGED <<frGuard, frTear, frPath, frLinks, frForward, ceiling, files, bounds>>

\* summary.json, and the end of the process: a namespace without name and
\* descriptors goes, with its links.
WorkerReports(r) ==
    /\ frWork[r].at = "clean" /\ frClean[r]["work"].at = "done"
    /\ LET failed == frWork[r].failed \/ frClean[r]["work"].bad
       IN /\ frWork' = [frWork EXCEPT ![r].at = "exited", ![r].failed = failed]
          /\ \/ Works /\ frReport' = [frReport EXCEPT ![r] = IF failed THEN "failed" ELSE "peaceful"]
             \/ Faults /\ UNCHANGED frReport
    /\ frClean' = [frClean EXCEPT ![r]["work"] = NoCleanup]
    /\ frSockets' = frSockets \ {r}
    /\ frLinks' = [frLinks EXCEPT ![r] = {i \in @: frPath[r][i] = "mounted"}]
    /\ UNCHANGED <<frGuard, frTear, frPath, frForward, ceiling, frJournal, frChecklist, bounds>>

-----------------------------------------------------------------------------
(* topology.cleanup, by the worker, the guardian or the teardown command.  An    *)
(* error is remembered and the rest is still tried.                               *)

CleanAt(r, a, at, i, bad) == frClean' = [frClean EXCEPT ![r][a] = [at |-> at, i |-> i, bad |-> bad]]
NextOwned(r, a, bad) ==
    LET c == frClean[r][a] IN IF c.i < N THEN CleanAt(r, a, "ns", c.i + 1, bad) ELSE CleanAt(r, a, "forward", 1, bad)

\* A name that is still the recorded mount point is removed; what is neither that
\* nor the recorded namespace is left alone.
CleanName(r, a) ==
    LET c == frClean[r][a]  path == frPath[r][c.i]
    IN /\ c.at = "ns"
       /\ \/ /\ path = "none" /\ Works /\ NextOwned(r, a, c.bad) /\ UNCHANGED <<frPath, frLinks>>
          \/ /\ path = "placeholder" /\ c.i \in frJournal[r].placeholder
             /\ \/ Works /\ frPath' = [frPath EXCEPT ![r][c.i] = "none"] /\ NextOwned(r, a, c.bad)
                \/ Faults /\ NextOwned(r, a, TRUE) /\ UNCHANGED frPath
             /\ UNCHANGED frLinks
          \/ /\ path = "mounted" /\ c.i \in frJournal[r].ns
             /\ \/ /\ Works /\ frLinks' = [frLinks EXCEPT ![r] = @ \ {c.i}]
                   /\ CleanAt(r, a, "unmount", c.i, c.bad \/ r \in frSockets)
                \/ Faults /\ CleanAt(r, a, "unmount", c.i, TRUE) /\ UNCHANGED frLinks
             /\ UNCHANGED frPath
          \/ /\ \/ path = "placeholder" /\ c.i \notin frJournal[r].placeholder
                \/ path = "mounted" /\ c.i \notin frJournal[r].ns
             /\ Works /\ NextOwned(r, a, TRUE) /\ UNCHANGED <<frPath, frLinks>>
       /\ UNCHANGED <<frGuard, frWork, frTear, frSockets, frForward, ceiling, files, bounds>>

CleanUnmount(r, a) ==
    LET c == frClean[r][a]
    IN /\ c.at = "unmount"
       /\ \/ /\ Works /\ frPath' = [frPath EXCEPT ![r][c.i] = "placeholder"] /\ CleanAt(r, a, "remove", c.i, c.bad)
             /\ frLinks' = IF r \in frSockets THEN frLinks ELSE [frLinks EXCEPT ![r] = @ \ {c.i}]
          \/ Faults /\ NextOwned(r, a, TRUE) /\ UNCHANGED <<frPath, frLinks>>
       /\ UNCHANGED <<frGuard, frWork, frTear, frSockets, frForward, ceiling, files, bounds>>

CleanRemove(r, a) ==
    LET c == frClean[r][a]
    IN /\ c.at = "remove"
       /\ \/ Works /\ frPath' = [frPath EXCEPT ![r][c.i] = "none"] /\ NextOwned(r, a, c.bad)
          \/ Faults /\ NextOwned(r, a, TRUE) /\ UNCHANGED frPath
       /\ UNCHANGED <<frGuard, frWork, frTear, frLinks, frSockets, frForward, ceiling, files, bounds>>

CleanForward(r, a) ==
    LET c == frClean[r][a]
    IN /\ c.at = "forward"
       /\ \/ /\ Works /\ CleanAt(r, a, "verify", 1, c.bad)
             /\ frForward' = IF frJournal[r].forward = None THEN frForward
                             ELSE [frForward EXCEPT ![AnchorOf[r]] = frJournal[r].forward]
          \/ frJournal[r].forward # None /\ Faults /\ CleanAt(r, a, "verify", 1, TRUE) /\ UNCHANGED frForward
       /\ UNCHANGED <<frGuard, frWork, frTear, frPath, frLinks, frSockets, ceiling, files, bounds>>

\* The attachments have no links, the names are gone: the run is journalled clean.
CleanVerify(r, a) ==
    LET c == frClean[r][a]
        bad == \/ c.bad \/ \E o \in Runs: AnchorOf[o] = AnchorOf[r] /\ frLinks[o] # {}
               \/ \E i \in Owned: frPath[r][i] # "none"
        j == [frJournal[r] EXCEPT !.clean = TRUE]
    IN /\ c.at = "verify"
       /\ \/ bad /\ Works /\ CleanAt(r, a, "done", 1, TRUE) /\ UNCHANGED frJournal
          \/ ~bad /\ Saved(r, j) /\ CleanAt(r, a, "done", 1, FALSE)
          \/ ~bad /\ SaveFails(r, j) /\ CleanAt(r, a, "done", 1, TRUE)
       /\ UNCHANGED <<frGuard, frWork, frTear, kernel, ceiling, frReport, frChecklist, bounds>>

-----------------------------------------------------------------------------
(* The teardown command. *)

TearEnds(r, class) == frTear' = [frTear EXCEPT ![r] = [at |-> "idle", class |-> class]]

StartTeardown(r) ==
    /\ frTear[r].at = "idle" /\ frJournal[r].saved
    /\ frTears < MaxTeardowns /\ frTears' = frTears + 1
    /\ TearTo(r, "lock")
    /\ UNCHANGED <<frGuard, frWork, frClean, kernel, ceiling, files, frKills, frFaults>>

LockFree(r) == ~GuardLives(r) /\ ~WorkerLives(r)
TearGetsLock(r) ==
    TearTo(r, "clean") /\ frClean' = [frClean EXCEPT ![r]["tear"] = [NoCleanup EXCEPT !.at = "ns"]]

\* Mutant: the lock counts as free when the guardian is gone, the worker or not.
TearLocksOnGuard(r) ==
    /\ frTear[r].at = "lock" /\ ~GuardLives(r) /\ TearGetsLock(r)
    /\ UNCHANGED <<frGuard, frWork, kernel, ceiling, files, bounds, frFaults>>

\* The lock is free once guardian and worker are gone.  A guardian that lives is
\* sent SIGTERM, which ends its run as the deadline does; a lock nobody
\* identifiable holds is an error.
TearLocks(r) ==
    /\ frTear[r].at = "lock"
    /\ \/ LockFree(r) /\ TearGetsLock(r)
       \/ ~LockFree(r) /\ GuardLives(r) /\ TearTo(r, "signalled") /\ UNCHANGED frClean
       \/ ~LockFree(r) /\ ~GuardLives(r) /\ TearEnds(r, "failed") /\ UNCHANGED frClean
    /\ UNCHANGED <<frGuard, frWork, kernel, ceiling, files, bounds, frFaults>>

\* The signalled guardian is waited for, but not for ever.
TearWaits(r) ==
    /\ frTear[r].at = "signalled"
    /\ \/ LockFree(r) /\ TearGetsLock(r)
       \/ TearEnds(r, "failed") /\ UNCHANGED frClean
    /\ UNCHANGED <<frGuard, frWork, kernel, ceiling, files, bounds, frFaults>>

\* restoreInterruptedCeiling
TearRestores(r) ==
    /\ frTear[r].at = "clean" /\ frClean[r]["tear"].at = "done"
    /\ LET j == frJournal[r]
       IN IF j.ceiling = None \/ j.restored THEN TearTo(r, "end") /\ UNCHANGED <<ceiling, frClean, frFaults>>
          ELSE \/ /\ frCeilLock = None /\ frCeiling \in {"cap", j.ceiling}
                  /\ Works /\ frCeiling' = j.ceiling /\ frCeilLock' = <<"tear", r>> /\ TearTo(r, "restored") /\ UNCHANGED frClean
               \/ /\ frCeilLock # None \/ frCeiling \notin {"cap", j.ceiling}
                  /\ TearTo(r, "end") /\ CleanAt(r, "tear", "done", 1, TRUE) /\ UNCHANGED <<ceiling, frFaults>>
               \/ /\ frCeilLock = None /\ frCeiling \in {"cap", j.ceiling} /\ Faults
                  /\ frCeiling' \in {frCeiling, j.ceiling} /\ UNCHANGED frCeilLock
                  /\ TearTo(r, "end") /\ CleanAt(r, "tear", "done", 1, TRUE)
    /\ UNCHANGED <<frGuard, frWork, kernel, files, bounds>>

TearRecords(r) ==
    /\ frTear[r].at = "restored" /\ frCeilLock' = None /\ TearTo(r, "end")
    /\ LET j == [frJournal[r] EXCEPT !.restored = TRUE]
       IN \/ Saved(r, j) /\ UNCHANGED frClean
          \/ SaveFails(r, j) /\ CleanAt(r, "tear", "done", 1, TRUE)
    /\ UNCHANGED <<frGuard, frWork, kernel, frCeiling, frReport, frChecklist, bounds>>

\* The checklist is created exclusively: a second teardown cannot report success.
TearReports(r) ==
    /\ frTear[r].at = "end"
    /\ TearEnds(r, IF frClean[r]["tear"].bad \/ r \in frChecklist THEN "failed" ELSE "success")
    /\ frChecklist' = frChecklist \cup {r}
    /\ frClean' = [frClean EXCEPT ![r]["tear"] = NoCleanup]
    /\ UNCHANGED <<frGuard, frWork, kernel, ceiling, frJournal, frReport, bounds, frFaults>>

-----------------------------------------------------------------------------
(* Killed processes. *)

Kill == frKills < MaxKills /\ frKills' = frKills + 1 /\ UNCHANGED frTears
Unlocked(a, r) == frCeilLock' = IF frCeilLock = <<a, r>> THEN None ELSE frCeilLock

KillGuard(r) ==
    /\ GuardLives(r) /\ Kill /\ GuardTo(r, "killed") /\ Unlocked("guard", r)
    /\ frClean' = [frClean EXCEPT ![r]["guard"] = NoCleanup]
    /\ UNCHANGED <<frWork, frTear, kernel, frCeiling, files, frFaults>>

WorkerDies(r) ==
    /\ WorkTo(r, "killed") /\ frClean' = [frClean EXCEPT ![r]["work"] = NoCleanup]
    /\ frSockets' = frSockets \ {r}
    /\ frLinks' = [frLinks EXCEPT ![r] = {i \in @: frPath[r][i] = "mounted"}]
    /\ UNCHANGED <<frGuard, frTear, frPath, frForward, ceiling, files, frFaults>>

KillWorker(r) == WorkerLives(r) /\ Kill /\ WorkerDies(r)
Pdeathsig(r) == WorkerLives(r) /\ frGuard[r].at = "killed" /\ WorkerDies(r) /\ UNCHANGED bounds

KillTeardown(r) ==
    /\ frTear[r].at # "idle" /\ Kill /\ TearEnds(r, "killed") /\ Unlocked("tear", r)
    /\ frClean' = [frClean EXCEPT ![r]["tear"] = NoCleanup]
    /\ UNCHANGED <<frGuard, frWork, kernel, frCeiling, files, frFaults>>

\* The functions of the guardian, its worker and the teardown, each step by step.
runGuardian(r) == Spawn(r) \/ Adopt(r) \/ SendToken(r) \/ Collect(r) \/ StartBackstop(r) \/ Resolve(r) \/ RecordRestored(r)
createNamespace(r) == RecordNamespace(r) \/ RecordPlaceholder(r) \/ LinkName(r) \/ MountNamespace(r)
create(r) == CreateLinks(r) \/ RecordForward(r) \/ SetForward(r)
runOwned(r) == StartRouters(r) \/ WorkerStops(r) \/ WorkerReports(r)
cleanup(r, a) == CleanName(r, a) \/ CleanUnmount(r, a) \/ CleanRemove(r, a) \/ CleanForward(r, a) \/ CleanVerify(r, a)
teardown(r) == StartTeardown(r) \/ TearLocks(r) \/ TearWaits(r) \/ TearRestores(r) \/ TearRecords(r) \/ TearReports(r)

Next == \E r \in Runs:
    \/ Preflight(r) \/ newJournal(r) \/ AcquireCeiling(r) \/ LowerCeiling(r) \/ runGuardian(r) \/ Restore(r)
    \/ TokenTimeout(r) \/ createNamespace(r) \/ create(r) \/ runOwned(r) \/ drainOwned(r)
    \/ (\E a \in Actors: cleanup(r, a)) \/ teardown(r)
    \/ KillGuard(r) \/ KillWorker(r) \/ Pdeathsig(r) \/ KillTeardown(r)

Spec == Init /\ [][Next]_vars

-----------------------------------------------------------------------------
(* Properties. *)

\* One process at a time builds up or takes down what a run owns, whoever was
\* killed in between.
OneHand ==
    \A r \in Runs: Cardinality({a \in Actors:
        \/ a = "work" /\ frWork[r].at \notin {"none", "waiting", "exited", "killed"}
        \/ frClean[r][a].at # "none"}) <= 1

\* Wherever a run is cut off, the journal on disk names everything it left in the
\* kernel, so that a teardown can find it: names, switches, and the first value of
\* the ceiling, however many killed runs have lowered it since.
LeftoversRecorded ==
    /\ \A r \in Runs, i \in Owned:
           /\ frPath[r][i] # "none" => i \in frJournal[r].placeholder
           /\ frPath[r][i] = "mounted" => i \in frJournal[r].ns
           /\ i \in frLinks[r] => frPath[r][i] # "none" \/ r \in frSockets
    /\ \A r \in Runs: frForward[AnchorOf[r]] =>
           \E o \in Runs: AnchorOf[o] = AnchorOf[r] /\ frJournal[o].forward = FALSE /\ ~frJournal[o].clean
    /\ frCeiling = "cap" => \E r \in Runs: frJournal[r].ceiling = "high" /\ ~frJournal[r].restored

Gone(r) ==
    /\ \A i \in Owned: frPath[r][i] = "none"
    /\ frLinks[r] = {} /\ ~WorkerLives(r)
    /\ frJournal[r].forward # None => frForward[AnchorOf[r]] = frJournal[r].forward
    /\ frJournal[r].ceiling # None => frJournal[r].restored

\* A quiet end of the guardian, and a successful teardown, mean that nothing is left.
VerdictsHonest ==
    \A r \in Runs:
        (frGuard[r].at = "ended" /\ frGuard[r].class # "failed") \/ frTear[r].class = "success" => Gone(r)

RouterSafe == OneHand /\ LeftoversRecorded /\ VerdictsHonest
=============================================================================
