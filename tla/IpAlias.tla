-------------------------------- MODULE IpAlias --------------------------------
(***************************************************************************)
(* One loopback alias of pkg/systemingress/ipalias in the mode with        *)
(* durable ownership: the manager, the marker file and the address row of  *)
(* the operating system, with crashes of the process at every step,        *)
(* commands, probes and writes that fail, and an administrator who adds    *)
(* and removes rows of the same address.                                   *)
(***************************************************************************)
EXTENDS Naturals

CONSTANTS
    MaxFaults,      \* bound: failures and crashes
    MaxRows,        \* bound: rows created
    None

VARIABLES
    alRow,          \* the system's row: None or [id, by, shape]
    alRows,         \* rows created so far
    alMark,         \* the marker file: None or [phase, row, gen, sure]; row 0 is unknown;
                    \* sure: the row was seen after Wink's own command
    alGen,          \* generation of the running process, 0 while none runs
    alBorn,         \* generations so far
    alHas,          \* the manager: [owned, row, refs, closing, closed, sure]
    alPc,           \* the call in progress
    alFaults

vars == <<alRow, alRows, alMark, alGen, alBorn, alHas, alPc, alFaults>>

Fresh == [owned |-> FALSE, row |-> 0, refs |-> 0, closing |-> FALSE, closed |-> FALSE, sure |-> FALSE]
Idle == [op |-> "idle"]

Init ==
    /\ alRow = None /\ alRows = 0 /\ alMark = None
    /\ alGen = 1 /\ alBorn = 1 /\ alHas = Fresh /\ alPc = Idle /\ alFaults = 0

-----------------------------------------------------------------------------
Fault == alFaults < MaxFaults /\ alFaults' = alFaults + 1
Fine == UNCHANGED alFaults
Present == alRow # None
Shape == alRow.shape                \* validOwnedShape: /128, skip-as-source

\* claim.write; it may fail and leave the file as it was.
Write(phase, row, sure) ==
    alMark' = [phase |-> phase, row |-> row, gen |-> alGen, sure |-> sure]
Go(op) == alPc' = [op |-> op]
Has(owned, row, refs, sure) ==
    alHas' = [alHas EXCEPT !.owned = owned, !.row = row, !.refs = refs, !.sure = sure]
rest == <<alGen, alBorn>>

\* Add, up to the probe and the decision it leads to: a row that is there is
\* adopted only with the marker of a dead generation that fits it.
Recoverable == alMark # None /\ alMark.gen # alGen
Fits ==
    /\ Shape
    /\ alMark.phase = "active" => alMark.row = alRow.id
    /\ alMark.phase = "deleting" => alMark.row \in {0, alRow.id}

AdoptWhen(fits) ==
    /\ alPc = Idle /\ alGen # 0 /\ ~alHas.closing /\ alHas.refs = 0 /\ ~alHas.owned
    /\ Present /\ Recoverable /\ fits
    /\ \/ Write("active", alRow.id, alMark.sure) /\ Has(TRUE, alRow.id, 1, alMark.sure) /\ Fine
       \/ Fault /\ UNCHANGED <<alMark, alHas>>
    /\ UNCHANGED <<alRow, alRows, alPc>> /\ UNCHANGED rest

\* Add of a row that is present: adopted, or refused (then nothing changes).
Adopt == AdoptWhen(Fits)

\* Add of an absent row: the intent marker comes before the command.
AddIntent ==
    /\ alPc = Idle /\ alGen # 0 /\ ~alHas.closing /\ alHas.refs = 0 /\ ~alHas.owned /\ ~Present
    /\ \/ Write("intent", 0, FALSE) /\ Has(TRUE, 0, 0, FALSE) /\ Go("add") /\ Fine
       \/ Fault /\ UNCHANGED <<alMark, alHas, alPc>>
    /\ UNCHANGED <<alRow, alRows>> /\ UNCHANGED rest

\* netsh add: it fails when the row is there; it may fail and still apply.
AddCommand ==
    /\ alPc.op = "add"
    /\ IF Present THEN Go("addFailed") /\ Fine /\ UNCHANGED <<alRow, alRows>>
       ELSE \E applied, ok \in BOOLEAN:
            /\ ok => applied
            /\ IF ok THEN Fine ELSE Fault
            /\ IF applied
               THEN /\ alRows < MaxRows /\ alRows' = alRows + 1
                    /\ alRow' = [id |-> alRows + 1, by |-> "us", shape |-> TRUE]
               ELSE UNCHANGED <<alRow, alRows>>
            /\ Go(IF ok THEN "verify" ELSE "addFailed")
    /\ UNCHANGED <<alMark, alHas>> /\ UNCHANGED rest

\* releaseAbsentAliasLocked: the marker goes, then the ownership.
ReleaseAbsent == alMark' = None /\ Has(FALSE, 0, 0, FALSE)

\* The probe after a failed command: an absent row is given up, any other
\* outcome is rolled back.
AddFailed ==
    /\ alPc.op = "addFailed"
    /\ \/ ~Present /\ ReleaseAbsent /\ alPc' = Idle /\ Fine
       \/ Present /\ Go("remove") /\ Fine /\ UNCHANGED <<alMark, alHas>>
       \/ Fault /\ Go("remove") /\ UNCHANGED <<alMark, alHas>>
    /\ UNCHANGED <<alRow, alRows>> /\ UNCHANGED rest

\* The probe after a command that succeeded, and the active marker.
Verify ==
    /\ alPc.op = "verify"
    /\ \/ /\ Present /\ Shape
          /\ Write("active", alRow.id, TRUE) /\ Has(TRUE, alRow.id, 1, TRUE) /\ alPc' = Idle /\ Fine
       \/ /\ Present /\ Shape /\ Fault
          /\ Has(TRUE, alRow.id, 0, TRUE) /\ Go("remove") /\ UNCHANGED alMark
       \/ ~Present /\ ReleaseAbsent /\ alPc' = Idle /\ Fine
       \/ Present /\ ~Shape /\ Go("remove") /\ Fine /\ UNCHANGED <<alMark, alHas>>
       \/ Fault /\ Go("remove") /\ UNCHANGED <<alMark, alHas>>
    /\ UNCHANGED <<alRow, alRows>> /\ UNCHANGED rest

-----------------------------------------------------------------------------
\* Remove of the last reference, or Close (which may be repeated).
BeginRemove(close) ==
    /\ alPc = Idle /\ alGen # 0 /\ ~alHas.closed
    /\ IF close THEN alHas' = [alHas EXCEPT !.closing = TRUE, !.closed = ~alHas.owned]
       ELSE ~alHas.closing /\ alHas.refs = 1 /\ UNCHANGED alHas
    /\ IF alHas.owned THEN Go("remove") ELSE UNCHANGED alPc
    /\ Fine /\ UNCHANGED <<alRow, alRows, alMark>> /\ UNCHANGED rest

CanRemove == Shape /\ alHas.row \in {0, alRow.id}

\* removeOwnedAliasLocked: the row must be the one of the claim; the deleting
\* marker comes before the command.
RemoveProbe ==
    /\ alPc.op = "remove"
    /\ \/ ~Present /\ ReleaseAbsent /\ alPc' = Idle /\ Fine
       \/ /\ Present /\ CanRemove /\ Fine
          /\ Write("deleting", alRow.id, alHas.sure) /\ Has(TRUE, alRow.id, alHas.refs, alHas.sure)
          /\ alPc' = [op |-> "delete", row |-> alRow, sure |-> alHas.sure]
       \/ Present /\ ~CanRemove /\ alPc' = Idle /\ Fine /\ UNCHANGED <<alMark, alHas>>
       \/ Fault /\ alPc' = Idle /\ UNCHANGED <<alMark, alHas>>      \* probe or write failed
    /\ UNCHANGED <<alRow, alRows>> /\ UNCHANGED rest

\* netsh delete and the probe after it.
DeleteCommand ==
    /\ alPc.op = "delete"
    /\ \/ alRow' = None /\ Go("remove") /\ Fine
       \/ Fault /\ (alRow' = None \/ UNCHANGED alRow) /\ alPc' = Idle
    /\ UNCHANGED <<alRows, alMark, alHas>> /\ UNCHANGED rest

-----------------------------------------------------------------------------
Crash ==
    /\ alGen # 0 /\ Fault
    /\ alGen' = 0 /\ alHas' = Fresh /\ alPc' = Idle
    /\ UNCHANGED <<alRow, alRows, alMark, alBorn>>

Exit ==
    /\ alGen # 0 /\ alHas.closed /\ Fine
    /\ alGen' = 0 /\ alHas' = Fresh /\ alPc' = Idle
    /\ UNCHANGED <<alRow, alRows, alMark, alBorn>>

\* At most one generation more than there are faults.
Restart ==
    /\ alGen = 0 /\ alBorn <= MaxFaults
    /\ alBorn' = alBorn + 1 /\ alGen' = alBorn + 1
    /\ Fine /\ UNCHANGED <<alRow, alRows, alMark, alHas, alPc>>

\* The administrator does not act between a command and the probe after it.
AdminTime == alPc.op \in {"idle", "add"}

AdminAdds(shape) ==
    /\ AdminTime /\ ~Present /\ alRows < MaxRows /\ alRows' = alRows + 1
    /\ alRow' = [id |-> alRows + 1, by |-> "admin", shape |-> shape]
    /\ Fine /\ UNCHANGED <<alMark, alHas, alPc>> /\ UNCHANGED rest

AdminRemoves ==
    /\ AdminTime /\ Present /\ alRow' = None
    /\ Fine /\ UNCHANGED <<alRows, alMark, alHas, alPc>> /\ UNCHANGED rest

Add == Adopt \/ AddIntent \/ AddCommand \/ AddFailed \/ Verify
removeOwnedAlias == RemoveProbe \/ DeleteCommand

Next ==
    \/ Add \/ removeOwnedAlias
    \/ \E close \in BOOLEAN: BeginRemove(close)
    \/ \E shape \in BOOLEAN: AdminAdds(shape)
    \/ AdminRemoves \/ Crash \/ Exit \/ Restart

Spec == Init /\ [][Next]_vars

-----------------------------------------------------------------------------
\* Whatever crashes and fails: a row that Wink created always has a marker,
\* so that the next generation can take it over; a manager that closed left
\* none of its own; a row that is chosen for deletion was created by Wink,
\* unless nothing but an intent marker could tell (sure: the row was seen after
\* Wink's own command); and a reference means a marker of this generation.
AliasSafe ==
    /\ Present /\ alRow.by = "us" => alMark # None
    /\ alHas.closed => ~(Present /\ alRow.by = "us" /\ alMark.gen = alGen)
    /\ alPc.op = "delete" => alPc.row.by = "us" \/ ~alPc.sure
    /\ alHas.refs > 0 => alHas.owned /\ alMark # None /\ alMark.gen = alGen
=============================================================================
