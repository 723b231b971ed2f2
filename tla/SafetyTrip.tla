----------------------------- MODULE SafetyTrip ------------------------------
(***************************************************************************)
(* The persistent safety trip of internal/governor/safety_trip.go.         *)
(*                                                                         *)
(* One small file holds a latch byte and a checksummed record.  A trip     *)
(* writes and syncs the latch first and the record second; a reset writes  *)
(* and syncs a clear record first and the latch last.  Every write may     *)
(* fail, every sync may fail, the process may die between any two system   *)
(* calls and the machine may lose power with any unsynced write lost,      *)
(* kept or torn.                                                           *)
(*                                                                         *)
(* Writers hold the namespace owner lock: the governor's process while it  *)
(* runs, the reset command while it resets (owner.go).  Readers (the       *)
(* Inspect functions) take no lock and see the page cache at any moment.   *)
(***************************************************************************)
EXTENDS Integers, TLAPS

CONSTANT MaxSequence        \* bound on the record's sequence number

ASSUME MaxSequenceAssumption == MaxSequence \in Nat

VARIABLES
    cache,      \* the file as readers see it
    disk,       \* the file as of the last successful Sync
    owner,      \* who holds the namespace owner lock
    op,         \* the step the owner's current operation has reached
    pending,    \* the record that operation is writing
    gtrip,      \* the governor's own trip status blocks (Governor.trip)
    signalled,  \* beginSafetyTripDrainLocked has run in this process
    unlatched,  \* the trip could not read the file or make its latch durable
    seen        \* the newest sequence a reader has been shown

vars == <<cache, disk, owner, op, pending, gtrip, signalled, unlatched, seen>>

-----------------------------------------------------------------------------
(* The file *)

Latches == {"C", "T"}
States  == {"clear", "tripped"}
Records == [state : States, seq : Nat]

\* What a record area holds when its checksum does not match.
Torn == [state |-> "torn", seq |-> 0]

Files == [latch : Latches, rec : Records \cup {Torn}]

Steps == {"idle", "latch_sync", "record", "record_truncate", "record_sync",
          "clear_latch", "clear_sync"}

\* readLocked: the status a reader derives from the file.
Status(f) ==
    IF f.latch = "C" /\ f.rec.state = "clear" THEN "clear"
    ELSE IF f.latch = "T" /\ f.rec.state = "tripped" THEN "tripped"
    ELSE "indeterminate"

Blocks(f) == Status(f) # "clear"

\* The files a power loss may leave: each unsynced write lost or kept, and an
\* unsynced record possibly torn.
Images == {[latch |-> l, rec |-> r] :
              l \in {cache.latch, disk.latch},
              r \in {cache.rec, disk.rec} \cup
                    (IF cache.rec = disk.rec THEN {} ELSE {Torn})}

\* Every restart, with or without power loss, finds active work blocked.
Latched == \A f \in Images : Blocks(f)

\* The operation under way is a reset.
Resetting == owner = "reset" /\ op # "idle"

-----------------------------------------------------------------------------
(* Mutants: the operations below with a plausible slip. *)

\* Mutant: reset goes on to the latch without having synced the clear record.
RecordSyncSkipped ==
    /\ op = "record_sync"
    /\ op' = IF owner = "reset" THEN "clear_latch" ELSE "idle"
    /\ UNCHANGED <<cache, disk, owner, pending, gtrip, signalled, unlatched, seen>>

\* Mutant: tripThen goes on to the record without having synced the latch.
TripSyncLatchSkipped ==
    /\ owner = "governor" /\ op = "latch_sync"
    /\ signalled' = TRUE
    /\ op' = "record"
    /\ UNCHANGED <<cache, disk, owner, pending, gtrip, unlatched, seen>>

\* Mutant: tripThen counts its sequence down.
TripWriteLatchCountsDown ==
    /\ owner = "governor" /\ op = "idle" /\ ~gtrip
    /\ ~Blocks(cache)
    /\ pending' = [state |-> "tripped", seq |-> cache.rec.seq - 1]
    /\ cache' = [cache EXCEPT !.latch = "T"]
    /\ gtrip' = TRUE
    /\ op' = "latch_sync"
    /\ UNCHANGED <<disk, owner, signalled, unlatched, seen>>

-----------------------------------------------------------------------------
(* initializeSafetyTripFile: the namespace is prepared clear and synced. *)
Init ==
    /\ cache = [latch |-> "C", rec |-> [state |-> "clear", seq |-> 0]]
    /\ disk = cache
    /\ owner = "none"
    /\ op = "idle"
    /\ pending = [state |-> "clear", seq |-> 0]
    /\ gtrip = FALSE
    /\ signalled = FALSE /\ unlatched = FALSE
    /\ seen = 0

(* newGovernor: the owner lock is free and the trip does not block. *)
StartGovernor ==
    /\ owner = "none"
    /\ ~Blocks(cache)
    /\ owner' = "governor"
    /\ gtrip' = FALSE
    /\ signalled' = FALSE /\ unlatched' = FALSE
    /\ UNCHANGED <<cache, disk, op, pending, seen>>

(* tripLocked and tripThen up to the latch write.  The governor trips at   *)
(* most once: its own status blocks whatever becomes of the file.          *)
TripWriteLatch ==
    /\ owner = "governor" /\ op = "idle" /\ ~gtrip
    /\ ~Blocks(cache)
    /\ cache.rec.seq < MaxSequence
    /\ pending' = [state |-> "tripped", seq |-> cache.rec.seq + 1]
    /\ cache' = [cache EXCEPT !.latch = "T"]
    /\ gtrip' = TRUE
    /\ op' = "latch_sync"
    /\ UNCHANGED <<disk, owner, signalled, unlatched, seen>>

(* tripThen cannot open the file or write the byte: nothing is latched, the *)
(* governor's own status becomes indeterminate, and tripLocked tells the    *)
(* attempts to stop all the same.                                           *)
TripOpenFails ==
    /\ owner = "governor" /\ op = "idle" /\ ~gtrip
    /\ ~Blocks(cache)
    /\ gtrip' = TRUE
    /\ signalled' = TRUE /\ unlatched' = TRUE
    /\ UNCHANGED <<cache, disk, owner, op, pending, seen>>

(* readLocked cannot read the file, whatever it holds: an indeterminate     *)
(* status blocks, so tripThen calls afterLatch with nothing latched.        *)
TripReadFails ==
    /\ owner = "governor" /\ op = "idle" /\ ~gtrip
    /\ gtrip' = TRUE
    /\ signalled' = TRUE /\ unlatched' = TRUE
    /\ UNCHANGED <<cache, disk, owner, op, pending, seen>>

(* tripThen finds the file blocking already: afterLatch, and return. *)
TripAlreadyBlocked ==
    /\ owner = "governor" /\ op = "idle" /\ ~gtrip
    /\ Blocks(cache)
    /\ gtrip' = TRUE
    /\ signalled' = TRUE
    /\ UNCHANGED <<cache, disk, owner, op, pending, unlatched, seen>>

(* writeSafetyTripLatch's Sync, then afterLatch. *)
TripSyncLatch ==
    /\ owner = "governor" /\ op = "latch_sync"
    /\ disk' = cache
    /\ signalled' = TRUE
    /\ op' = "record"
    /\ UNCHANGED <<cache, owner, pending, gtrip, unlatched, seen>>

(* ResetMachineSafetyTrip up to the record write: the owner lock is free   *)
(* and the operator names exactly the sequence that is tripped.            *)
ResetBegin ==
    /\ owner = "none"
    /\ Status(cache) = "tripped"
    /\ seen # 0 /\ seen = cache.rec.seq
    /\ cache.rec.seq < MaxSequence
    /\ owner' = "reset"
    /\ pending' = [state |-> "clear", seq |-> cache.rec.seq + 1]
    /\ op' = "record"
    /\ UNCHANGED <<cache, disk, gtrip, signalled, unlatched, seen>>

(* writeSafetyTripRecord: WriteAt leaves the tail of a longer old record   *)
(* behind until Truncate, and nothing is durable until Sync.               *)
RecordWrite ==
    /\ op = "record"
    /\ \E r \in {Torn, pending} : cache' = [cache EXCEPT !.rec = r]
    /\ op' = "record_truncate"
    /\ UNCHANGED <<disk, owner, pending, gtrip, signalled, unlatched, seen>>

RecordTruncate ==
    /\ op = "record_truncate"
    /\ cache' = [cache EXCEPT !.rec = pending]
    /\ op' = "record_sync"
    /\ UNCHANGED <<disk, owner, pending, gtrip, signalled, unlatched, seen>>

RecordSync ==
    /\ op = "record_sync"
    /\ disk' = cache
    /\ op' = IF owner = "reset" THEN "clear_latch" ELSE "idle"
    /\ UNCHANGED <<cache, owner, pending, gtrip, signalled, unlatched, seen>>

(* reset: the latch byte goes last. *)
ResetWriteLatch ==
    /\ op = "clear_latch"
    /\ cache' = [cache EXCEPT !.latch = "C"]
    /\ op' = "clear_sync"
    /\ UNCHANGED <<disk, owner, pending, gtrip, signalled, unlatched, seen>>

(* reset returns and the command's owner lock is released. *)
ResetSyncLatch ==
    /\ op = "clear_sync"
    /\ disk' = cache
    /\ op' = "idle"
    /\ owner' = "none"
    /\ UNCHANGED <<cache, pending, gtrip, signalled, unlatched, seen>>

(* A write, truncate or sync fails: the operation returns its error with   *)
(* the file as it stands.  A trip whose latch was not synced still drains  *)
(* (tripLocked); the reset command releases the owner.                     *)
OpFails ==
    /\ op # "idle"
    /\ cache' \in {cache} \cup
                  (IF op = "record" THEN {[cache EXCEPT !.rec = Torn]} ELSE {})
    /\ op' = "idle"
    /\ owner' = IF owner = "reset" THEN "none" ELSE owner
    /\ signalled' = (signalled \/ op = "latch_sync")
    /\ unlatched' = (unlatched \/ op = "latch_sync")
    /\ UNCHANGED <<disk, pending, gtrip, seen>>

(* The owner closes, or its process dies: the lock goes, the file stays. *)
OwnerExits ==
    /\ owner # "none"
    /\ owner' = "none"
    /\ op' = "idle"
    /\ gtrip' = FALSE
    /\ signalled' = FALSE /\ unlatched' = FALSE
    /\ UNCHANGED <<cache, disk, pending, seen>>

PowerLoss ==
    /\ \E f \in Images : cache' = f /\ disk' = f
    /\ owner' = "none"
    /\ op' = "idle"
    /\ gtrip' = FALSE
    /\ signalled' = FALSE /\ unlatched' = FALSE
    /\ UNCHANGED <<pending, seen>>

(* Something outside the program damages the record (a disk fault, an edit *)
(* by hand); decodeSafetyTripRecord's checksum must catch it.              *)
Damage ==
    /\ op = "idle"
    /\ cache' = [cache EXCEPT !.rec = Torn]
    /\ disk' = [latch |-> disk.latch, rec |-> Torn]
    /\ UNCHANGED <<owner, op, pending, gtrip, signalled, unlatched, seen>>

(* InspectMachineSafetyTrip: no lock; a determinate record shows its sequence. *)
Inspect ==
    /\ Status(cache) # "indeterminate"
    /\ seen' = cache.rec.seq
    /\ UNCHANGED <<cache, disk, owner, op, pending, gtrip, signalled, unlatched>>

\* The functions of the trip file, each step by step.
tripThen == TripWriteLatch \/ TripOpenFails \/ TripReadFails \/ TripAlreadyBlocked
writeSafetyTripRecord == RecordWrite \/ RecordTruncate \/ RecordSync

Next ==
    \/ StartGovernor \/ tripThen \/ TripSyncLatch
    \/ ResetBegin \/ writeSafetyTripRecord
    \/ ResetWriteLatch \/ ResetSyncLatch
    \/ OpFails \/ OwnerExits \/ PowerLoss \/ Damage \/ Inspect

Spec == Init /\ [][Next]_vars

-----------------------------------------------------------------------------
(* Properties *)

TypeOK ==
    /\ cache \in Files /\ disk \in Files
    /\ owner \in {"none", "governor", "reset"}
    /\ op \in Steps
    /\ pending \in Records
    /\ gtrip \in BOOLEAN /\ signalled \in BOOLEAN /\ unlatched \in BOOLEAN
    /\ seen \in Nat

\* The two-part file keeps the promise of the abstract latch: once a trip's
\* latch is durable no crash, failed write or failed reset clears it, and only
\* an accepted sequence-bound reset brings it down (tripThen's and reset's
\* opposite write orders).
Latch == INSTANCE SafetyLatch WITH up <- Latched, ack <- Resetting

ImplementsLatch == Latch!LatchSpec

\* A sequence number shown to an operator never goes backwards: no crash
\* brings an older determinate record back, so the sequence given to reset
\* names one trip for ever (the compare in reset relies on it).
SequenceNeverReturns ==
    \A f \in Images : Status(f) # "indeterminate" => f.rec.seq >= seen

\* A trip stops the work whatever becomes of its file, and loses its durability
\* only to an I/O error: the attempts have been told to stop once Trip is past the
\* latch (tripLocked drains after every outcome), and unless the file could not be
\* read, opened or synced they were told so only after the blocking state would
\* survive any crash (the order inside tripThen).  A record that could not be
\* written is no such error.
TripFailsClosed ==
    /\ gtrip /\ op # "latch_sync" => signalled
    /\ signalled /\ ~unlatched => Latched

-----------------------------------------------------------------------------
(* The inductive invariant behind the properties. *)

\* The record area is rewritten only while both latches are down on "T".
RecordUnderLatch ==
    /\ op \in {"record", "record_truncate", "record_sync", "clear_latch"}
          => cache.latch = "T" /\ disk.latch = "T"
    /\ cache.rec # disk.rec => cache.latch = "T" /\ disk.latch = "T"
    /\ cache.rec.state = "tripped" =>
          /\ cache.latch = "T" /\ disk.latch = "T"
          /\ disk.rec.state = "tripped" => cache.rec = disk.rec

\* Which operation the owner is in, and what it is writing.
OpConsistent ==
    /\ op = "latch_sync" => /\ owner = "governor"
                            /\ cache.latch = "T" /\ cache.rec.state = "clear"
    /\ op \in {"clear_latch", "clear_sync"} =>
          /\ owner = "reset" /\ disk.rec = cache.rec /\ cache.rec = pending
    /\ op # "idle" => owner # "none"
    /\ owner = "governor" /\ op # "idle" =>
          pending.state = "tripped" /\ disk.rec.state = "clear"
    /\ owner = "reset" => pending.state = "clear"
    /\ op = "record_sync" => cache.rec = pending
    /\ signalled => owner = "governor" /\ gtrip
    /\ owner = "governor" /\ ~gtrip =>
          /\ op = "idle" /\ cache.rec = disk.rec
          /\ cache.rec = Torn \/ Status(cache) = "clear"

\* An operator has seen nothing newer than the record being written.
SeenBeforePending ==
    op # "idle" => /\ seen <= pending.seq
                   /\ cache.rec # Torn => cache.rec.seq <= pending.seq

IInv == /\ TypeOK /\ RecordUnderLatch /\ OpConsistent /\ SeenBeforePending
        /\ SequenceNeverReturns /\ TripFailsClosed

-----------------------------------------------------------------------------
(* Proofs, for every MaxSequence *)

\* The images of a power loss, spelled out: the latch of one version of the
\* file with the record of either version, or a torn record when they differ.
LEMMA ImagesAre ==
    ASSUME NEW f
    PROVE  f \in Images <=>
              \E l \in {cache.latch, disk.latch} :
              \E r \in {cache.rec, disk.rec} \cup
                       (IF cache.rec = disk.rec THEN {} ELSE {Torn}) :
                 f = [latch |-> l, rec |-> r]
BY DEF Images

\* Every image is a file.
LEMMA ImagesAreFiles == TypeOK => \A f \in Images : f \in Files
BY ImagesAre DEF TypeOK, Files

\* What the page cache holds is itself a possible image.
LEMMA CacheIsImage == TypeOK => cache \in Images
BY ImagesAre DEF TypeOK, Files

\* With both latches on "T" no image is clear.
LEMMA BothLatchesBlock ==
    TypeOK /\ cache.latch = "T" /\ disk.latch = "T" => Latched
BY ImagesAre DEF Latched, Blocks, Status

LEMMA InitIInv == Init => IInv
<1> SUFFICES ASSUME Init PROVE IInv
    OBVIOUS
<1>1. TypeOK
    BY DEF Init, TypeOK, Files, Records, Latches, States, Steps
<1>2. SequenceNeverReturns
    BY ImagesAre DEF Init, SequenceNeverReturns, Status
<1>3. QED
    BY <1>1, <1>2 DEF Init, IInv, RecordUnderLatch, OpConsistent,
       SeenBeforePending, TripFailsClosed

LEMMA StepTypeOK == TypeOK /\ [Next]_vars => TypeOK'
<1> SUFFICES ASSUME TypeOK, [Next]_vars PROVE TypeOK'
    OBVIOUS
<1> USE DEF TypeOK, Files, Records, Latches, States, Steps, Torn
<1>1. CASE StartGovernor BY <1>1 DEF StartGovernor
<1>2. CASE TripWriteLatch BY <1>2 DEF TripWriteLatch, Blocks, Status
<1>3. CASE TripOpenFails BY <1>3 DEF TripOpenFails
<1>3a. CASE TripReadFails BY <1>3a DEF TripReadFails
<1>4. CASE TripAlreadyBlocked BY <1>4 DEF TripAlreadyBlocked
<1>5. CASE TripSyncLatch BY <1>5 DEF TripSyncLatch
<1>6. CASE ResetBegin BY <1>6 DEF ResetBegin, Status
<1>7. CASE RecordWrite BY <1>7 DEF RecordWrite
<1>8. CASE RecordTruncate BY <1>8 DEF RecordTruncate
<1>9. CASE RecordSync BY <1>9 DEF RecordSync
<1>10. CASE ResetWriteLatch BY <1>10 DEF ResetWriteLatch
<1>11. CASE ResetSyncLatch BY <1>11 DEF ResetSyncLatch
<1>12. CASE OpFails BY <1>12 DEF OpFails
<1>13. CASE OwnerExits BY <1>13 DEF OwnerExits
<1>14. CASE PowerLoss BY <1>14, ImagesAreFiles DEF PowerLoss
<1>15. CASE Damage BY <1>15 DEF Damage
<1>16. CASE Inspect BY <1>16 DEF Inspect, Status
<1>17. CASE UNCHANGED vars BY <1>17 DEF vars
<1>18. QED
    BY <1>1, <1>2, <1>3, <1>3a, <1>4, <1>5, <1>6, <1>7, <1>8, <1>9, <1>10, <1>11,
       <1>12, <1>13, <1>14, <1>15, <1>16, <1>17 DEF Next, tripThen, writeSafetyTripRecord

\* A step that leaves the file alone leaves its images alone.
LEMMA SameFileSameImages ==
    ASSUME UNCHANGED <<cache, disk>>
    PROVE  Images' = Images /\ Latched' = Latched
BY DEF Images, Latched, Blocks, Status

\* The structural part of the inductive invariant is preserved.
LEMMA StepStructure ==
    TypeOK /\ RecordUnderLatch /\ OpConsistent /\ [Next]_vars
        => RecordUnderLatch' /\ OpConsistent'
<1> SUFFICES ASSUME TypeOK, RecordUnderLatch, OpConsistent, [Next]_vars
             PROVE  RecordUnderLatch' /\ OpConsistent'
    OBVIOUS
<1> USE DEF TypeOK, Files, Records, Latches, States, Steps, Torn,
            RecordUnderLatch, OpConsistent
<1>1. CASE StartGovernor BY <1>1 DEF StartGovernor, Blocks, Status
<1>2. CASE TripWriteLatch BY <1>2 DEF TripWriteLatch, Blocks, Status
<1>3. CASE TripOpenFails BY <1>3 DEF TripOpenFails
<1>3a. CASE TripReadFails BY <1>3a DEF TripReadFails
<1>4. CASE TripAlreadyBlocked BY <1>4 DEF TripAlreadyBlocked
<1>5. CASE TripSyncLatch BY <1>5 DEF TripSyncLatch
<1>6. CASE ResetBegin BY <1>6 DEF ResetBegin, Status
<1>7. CASE RecordWrite BY <1>7 DEF RecordWrite
<1>8. CASE RecordTruncate BY <1>8 DEF RecordTruncate
<1>9. CASE RecordSync BY <1>9 DEF RecordSync
<1>10. CASE ResetWriteLatch BY <1>10 DEF ResetWriteLatch
<1>11. CASE ResetSyncLatch BY <1>11 DEF ResetSyncLatch
<1>12. CASE OpFails BY <1>12 DEF OpFails
<1>13. CASE OwnerExits BY <1>13 DEF OwnerExits
<1>14. CASE PowerLoss BY <1>14, ImagesAre DEF PowerLoss
<1>15. CASE Damage BY <1>15 DEF Damage
<1>16. CASE Inspect BY <1>16 DEF Inspect
<1>17. CASE UNCHANGED vars BY <1>17 DEF vars
<1>18. QED
    BY <1>1, <1>2, <1>3, <1>3a, <1>4, <1>5, <1>6, <1>7, <1>8, <1>9, <1>10,
       <1>11, <1>12, <1>13, <1>14, <1>15, <1>16, <1>17 DEF Next, tripThen, writeSafetyTripRecord

\* The bound on what an operator has seen is preserved.
LEMMA StepSeen ==
    IInv /\ [Next]_vars => SeenBeforePending'
<1> SUFFICES ASSUME TypeOK, RecordUnderLatch, OpConsistent, SeenBeforePending,
                    SequenceNeverReturns, [Next]_vars
             PROVE  SeenBeforePending'
    BY DEF IInv
<1>0. Status(cache) # "indeterminate" => cache.rec.seq >= seen
    BY CacheIsImage DEF SequenceNeverReturns
<1> USE DEF TypeOK, Files, Records, Latches, States, Steps, Torn,
            SeenBeforePending
<1>1. CASE StartGovernor BY <1>1 DEF StartGovernor, Blocks, Status
<1>2. CASE TripWriteLatch BY <1>2, <1>0 DEF TripWriteLatch, Blocks, Status
<1>3. CASE TripOpenFails BY <1>3 DEF TripOpenFails
<1>3a. CASE TripReadFails BY <1>3a DEF TripReadFails
<1>4. CASE TripAlreadyBlocked BY <1>4 DEF TripAlreadyBlocked
<1>5. CASE TripSyncLatch BY <1>5 DEF TripSyncLatch
<1>6. CASE ResetBegin BY <1>6, <1>0 DEF ResetBegin, Status
<1>7. CASE RecordWrite BY <1>7 DEF RecordWrite
<1>8. CASE RecordTruncate BY <1>8 DEF RecordTruncate
<1>9. CASE RecordSync BY <1>9 DEF RecordSync
<1>10. CASE ResetWriteLatch BY <1>10 DEF ResetWriteLatch
<1>11. CASE ResetSyncLatch BY <1>11 DEF ResetSyncLatch
<1>12. CASE OpFails BY <1>12 DEF OpFails
<1>13. CASE OwnerExits BY <1>13 DEF OwnerExits
<1>14. CASE PowerLoss BY <1>14, ImagesAre DEF PowerLoss
<1>15. CASE Damage BY <1>15 DEF Damage
<1>16. CASE Inspect BY <1>16 DEF Inspect, Status, OpConsistent
<1>17. CASE UNCHANGED vars BY <1>17 DEF vars
<1>18. QED
    BY <1>1, <1>2, <1>3, <1>3a, <1>4, <1>5, <1>6, <1>7, <1>8, <1>9, <1>10,
       <1>11, <1>12, <1>13, <1>14, <1>15, <1>16, <1>17 DEF Next, tripThen, writeSafetyTripRecord

\* No step brings an older determinate record back among the images.
LEMMA StepSequence == IInv /\ [Next]_vars => SequenceNeverReturns'
<1> SUFFICES ASSUME IInv, [Next]_vars,
                    NEW f \in Images', Status(f) # "indeterminate"
             PROVE  f.rec.seq >= seen'
    BY DEF SequenceNeverReturns, Status
<1>0. TypeOK' BY StepTypeOK DEF IInv
<1> DEFINE Shape == \E l \in {cache.latch', disk.latch'} :
                    \E r \in {cache.rec', disk.rec'} \cup
                       (IF cache.rec' = disk.rec' THEN {} ELSE {Torn}) :
                          f = [latch |-> l, rec |-> r]
<1>s. Shape BY DEF Images
<1>t. \/ f.latch = "C" /\ f.rec.state = "clear"
      \/ f.latch = "T" /\ f.rec.state = "tripped"
    BY DEF Status
<1> USE DEF IInv, TypeOK, Files, Records, Latches, States, Steps, Torn
<1>1. CASE StartGovernor
    BY <1>1, SameFileSameImages DEF StartGovernor, SequenceNeverReturns
<1>2. CASE TripWriteLatch
    BY <1>2, <1>s, <1>t, <1>0, ImagesAre
       DEF TripWriteLatch, RecordUnderLatch, SequenceNeverReturns, Blocks, Status
<1>3. CASE TripOpenFails
    BY <1>3, SameFileSameImages DEF TripOpenFails, SequenceNeverReturns
<1>3a. CASE TripReadFails
    BY <1>3a, SameFileSameImages DEF TripReadFails, SequenceNeverReturns
<1>4. CASE TripAlreadyBlocked
    BY <1>4, SameFileSameImages DEF TripAlreadyBlocked, SequenceNeverReturns
<1>5. CASE TripSyncLatch
    BY <1>5, <1>s, <1>t, <1>0 DEF TripSyncLatch, RecordUnderLatch, OpConsistent, SeenBeforePending
<1>6. CASE ResetBegin
    BY <1>6, SameFileSameImages DEF ResetBegin, SequenceNeverReturns
<1>7. CASE RecordWrite
    BY <1>7, <1>s, <1>t, <1>0, ImagesAre DEF RecordWrite, SequenceNeverReturns, Status, RecordUnderLatch, OpConsistent, SeenBeforePending
<1>8. CASE RecordTruncate
    BY <1>8, <1>s, <1>t, <1>0, ImagesAre DEF RecordTruncate, SequenceNeverReturns, Status, RecordUnderLatch, OpConsistent, SeenBeforePending
<1>9. CASE RecordSync
    BY <1>9, <1>s, <1>t, <1>0, CacheIsImage DEF RecordSync, SequenceNeverReturns, Status, RecordUnderLatch, OpConsistent, SeenBeforePending
<1>10. CASE ResetWriteLatch
    BY <1>10, <1>s, <1>t, <1>0 DEF ResetWriteLatch, RecordUnderLatch, OpConsistent, SeenBeforePending
<1>11. CASE ResetSyncLatch
    BY <1>11, <1>s, <1>t, <1>0, CacheIsImage DEF ResetSyncLatch, SequenceNeverReturns, Status, RecordUnderLatch, OpConsistent, SeenBeforePending
<1>12. CASE OpFails
    BY <1>12, <1>s, <1>t, <1>0, ImagesAre DEF OpFails, SequenceNeverReturns, Status, RecordUnderLatch, OpConsistent, SeenBeforePending
<1>13. CASE OwnerExits
    BY <1>13, SameFileSameImages DEF OwnerExits, SequenceNeverReturns
<1>14. CASE PowerLoss
    BY <1>14, <1>s, <1>t, <1>0 DEF PowerLoss, SequenceNeverReturns, Status
<1>15. CASE Damage
    BY <1>15, <1>s, <1>t, <1>0 DEF Damage
<1>16. CASE Inspect
    BY <1>16, <1>s, <1>t, <1>0 DEF Inspect, Status, RecordUnderLatch, OpConsistent, SeenBeforePending
<1>17. CASE UNCHANGED vars
    BY <1>17, SameFileSameImages DEF vars, SequenceNeverReturns
<1>18. QED
    BY <1>1, <1>2, <1>3, <1>3a, <1>4, <1>5, <1>6, <1>7, <1>8, <1>9, <1>10,
       <1>11, <1>12, <1>13, <1>14, <1>15, <1>16, <1>17 DEF Next, tripThen, writeSafetyTripRecord

\* The durable latch, once up, stays up in every step but a reset's last two.
LEMMA LatchHolds ==
    ASSUME IInv, [Next]_vars, Latched, ~ResetWriteLatch, ~ResetSyncLatch
    PROVE  Latched'
<1>0. TypeOK' BY StepTypeOK DEF IInv
<1>b. cache'.latch = "T" /\ disk'.latch = "T" => Latched'
    BY <1>0 DEF Latched, Blocks, Status, Images
<1>c. Blocks(cache)
    BY CacheIsImage DEF IInv, Latched
<1> USE DEF IInv
<1>1. CASE StartGovernor
    BY <1>1, SameFileSameImages DEF StartGovernor
<1>2. CASE TripWriteLatch
    BY <1>2, <1>c DEF TripWriteLatch
<1>3. CASE TripOpenFails
    BY <1>3, SameFileSameImages DEF TripOpenFails
<1>3a. CASE TripReadFails
    BY <1>3a, SameFileSameImages DEF TripReadFails
<1>4. CASE TripAlreadyBlocked
    BY <1>4, SameFileSameImages DEF TripAlreadyBlocked
<1>5. CASE TripSyncLatch
    BY <1>5 DEF TripSyncLatch, TypeOK, Latched, Images, OpConsistent, Blocks, Status
<1>6. CASE ResetBegin
    BY <1>6, SameFileSameImages DEF ResetBegin
<1>7. CASE RecordWrite
    BY <1>7, <1>b DEF RecordWrite, RecordUnderLatch, TypeOK, Files
<1>8. CASE RecordTruncate
    BY <1>8, <1>b DEF RecordTruncate, RecordUnderLatch, TypeOK, Files
<1>9. CASE RecordSync
    BY <1>9, <1>b DEF RecordSync, RecordUnderLatch, TypeOK, Files
<1>10. CASE ResetWriteLatch
    BY <1>10, SameFileSameImages DEF ResetWriteLatch
<1>11. CASE ResetSyncLatch
    BY <1>11, SameFileSameImages DEF ResetSyncLatch
<1>12. CASE OpFails
    BY <1>12, <1>b, SameFileSameImages DEF OpFails, RecordUnderLatch, TypeOK, Files
<1>13. CASE OwnerExits
    BY <1>13, SameFileSameImages DEF OwnerExits
<1>14. CASE PowerLoss
    BY <1>14 DEF PowerLoss, Latched, Images, Blocks, Status
<1>15. CASE Damage
    BY <1>15 DEF Damage, Latched, Images, Blocks, Status, Torn, TypeOK, Files
<1>16. CASE Inspect
    BY <1>16, SameFileSameImages DEF Inspect
<1>17. CASE UNCHANGED vars
    BY <1>17, SameFileSameImages DEF vars
<1>18. QED
    BY <1>1, <1>2, <1>3, <1>3a, <1>4, <1>5, <1>6, <1>7, <1>8, <1>9, <1>10,
       <1>11, <1>12, <1>13, <1>14, <1>15, <1>16, <1>17 DEF Next, tripThen, writeSafetyTripRecord

\* A step past the latch signals, and a signal that met no I/O error finds the
\* block durable.
LEMMA StepSignal == IInv /\ [Next]_vars => TripFailsClosed'
<1> SUFFICES ASSUME IInv, [Next]_vars PROVE TripFailsClosed'
    OBVIOUS
<1>a. (gtrip /\ op # "latch_sync" => signalled)'
    BY DEF IInv, TripFailsClosed, TypeOK, OpConsistent, Next, tripThen, writeSafetyTripRecord,
       vars, StartGovernor, TripWriteLatch, TripOpenFails, TripReadFails, TripAlreadyBlocked,
       TripSyncLatch, ResetBegin, RecordWrite, RecordTruncate, RecordSync, ResetWriteLatch,
       ResetSyncLatch, OpFails, OwnerExits, PowerLoss, Damage, Inspect
<1> SUFFICES ASSUME signalled', ~unlatched' PROVE Latched'
    BY <1>a DEF TripFailsClosed
<1>1. CASE TripAlreadyBlocked
  <2>1. Latched
    BY <1>1, ImagesAre DEF TripAlreadyBlocked, IInv, TypeOK, Files, Records, Latches, States,
       RecordUnderLatch, OpConsistent, Latched, Blocks, Status, Torn
  <2>2. QED BY <1>1, <2>1, SameFileSameImages DEF TripAlreadyBlocked
<1>2. CASE TripSyncLatch
    BY <1>2 DEF TripSyncLatch, IInv, TypeOK, Files, OpConsistent, Latched,
       Images, Blocks, Status
<1>u. unlatched => unlatched' \/ ~signalled'
    BY DEF IInv, TypeOK, OpConsistent, Next, tripThen, writeSafetyTripRecord, vars, StartGovernor,
       TripWriteLatch, TripOpenFails, TripReadFails, TripAlreadyBlocked, TripSyncLatch,
       ResetBegin, RecordWrite, RecordTruncate, RecordSync, ResetWriteLatch, ResetSyncLatch,
       OpFails, OwnerExits, PowerLoss, Damage, Inspect
<1>3. CASE signalled /\ ~ResetWriteLatch /\ ~ResetSyncLatch
    BY <1>3, <1>u, LatchHolds DEF IInv, TripFailsClosed
<1>4. CASE ~signalled /\ ~TripAlreadyBlocked /\ ~TripSyncLatch
    BY <1>4 DEF IInv, TypeOK, Next, tripThen, writeSafetyTripRecord, vars, StartGovernor,
       TripWriteLatch, TripOpenFails, TripReadFails, ResetBegin, RecordWrite, RecordTruncate,
       RecordSync, ResetWriteLatch, ResetSyncLatch, OpFails, OwnerExits, PowerLoss, Damage, Inspect
<1>5. CASE signalled /\ (ResetWriteLatch \/ ResetSyncLatch)
    BY <1>5 DEF IInv, OpConsistent, ResetWriteLatch, ResetSyncLatch
<1>6. QED BY <1>1, <1>2, <1>3, <1>4, <1>5

\* IInv is inductive.
LEMMA StepIInv == IInv /\ [Next]_vars => IInv'
BY StepTypeOK, StepStructure, StepSeen, StepSequence, StepSignal DEF IInv

\* The inductive invariant holds in every reachable state.
THEOREM Invariance == Spec => []IInv
BY InitIInv, StepIInv, PTL DEF Spec

\* Type correctness of the trip file and its writers.
THEOREM TypeCorrect == Spec => []TypeOK
BY Invariance, PTL DEF IInv

\* No crash, failed write or failed reset brings back a record older than one
\* an operator was shown, so reset's sequence compare names a single trip.
THEOREM SequenceSafe == Spec => []SequenceNeverReturns
BY Invariance, PTL DEF IInv

\* Every trip stops the attempts, and unless the file could not be read, opened or
\* synced it does so only once the block survives any crash.
THEOREM SignalSafe == Spec => []TripFailsClosed
BY Invariance, PTL DEF IInv

\* A completed reset leaves the file the latch saw before its last sync.
LEMMA LatchAfterReset ==
    IInv /\ ResetSyncLatch => Latched' \in {Latched, TRUE}
BY CacheIsImage, ImagesAre
   DEF IInv, TypeOK, Files, Latched, Images, ResetSyncLatch, OpConsistent, Blocks,
       Status

\* Every step of the file implementation is a step of the abstract latch or
\* leaves it alone.
LEMMA StepLatch ==
    IInv /\ [Next]_vars => [Latch!LatchNext]_(Latch!latchVars)
<1> SUFFICES ASSUME IInv, [Next]_vars
             PROVE  [Latch!LatchNext]_(Latch!latchVars)
    OBVIOUS
<1> USE DEF Latch!LatchNext, Latch!latchVars, Latch!Raise, Latch!Acknowledge,
            Latch!Lower, Latch!EndReset
<1>0. Latched \in BOOLEAN /\ Resetting \in BOOLEAN
      /\ Latched' \in BOOLEAN /\ Resetting' \in BOOLEAN
    BY DEF Latched, Resetting
<1>1. CASE ResetBegin
  <2>1. Latched
    BY <1>1, BothLatchesBlock DEF ResetBegin, IInv, RecordUnderLatch, Status
  <2>2. ~Resetting /\ Resetting'
    BY <1>1 DEF ResetBegin, Resetting
  <2>3. Latched' = Latched
    BY <1>1, SameFileSameImages DEF ResetBegin
  <2>4. QED BY <2>1, <2>2, <2>3
<1>2. CASE ResetWriteLatch
  <2>1. Resetting /\ Resetting'
    BY <1>2 DEF ResetWriteLatch, Resetting, IInv, OpConsistent
  <2>2. CASE Latched' BY <2>1, <2>2
  <2>3. CASE ~Latched' BY <2>1, <2>3, <1>0
  <2>4. QED BY <2>2, <2>3
<1>3. CASE ResetSyncLatch
  <2>1. Resetting /\ ~Resetting'
    BY <1>3 DEF ResetSyncLatch, Resetting, IInv, OpConsistent
  <2>2. QED BY <2>1, <1>0, <1>3, LatchAfterReset
<1>4. CASE ~ResetBegin /\ ~ResetWriteLatch /\ ~ResetSyncLatch
  <2>1. Latched => Latched'
    BY <1>4, LatchHolds
  <2>2. Resetting' => Resetting
    BY <1>4 DEF Next, tripThen, writeSafetyTripRecord, vars, Resetting, StartGovernor, TripWriteLatch,
       TripOpenFails, TripReadFails, TripAlreadyBlocked, TripSyncLatch, RecordWrite,
       RecordTruncate, RecordSync, OpFails, OwnerExits, PowerLoss, Damage,
       Inspect
  <2>3. QED BY <2>1, <2>2, <1>0
<1>5. QED BY <1>1, <1>2, <1>3, <1>4

\* The two-part file implements the abstract latch: only an accepted reset
\* brings a durable trip down.
THEOREM LatchRefinement == Spec => ImplementsLatch
<1>1. Init => Latch!LatchInit
    BY ImagesAre DEF Init, Latch!LatchInit, Latched, Resetting, Blocks, Status
<1>2. QED
    BY <1>1, StepLatch, Invariance, PTL DEF Spec, ImplementsLatch,
       Latch!LatchSpec
=============================================================================
