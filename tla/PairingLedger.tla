---------------------------- MODULE PairingLedger ----------------------------
(***************************************************************************)
(* The pairing admission journal of internal/governor: pairing_ledger.go,  *)
(* pairing_ledger_format.go and hard_nat_campaign_ledger.go.               *)
(*                                                                         *)
(* An append-only file burns a credential and reserves its budget in one   *)
(* record, and gives a receipt only once that record is synced.  Every     *)
(* operation replays the whole file, so the rolling budgets, the failure   *)
(* streak and the circuit are functions of the journal and of who reads    *)
(* it.  The operations hold the owner lock; between them the process may   *)
(* die, the machine may lose power and the wall clock may jump.            *)
(***************************************************************************)
EXTENDS Integers, Sequences, FiniteSets, FiniteSetsExt, Functions, TLC

CONSTANTS
    Credentials, AttemptIDs,
    Reasons,            \* terminal reasons, "success" and some failures
    Packets,            \* packets an ordinary envelope may declare
    Interval,           \* pairingAdmissionMinimumInterval
    HourWindow, HourLimit, DayWindow, DayLimit, DayPackets,
    CampaignWindow, CampaignLimit,
    FailureLimit, CampaignFailureLimit,
    Horizon,            \* pairingAdmissionCircuitHorizon
    Skew,               \* pairingLedgerClockRollbackSkew
    MaxRecords,         \* the ceiling of the file, in records
    MaxTime,            \* bound on the wall clock
    MaxInstances,       \* bound on owner instances
    None

ASSUME LedgerConstants ==
    /\ "success" \in Reasons /\ Packets \subseteq Nat
    /\ Interval \in Nat /\ HourWindow \in Nat /\ HourLimit \in Nat
    /\ DayWindow \in Nat /\ DayLimit \in Nat /\ DayPackets \in Nat
    /\ CampaignWindow \in Nat /\ CampaignLimit \in Nat
    /\ FailureLimit \in Nat \ {0} /\ CampaignFailureLimit \in Nat \ {0}
    /\ Horizon \in Nat /\ Skew \in Nat
    /\ MaxRecords \in Nat \ {0} /\ MaxTime \in Nat /\ MaxInstances \in Nat
    /\ None \notin Credentials \cup AttemptIDs \cup Reasons

VARIABLES
    journal,    \* the complete frames a reader finds in the file
    torn,       \* an incomplete frame follows them
    synced,     \* how many of the records the last Sync covered
    owner,      \* the owner instance holding the machine lock, 0 if none
    instances,  \* owner instances so far
    receipts    \* every PairingAdmissionReceipt ever returned

vars == <<journal, torn, synced, owner, instances, receipts>>

-----------------------------------------------------------------------------
(* Records.  A record's sequence number is its index. *)

Classes == {"ordinary", "campaign"}

Types == {"initialize", "rebuild", "admit", "finish", "reset"}

First(type, at) ==
    [type |-> type, class |-> "ordinary", at |-> at, cred |-> None, att |-> None,
     by |-> 0, packets |-> 0, reason |-> None]

Admission(k, at, c, a, n) ==
    [type |-> "admit", class |-> k, at |-> at, cred |-> c, att |-> a,
     by |-> owner, packets |-> n, reason |-> None]

Terminal(k, at, c, a, why) ==
    [type |-> "finish", class |-> k, at |-> at, cred |-> c, att |-> a,
     by |-> 0, packets |-> 0, reason |-> why]

Reset(k, at) ==
    [type |-> "reset", class |-> k, at |-> at, cred |-> None, att |-> None,
     by |-> 0, packets |-> 0, reason |-> None]

\* The records of one class and type, by index.
Of(j, k, type) == {i \in DOMAIN j : j[i].class = k /\ j[i].type = type}

-----------------------------------------------------------------------------
(* failureState, as reader r sees it; r = 0 is a reader that owns nothing *)

LimitOf(k) == IF k = "campaign" THEN CampaignFailureLimit ELSE FailureLimit

LastReset(j, k) == Max({0} \cup Of(j, k, "reset"))

Finishes(j, k) == {i \in Of(j, k, "finish") : i > LastReset(j, k)}

\* Failures in a row, up to record i.
Streak(j, k, i) ==
    Cardinality({f \in Finishes(j, k) :
        f <= i /\ \A s \in Finishes(j, k) :
                     f <= s /\ s <= i => j[s].reason # "success"})

\* The terminal records that brought the streak to the limit.
Tripping(j, k) == {i \in Finishes(j, k) : Streak(j, k, i) >= LimitOf(k)}

\* Mutant: an unfinished admission is always in flight, whoever made it.
NothingAbandoned(j, k, r) == {}

\* Admissions without a terminal record that no reader's own process is still
\* working on: they count as failures, after all terminal records.
Abandoned(j, k, r) ==
    {i \in Of(j, k, "admit") :
        /\ i > LastReset(j, k)
        /\ \A f \in Of(j, k, "finish") : j[f].cred # j[i].cred
        /\ r = 0 \/ j[i].by # r}

CircuitOpen(j, k, r) ==
    \/ Tripping(j, k) # {}
    \/ Streak(j, k, Len(j)) + Cardinality(Abandoned(j, k, r)) >= LimitOf(k)

\* The record whose time is CircuitOpenedAt.
OpenedBy(j, k, r) ==
    IF Tripping(j, k) # {} THEN Min(Tripping(j, k))
    ELSE CHOOSE i \in Abandoned(j, k, r) :
            Streak(j, k, Len(j)) + Cardinality({a \in Abandoned(j, k, r) : a <= i})
               = LimitOf(k)

\* ResetCircuit's minimum horizon; the campaign circuit has none.
ResetEligible(j, k, r, now) ==
    /\ CircuitOpen(j, k, r)
    /\ k = "ordinary" => now >= j[OpenedBy(j, k, r)].at + Horizon

-----------------------------------------------------------------------------
(* buildPairingLedgerSnapshot: what makes the whole journal trustworthy *)

Prefix(j, n) == SubSeq(j, 1, n)

ValidRecord(j, i, r) ==
    /\ i > 1 => j[i].at >= j[i - 1].at
    /\ j[i].type \in {"initialize", "rebuild"} <=> i = 1
    /\ j[i].type = "admit" =>
          \A b \in 1 .. i - 1 : j[b].type = "admit" =>
              j[b].cred # j[i].cred /\ j[b].att # j[i].att
    /\ j[i].type = "finish" =>
          /\ \E b \in 1 .. i - 1 :
                /\ j[b].type = "admit" /\ j[b].cred = j[i].cred
                /\ j[b].att = j[i].att /\ j[b].class = j[i].class
          /\ \A f \in 1 .. i - 1 : j[f].type = "finish" => j[f].cred # j[i].cred
    /\ j[i].type = "reset" =>
          ResetEligible(Prefix(j, i - 1), j[i].class, r, j[i].at)

Valid(j, r) == \A i \in DOMAIN j : ValidRecord(j, i, r)

Readable == ~torn /\ Valid(journal, owner)

\* Time never runs backwards in a readable journal: its last record is its
\* highest.
HighWatermark(j) == j[Len(j)].at

\* Mutant: a small rollback of the clock is taken at face value.
EffectiveNowUnclamped(j, now) == now

\* effectiveNow: a small rollback is evaluated at the high watermark.
EffectiveNow(j, now) ==
    IF now < HighWatermark(j) THEN HighWatermark(j) ELSE now

ClockUsable(now) == now + Skew >= HighWatermark(journal)

-----------------------------------------------------------------------------
(* statusAt and admissionError: the rolling budgets at time now *)

Within(j, k, window, now) == {i \in Of(j, k, "admit") : j[i].at > now - window}

\* A rebuilt journal starts with every budget consumed.
Rebuilt(j, window, now) == j[1].type = "rebuild" /\ now < j[1].at + window

PacketsOf(j, S) == FoldFunctionOnSet(+, 0, [i \in DOMAIN j |-> j[i].packets], S)

\* Mutant: the day's packets are checked without the new envelope.
OrdinaryBudgetIgnoresEnvelope(j, now, n) ==
    /\ \A i \in Of(j, "ordinary", "admit") : now >= j[i].at + Interval
    /\ ~Rebuilt(j, Interval, now) /\ ~Rebuilt(j, HourWindow, now)
    /\ Cardinality(Within(j, "ordinary", HourWindow, now)) < HourLimit
    /\ ~Rebuilt(j, DayWindow, now)
    /\ Cardinality(Within(j, "ordinary", DayWindow, now)) < DayLimit
    /\ PacketsOf(j, Within(j, "ordinary", DayWindow, now)) < DayPackets

OrdinaryBudget(j, now, n) ==
    /\ \A i \in Of(j, "ordinary", "admit") : now >= j[i].at + Interval
    /\ ~Rebuilt(j, Interval, now) /\ ~Rebuilt(j, HourWindow, now)
    /\ Cardinality(Within(j, "ordinary", HourWindow, now)) < HourLimit
    /\ ~Rebuilt(j, DayWindow, now)
    /\ Cardinality(Within(j, "ordinary", DayWindow, now)) < DayLimit
    /\ PacketsOf(j, Within(j, "ordinary", DayWindow, now)) + n <= DayPackets

CampaignBudget(j, now) ==
    /\ ~Rebuilt(j, CampaignWindow, now)
    /\ Cardinality(Within(j, "campaign", CampaignWindow, now)) < CampaignLimit

\* An open ordinary circuit blocks the campaign too, but not the reverse.
Admissible(k, now, n) ==
    /\ ~CircuitOpen(journal, "ordinary", owner)
    /\ k = "ordinary" => OrdinaryBudget(journal, now, n)
    /\ k = "campaign" => /\ ~CircuitOpen(journal, "campaign", owner)
                         /\ CampaignBudget(journal, now)

\* Mutant: the ceiling is off by one.
RoomOffByOne(n) == Len(journal) + n <= MaxRecords + 1

\* ensureAdmissionCapacity asks for two records, ensureRecordCapacity for one.
Room(n) == Len(journal) + n <= MaxRecords

-----------------------------------------------------------------------------
(* Appending: synced, written but not known to be synced, or torn *)

\* Mutant: an append that does not sync.
AppendUnsynced(rec, outcome) ==
    /\ journal' = IF outcome = "torn" THEN journal ELSE Append(journal, rec)
    /\ torn' = (outcome = "torn")
    /\ UNCHANGED synced

\* appendPairingJournalFrame
AppendFrame(rec, outcome) ==
    /\ journal' = IF outcome = "torn" THEN journal ELSE Append(journal, rec)
    /\ torn' = (outcome = "torn")
    /\ synced' = IF outcome = "synced" THEN Len(journal) + 1 ELSE synced

Outcomes == {"synced", "unsynced", "torn"}

-----------------------------------------------------------------------------
Init ==
    /\ \E type \in {"initialize", "rebuild"} : journal = <<First(type, 0)>>
    /\ torn = FALSE
    /\ synced = 1
    /\ owner = 0
    /\ instances = 0
    /\ receipts = {}

AcquireOwner ==
    /\ owner = 0
    /\ instances < MaxInstances
    /\ owner' = instances + 1
    /\ instances' = instances + 1
    /\ UNCHANGED <<journal, torn, synced, receipts>>

\* Owner.Close, or the process dies: what is in the page cache stays.
ReleaseOwner ==
    /\ owner # 0
    /\ owner' = 0
    /\ UNCHANGED <<journal, torn, synced, instances, receipts>>

\* Records after the last sync may be lost, the first lost one may be torn.
PowerLoss ==
    /\ \E n \in synced .. Len(journal) :
          /\ journal' = Prefix(journal, n)
          /\ torn' \in IF n < Len(journal) \/ torn THEN BOOLEAN ELSE {FALSE}
          /\ synced' = n
    /\ owner' = 0
    /\ UNCHANGED <<instances, receipts>>

\* Admit: the receipt follows the sync and a verifying read.
Admit(k, c, a, n, now) ==
    LET at == EffectiveNow(journal, now)
    IN  /\ owner # 0 /\ Readable /\ ClockUsable(now)
        /\ \A i \in DOMAIN journal :
              journal[i].type = "admit" => journal[i].cred # c /\ journal[i].att # a
        /\ Admissible(k, at, n)
        /\ Room(2)
        /\ \E outcome \in Outcomes :
              /\ AppendFrame(Admission(k, at, c, a, n), outcome)
              /\ receipts' =
                    IF outcome = "synced" /\ Valid(journal', owner)
                    THEN receipts \cup {[class |-> k, cred |-> c, att |-> a,
                                         by |-> owner, seq |-> Len(journal')]}
                    ELSE receipts
        /\ UNCHANGED <<owner, instances>>

\* A receipt whose admission this owner may still finish.
Unfinished(rc) ==
    /\ rc.by = owner
    /\ rc.seq \in DOMAIN journal /\ journal[rc.seq].cred = rc.cred
    /\ \A f \in DOMAIN journal :
          journal[f].type = "finish" => journal[f].cred # rc.cred

\* Finish: the first terminal reason; a second one changes nothing.
Finish(rc, why, now) ==
    /\ owner # 0 /\ Readable /\ ClockUsable(now)
    /\ Unfinished(rc)
    /\ Room(1)
    /\ \E outcome \in Outcomes :
          AppendFrame(Terminal(rc.class, EffectiveNow(journal, now), rc.cred,
                               rc.att, why), outcome)
    /\ UNCHANGED <<owner, instances, receipts>>

\* ResetCircuit and ResetHardNATCampaignCircuit, with the current sequence.
ResetCircuit(k, now) ==
    LET at == EffectiveNow(journal, now)
    IN  /\ owner # 0 /\ Readable /\ ClockUsable(now)
        /\ ResetEligible(journal, k, owner, at)
        /\ Room(1)
        /\ \E outcome \in Outcomes : AppendFrame(Reset(k, at), outcome)
        /\ UNCHANGED <<owner, instances, receipts>>

Next ==
    \/ AcquireOwner \/ ReleaseOwner \/ PowerLoss
    \/ \E now \in 0 .. MaxTime :
          \/ \E c \in Credentials, a \in AttemptIDs :
                \/ \E n \in Packets : Admit("ordinary", c, a, n, now)
                \/ Admit("campaign", c, a, 0, now)
          \/ \E rc \in receipts, why \in Reasons : Finish(rc, why, now)
          \/ \E k \in Classes : ResetCircuit(k, now)

Spec == Init /\ [][Next]_vars

\* Credentials and attempts are interchangeable.
Sym == Permutations(Credentials) \cup Permutations(AttemptIDs)

-----------------------------------------------------------------------------
(* Properties *)

JournalRecords ==
    [type : Types, class : Classes, at : Nat, cred : Credentials \cup {None},
     att : AttemptIDs \cup {None}, by : Nat, packets : Nat,
     reason : Reasons \cup {None}]

Receipts == [class : Classes, cred : Credentials, att : AttemptIDs, by : Nat,
             seq : Nat]

TypeOK ==
    /\ journal \in Seq(JournalRecords)
    /\ Len(journal) <= MaxRecords
    /\ torn \in BOOLEAN
    /\ synced \in 1 .. Len(journal)
    /\ owner \in Nat /\ instances \in Nat /\ owner <= instances
    /\ receipts \subseteq Receipts

\* A credential or an attempt id authorizes one attempt, ever: no crash, power
\* loss or failed write lets Admit return a second receipt for it.
BurnOnce ==
    \A r, s \in receipts : r.cred = s.cred \/ r.att = s.att => r = s

\* No sequence of legal operations, of any owners with any clocks, leaves a
\* journal that the current owner, the next one or a reader that owns nothing
\* rejects when it replays it: only a torn frame does.
JournalReadable ==
    \A r \in {0, instances + 1} \cup (IF owner = 0 THEN {} ELSE {owner}) :
        Valid(journal, r)

\* Wherever the wall clock jumps and whoever restarts, journal time never holds
\* more admissions or packets in a window than the compiled budgets.
BudgetNeverExceeded ==
    \A i \in Of(journal, "ordinary", "admit") :
        LET now    == journal[i].at
            upTo   == Prefix(journal, i)
            within == Within(upTo, "ordinary", DayWindow, now)
        IN  /\ \A b \in Of(upTo, "ordinary", "admit") \ {i} :
                  now >= journal[b].at + Interval
            /\ Cardinality(Within(upTo, "ordinary", HourWindow, now)) <= HourLimit
            /\ Cardinality(within) <= DayLimit
            /\ PacketsOf(upTo, within) <= DayPackets

\* No admission was in flight at a reset, which forgives what is in flight.
ResetsWereQuiet(k) ==
    \A s \in Of(journal, k, "reset"), i \in Of(journal, k, "admit") :
        i < s => \E f \in Of(journal, k, "finish") :
                    f < s /\ journal[f].cred = journal[i].cred

\* A crash forgives nothing: if the circuit is open, it is open for the next
\* owner in every crash image that still holds the admissions.  A lost terminal
\* record turns its admission into an abandoned one, which counts as much.
CrashNeverForgives ==
    \A k \in Classes :
        CircuitOpen(journal, k, owner) /\ ResetsWereQuiet(k) =>
            \A n \in synced .. Len(journal) :
                (\A i \in Of(journal, k, "admit") : i <= n) =>
                    CircuitOpen(Prefix(journal, n), k, 0)

\* "Later time or a late success does not clear it; only an eligible explicit
\* reset record does": while one owner holds the lock, an open circuit closes
\* only by a reset record.
OnlyResetCloses ==
    [][\A k \in Classes :
          /\ owner # 0 /\ owner' = owner
          /\ CircuitOpen(journal, k, owner) /\ ~CircuitOpen(journal', k, owner)
          => journal'[Len(journal')].type = "reset"]_vars

\* The six-hour horizon: a reset record of the ordinary circuit is at least
\* Horizon after the record that opened the circuit, where that is the first
\* record from which every prefix up to the reset shows it open.
ResetWaitsHorizon ==
    \A i \in Of(journal, "ordinary", "reset") : \A b \in 1 .. i - 1 :
        (/\ \A m \in b .. i - 1 : CircuitOpen(Prefix(journal, m), "ordinary", 0)
         /\ ~CircuitOpen(Prefix(journal, b - 1), "ordinary", 0))
        => journal[i].at >= journal[b].at + Horizon
=============================================================================
