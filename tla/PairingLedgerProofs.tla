------------------------- MODULE PairingLedgerProofs -------------------------
(***************************************************************************)
(* Proofs about the pairing admission journal, for any number of           *)
(* credentials, owners, records, crash points and clocks: it burns a       *)
(* credential once, every reader accepts it, its budgets hold in journal   *)
(* time and a crash forgives no failure.                                   *)
(***************************************************************************)
EXTENDS PairingLedger, FiniteSums, SequenceTheorems

\* No two admissions of the file share a credential or an attempt id.
Admissions == {i \in DOMAIN journal : journal[i].type = "admit"}

DistinctBurns ==
    \A i, b \in Admissions :
        journal[i].cred = journal[b].cred \/ journal[i].att = journal[b].att
            => i = b

\* A receipt's admission record is one of those no power loss can take away.
ReceiptsDurable ==
    \A rc \in receipts :
        /\ rc.seq \in 1 .. synced
        /\ journal[rc.seq].type = "admit" /\ journal[rc.seq].class = rc.class
        /\ journal[rc.seq].cred = rc.cred /\ journal[rc.seq].att = rc.att
        /\ journal[rc.seq].by = rc.by

IInv == TypeOK /\ DistinctBurns /\ ReceiptsDurable

-----------------------------------------------------------------------------
USE DEF Types, Classes, Outcomes

\* The records the operations write are journal records.
LEMMA RecordTypes ==
    ASSUME TypeOK, NEW k \in Classes, NEW at \in Nat, NEW c \in Credentials,
           NEW a \in AttemptIDs, NEW n \in Nat, NEW why \in Reasons,
           NEW t \in {"initialize", "rebuild"}
    PROVE  /\ First(t, at) \in JournalRecords
           /\ Admission(k, at, c, a, n) \in JournalRecords
           /\ Terminal(k, at, c, a, why) \in JournalRecords
           /\ Reset(k, at) \in JournalRecords
<1>1. owner \in Nat
  BY DEF TypeOK
<1>2. QED
  BY <1>1 DEF First, Admission, Terminal, Reset, JournalRecords

\* The effective time of an operation is a time.
LEMMA EffectiveNowType ==
    ASSUME TypeOK, NEW now \in Nat
    PROVE  EffectiveNow(journal, now) \in Nat
<1>1. Len(journal) \in DOMAIN journal
  BY DEF TypeOK
<1>2. journal[Len(journal)] \in JournalRecords
  BY <1>1 DEF TypeOK
<1>3. HighWatermark(journal) \in Nat
  BY <1>2 DEF HighWatermark, JournalRecords
<1>4. QED
  BY <1>3 DEF EffectiveNow

\* Appending one record of the right type, whatever becomes of the write.
LEMMA AppendKeepsType ==
    ASSUME TypeOK, NEW rec \in JournalRecords, NEW outcome \in Outcomes,
           Room(1), AppendFrame(rec, outcome)
    PROVE  /\ journal' \in Seq(JournalRecords) /\ Len(journal') <= MaxRecords
           /\ torn' \in BOOLEAN
           /\ synced' \in 1 .. Len(journal') /\ synced' >= synced
           /\ Len(journal') >= Len(journal)
           /\ \A i \in DOMAIN journal : i \in DOMAIN journal' /\ journal'[i] = journal[i]
<1>0. journal \in Seq(JournalRecords) /\ Len(journal) \in Nat
      /\ synced \in 1 .. Len(journal) /\ Len(journal) <= MaxRecords
      /\ MaxRecords \in Nat
  BY LedgerConstants DEF TypeOK
<1>t. torn' \in BOOLEAN
  BY Zenon DEF AppendFrame
<1>1. CASE outcome = "torn"
  <2>1. journal' = journal /\ synced' = synced
    BY <1>1 DEF AppendFrame
  <2>2. QED
    BY <1>0, <1>t, <2>1
<1>2. CASE outcome # "torn"
  <2>1. journal' = Append(journal, rec)
    BY <1>2 DEF AppendFrame
  <2>2. synced' = Len(journal) + 1 \/ synced' = synced
    BY DEF AppendFrame
  <2>3. Len(journal) + 1 <= MaxRecords
    BY DEF Room
  <2>4. Len(journal') = Len(journal) + 1 /\ journal' \in Seq(JournalRecords)
    BY <1>0, <2>1
  <2>5. \A i \in DOMAIN journal : i \in DOMAIN journal' /\ journal'[i] = journal[i]
    BY <1>0, <2>1
  <2>6. QED
    BY <1>0, <1>t, <2>2, <2>3, <2>4, <2>5
<1>3. QED
  BY <1>1, <1>2

\* What a record that is no admission leaves of the invariant.
LEMMA AppendOther ==
    ASSUME IInv, NEW rec \in JournalRecords, NEW outcome \in Outcomes,
           Room(1), AppendFrame(rec, outcome), rec.type # "admit",
           UNCHANGED <<owner, instances, receipts>>
    PROVE  IInv'
<1>0. TypeOK /\ DistinctBurns /\ ReceiptsDurable
  BY DEF IInv
<1>1. /\ journal' \in Seq(JournalRecords) /\ Len(journal') <= MaxRecords
      /\ torn' \in BOOLEAN
      /\ synced' \in 1 .. Len(journal') /\ synced' >= synced
      /\ \A i \in DOMAIN journal : i \in DOMAIN journal' /\ journal'[i] = journal[i]
  BY <1>0, AppendKeepsType
<1>2. TypeOK'
  BY <1>0, <1>1 DEF TypeOK
<1>3. \A i \in DOMAIN journal' : i \in DOMAIN journal \/ journal'[i] = rec
  BY <1>0 DEF AppendFrame, TypeOK
<1>4. Admissions' = Admissions
  BY <1>1, <1>3 DEF Admissions
<1>5. DistinctBurns'
  BY <1>0, <1>1, <1>4 DEF DistinctBurns, Admissions
<1>6. ReceiptsDurable'
  <2> SUFFICES ASSUME NEW rc \in receipts
               PROVE  /\ rc.seq \in 1 .. synced'
                      /\ journal'[rc.seq].type = "admit"
                      /\ journal'[rc.seq].class = rc.class
                      /\ journal'[rc.seq].cred = rc.cred
                      /\ journal'[rc.seq].att = rc.att
                      /\ journal'[rc.seq].by = rc.by
    BY DEF ReceiptsDurable
  <2>1. rc.seq \in 1 .. synced /\ rc.seq \in DOMAIN journal
    BY <1>0 DEF ReceiptsDurable, TypeOK
  <2>2. QED
    BY <1>0, <1>1, <2>1 DEF ReceiptsDurable, TypeOK
<1>7. QED
  BY <1>2, <1>5, <1>6 DEF IInv

-----------------------------------------------------------------------------
\* The first record of the file admits nothing.
LEMMA InitInv == Init => IInv
<1> SUFFICES ASSUME Init PROVE IInv
  OBVIOUS
<1>1. PICK type \in {"initialize", "rebuild"} : journal = <<First(type, 0)>>
  BY DEF Init
<1>2. First(type, 0) \in JournalRecords
  BY DEF First, JournalRecords
<1>3. journal \in Seq(JournalRecords) /\ Len(journal) = 1 /\ journal[1] = First(type, 0)
  BY <1>1, <1>2
<1>4. TypeOK
  <2>1. torn \in BOOLEAN /\ receipts \subseteq Receipts
    BY Zenon DEF Init
  <2>2. Len(journal) <= MaxRecords
    BY <1>3, LedgerConstants
  <2>3. synced = 1 /\ owner = 0 /\ instances = 0
    BY DEF Init
  <2>4. synced \in 1 .. Len(journal) /\ owner \in Nat /\ instances \in Nat
        /\ owner <= instances
    BY <1>3, <2>3
  <2>5. QED
    BY <1>3, <2>1, <2>2, <2>4 DEF TypeOK
<1>5. Admissions = {}
  BY <1>3 DEF Admissions, First
<1>6. QED
  BY <1>4, <1>5 DEF Init, IInv, DistinctBurns, ReceiptsDurable

\* Power loss takes records no receipt rests on.
LEMMA PowerLossInv == ASSUME IInv, PowerLoss PROVE IInv'
<1>0. TypeOK /\ DistinctBurns /\ ReceiptsDurable
  BY DEF IInv
<1>1. PICK n \in synced .. Len(journal) :
          /\ journal' = Prefix(journal, n)
          /\ torn' \in IF n < Len(journal) \/ torn THEN BOOLEAN ELSE {FALSE}
          /\ synced' = n
  BY DEF PowerLoss
<1>2. journal \in Seq(JournalRecords) /\ Len(journal) \in Nat /\ synced \in 1 .. Len(journal)
      /\ n \in 1 .. Len(journal)
  BY <1>0 DEF TypeOK
<1>3. journal' \in Seq(JournalRecords) /\ Len(journal') = n
      /\ \A i \in 1 .. n : journal'[i] = journal[i]
  BY <1>1, <1>2 DEF Prefix
<1>4. torn' \in BOOLEAN
  BY <1>1, Zenon
<1>5. owner' \in Nat /\ owner' <= instances' /\ instances' \in Nat
  BY <1>0 DEF PowerLoss, TypeOK
<1>6. TypeOK'
  BY <1>0, <1>1, <1>2, <1>3, <1>4, <1>5, LedgerConstants DEF TypeOK, PowerLoss
<1>7. DistinctBurns'
  BY <1>0, <1>2, <1>3 DEF DistinctBurns, Admissions
<1>8. ReceiptsDurable'
  BY <1>0, <1>1, <1>2, <1>3 DEF ReceiptsDurable, PowerLoss
<1>9. QED
  BY <1>6, <1>7, <1>8 DEF IInv

\* Admit burns a credential that no record of the file has burned.
LEMMA AdmitInv ==
    ASSUME IInv, NEW k \in Classes, NEW c \in Credentials, NEW a \in AttemptIDs,
           NEW n \in Nat, NEW now \in Nat, Admit(k, c, a, n, now)
    PROVE  IInv'
<1> DEFINE at  == EffectiveNow(journal, now)
           rec == Admission(k, at, c, a, n)
           rcNew == [class |-> k, cred |-> c, att |-> a, by |-> owner,
                     seq |-> Len(journal')]
<1>0. TypeOK /\ DistinctBurns /\ ReceiptsDurable
  BY DEF IInv
<1>1. rec \in JournalRecords
  BY <1>0, EffectiveNowType, RecordTypes, LedgerConstants
<1>2. /\ rec.type = "admit" /\ rec.class = k /\ rec.cred = c /\ rec.att = a
      /\ rec.by = owner
  BY DEF Admission
<1>3. PICK outcome \in Outcomes :
          /\ AppendFrame(rec, outcome)
          /\ receipts' = IF outcome = "synced" /\ Valid(journal', owner)
                         THEN receipts \cup {rcNew} ELSE receipts
  BY DEF Admit
<1>4. /\ UNCHANGED <<owner, instances>>
      /\ \A i \in Admissions : journal[i].cred # c /\ journal[i].att # a
  BY DEF Admit, Admissions
<1> HIDE DEF at, rec
<1>5. Room(1) /\ Len(journal) \in Nat /\ owner \in Nat
  BY <1>0, LedgerConstants DEF Admit, Room, TypeOK
<1>6. /\ journal' \in Seq(JournalRecords) /\ Len(journal') <= MaxRecords
      /\ torn' \in BOOLEAN
      /\ synced' \in 1 .. Len(journal') /\ synced' >= synced
      /\ \A i \in DOMAIN journal : i \in DOMAIN journal' /\ journal'[i] = journal[i]
  BY <1>0, <1>1, <1>3, <1>5, AppendKeepsType
<1>7. /\ \A i \in DOMAIN journal' : i \in DOMAIN journal
                                    \/ (journal'[i] = rec /\ i = Len(journal) + 1)
      /\ outcome = "synced" =>
             /\ Len(journal') = Len(journal) + 1 /\ synced' = Len(journal')
             /\ journal'[Len(journal')] = rec
  <2>1. journal \in Seq(JournalRecords)
    BY <1>0 DEF TypeOK
  <2>2. QED
    BY <1>1, <1>3, <1>5, <2>1 DEF AppendFrame
<1>8. rcNew \in Receipts
  <2>1. Len(journal') \in Nat
    BY <1>6
  <2>2. QED
    BY <1>5, <2>1 DEF Receipts
<1>9. receipts' \subseteq Receipts
  BY <1>0, <1>3, <1>8 DEF TypeOK
<1>10. TypeOK'
  BY <1>0, <1>4, <1>6, <1>9 DEF TypeOK
<1>11. DistinctBurns'
  <2> SUFFICES ASSUME NEW i \in Admissions', NEW b \in Admissions',
                      journal'[i].cred = journal'[b].cred
                         \/ journal'[i].att = journal'[b].att
               PROVE  i = b
    BY DEF DistinctBurns
  <2>1. i \in DOMAIN journal' /\ b \in DOMAIN journal'
        /\ journal'[i].type = "admit" /\ journal'[b].type = "admit"
    BY DEF Admissions
  <2>2. CASE i \in DOMAIN journal /\ b \in DOMAIN journal
    BY <1>0, <1>6, <2>1, <2>2 DEF DistinctBurns, Admissions
  <2>3. CASE i \notin DOMAIN journal /\ b \notin DOMAIN journal
    BY <1>7, <2>1, <2>3
  <2>4. CASE i \in DOMAIN journal /\ b \notin DOMAIN journal
    BY <1>2, <1>4, <1>6, <1>7, <2>1, <2>4 DEF Admissions
  <2>5. CASE i \notin DOMAIN journal /\ b \in DOMAIN journal
    BY <1>2, <1>4, <1>6, <1>7, <2>1, <2>5 DEF Admissions
  <2>6. QED
    BY <2>2, <2>3, <2>4, <2>5
<1>12. ReceiptsDurable'
  <2> SUFFICES ASSUME NEW rc \in receipts'
               PROVE  /\ rc.seq \in 1 .. synced'
                      /\ journal'[rc.seq].type = "admit"
                      /\ journal'[rc.seq].class = rc.class
                      /\ journal'[rc.seq].cred = rc.cred
                      /\ journal'[rc.seq].att = rc.att
                      /\ journal'[rc.seq].by = rc.by
    BY DEF ReceiptsDurable
  <2>1. CASE rc \in receipts
    <3>1. rc.seq \in 1 .. synced /\ rc.seq \in DOMAIN journal
      BY <1>0, <2>1 DEF ReceiptsDurable, TypeOK
    <3>2. QED
      BY <1>0, <1>6, <2>1, <3>1 DEF ReceiptsDurable, TypeOK
  <2>2. CASE rc \notin receipts
    <3>1. rc = rcNew /\ outcome = "synced"
      BY <1>3, <2>2
    <3>2. rc.seq = Len(journal') /\ rc.class = k /\ rc.cred = c /\ rc.att = a
          /\ rc.by = owner
      BY <3>1
    <3>3. QED
      BY <1>2, <1>6, <1>7, <3>1, <3>2
  <2>3. QED
    BY <2>1, <2>2
<1>13. QED
  BY <1>10, <1>11, <1>12 DEF IInv

\* Finish appends a terminal record.
LEMMA FinishInv ==
    ASSUME IInv, NEW rc \in receipts, NEW why \in Reasons, NEW now \in Nat,
           Finish(rc, why, now)
    PROVE  IInv'
<1> DEFINE rec == Terminal(rc.class, EffectiveNow(journal, now), rc.cred, rc.att, why)
<1>0. TypeOK
  BY DEF IInv
<1>1. rc.class \in Classes /\ rc.cred \in Credentials /\ rc.att \in AttemptIDs
  BY <1>0 DEF TypeOK, Receipts
<1>2. rec \in JournalRecords
  BY <1>0, <1>1, EffectiveNowType, RecordTypes
<1>3. rec.type # "admit"
  BY DEF Terminal
<1>4. PICK outcome \in Outcomes : AppendFrame(rec, outcome)
  BY DEF Finish
<1>5. Room(1) /\ UNCHANGED <<owner, instances, receipts>>
  BY DEF Finish
<1> HIDE DEF rec
<1>6. QED
  BY <1>2, <1>3, <1>4, <1>5, AppendOther

\* A reset appends a reset record.
LEMMA ResetInv ==
    ASSUME IInv, NEW k \in Classes, NEW now \in Nat, ResetCircuit(k, now)
    PROVE  IInv'
<1> DEFINE rec == Reset(k, EffectiveNow(journal, now))
<1>0. TypeOK
  BY DEF IInv
<1>1. EffectiveNow(journal, now) \in Nat
  BY <1>0, EffectiveNowType
<1>2. rec \in JournalRecords
  BY <1>1 DEF Reset, JournalRecords
<1>3. rec.type # "admit"
  BY DEF Reset
<1>4. PICK outcome \in Outcomes : AppendFrame(rec, outcome)
  BY DEF ResetCircuit
<1>5. Room(1) /\ UNCHANGED <<owner, instances, receipts>>
  BY DEF ResetCircuit
<1> HIDE DEF rec
<1>6. QED
  BY <1>2, <1>3, <1>4, <1>5, AppendOther

\* No step breaks the first invariant.
LEMMA StepInv == ASSUME IInv, [Next]_vars PROVE IInv'
<1>0. TypeOK /\ DistinctBurns /\ ReceiptsDurable
  BY DEF IInv
<1>1. CASE AcquireOwner
  <2>1. TypeOK'
    BY <1>0, <1>1 DEF AcquireOwner, TypeOK
  <2>2. QED
    BY <1>0, <1>1, <2>1 DEF AcquireOwner, IInv, DistinctBurns, Admissions,
                            ReceiptsDurable
<1>2. CASE ReleaseOwner
  <2>1. TypeOK'
    BY <1>0, <1>2 DEF ReleaseOwner, TypeOK
  <2>2. QED
    BY <1>0, <1>2, <2>1 DEF ReleaseOwner, IInv, DistinctBurns, Admissions,
                            ReceiptsDurable
<1>3. CASE PowerLoss
  BY <1>3, PowerLossInv
<1>4. ASSUME NEW now \in 0 .. MaxTime, NEW c \in Credentials, NEW a \in AttemptIDs,
             NEW n \in Packets, Admit("ordinary", c, a, n, now)
      PROVE  IInv'
  <2>1. now \in Nat /\ n \in Nat
    BY LedgerConstants
  <2>2. QED
    BY <1>4, <2>1, AdmitInv
<1>5. ASSUME NEW now \in 0 .. MaxTime, NEW c \in Credentials, NEW a \in AttemptIDs,
             Admit("campaign", c, a, 0, now)
      PROVE  IInv'
  <2>1. now \in Nat
    BY LedgerConstants
  <2>2. QED
    BY <1>5, <2>1, AdmitInv
<1>6. ASSUME NEW now \in 0 .. MaxTime, NEW rc \in receipts, NEW why \in Reasons,
             Finish(rc, why, now)
      PROVE  IInv'
  <2>1. now \in Nat
    BY LedgerConstants
  <2>2. QED
    BY <1>6, <2>1, FinishInv
<1>7. ASSUME NEW now \in 0 .. MaxTime, NEW k \in Classes, ResetCircuit(k, now)
      PROVE  IInv'
  <2>1. now \in Nat
    BY LedgerConstants
  <2>2. QED
    BY <1>7, <2>1, ResetInv
<1>8. CASE UNCHANGED vars
  <2>1. TypeOK'
    BY <1>0, <1>8 DEF vars, TypeOK
  <2>2. QED
    BY <1>0, <1>8, <2>1 DEF vars, IInv, DistinctBurns, Admissions, ReceiptsDurable
<1>9. QED
  BY <1>1, <1>2, <1>3, <1>4, <1>5, <1>6, <1>7, <1>8 DEF Next

\* The inductive invariant holds in every state of every behaviour.
THEOREM Invariance == Spec => []IInv
<1>1. IInv /\ [Next]_vars => IInv'
  BY StepInv
<1>2. QED
  BY InitInv, <1>1, PTL DEF Spec

\* The state of the journal, its owner and its receipts keeps its type, and the
\* file never outgrows its ceiling.
THEOREM TypeCorrect == Spec => []TypeOK
<1>1. IInv => TypeOK
  BY DEF IInv
<1>2. QED
  BY Invariance, <1>1, PTL

\* Admit never returns two receipts for one credential or one attempt id,
\* whatever crashes, power losses and failed writes lie between.
THEOREM BurnsOnce == Spec => []BurnOnce
<1>1. IInv => BurnOnce
  <2> SUFFICES ASSUME IInv, NEW r \in receipts, NEW s \in receipts,
                      r.cred = s.cred \/ r.att = s.att
               PROVE  r = s
    BY DEF BurnOnce
  <2>0. TypeOK /\ DistinctBurns /\ ReceiptsDurable
    BY DEF IInv
  <2>1. r.seq \in Admissions /\ s.seq \in Admissions
    BY <2>0 DEF ReceiptsDurable, Admissions, TypeOK
  <2>2. r.seq = s.seq
    BY <2>0, <2>1 DEF ReceiptsDurable, DistinctBurns
  <2>3. r.class = s.class /\ r.cred = s.cred /\ r.att = s.att /\ r.by = s.by
    BY <2>0, <2>2 DEF ReceiptsDurable
  <2>4. r \in Receipts /\ s \in Receipts
    BY <2>0 DEF TypeOK
  <2>5. QED
    BY <2>2, <2>3, <2>4 DEF Receipts
<1>2. QED
  BY Invariance, <1>1, PTL

-----------------------------------------------------------------------------
(* Prefixes: what a replay of the journal sees *)

Journals == Seq(JournalRecords)

\* Two journals with the same first records have the same prefix.
LEMMA SamePrefix ==
    ASSUME NEW j \in Journals, NEW l \in Journals, NEW n \in Nat,
           n <= Len(j), n <= Len(l), \A i \in 1 .. n : j[i] = l[i]
    PROVE  Prefix(j, n) = Prefix(l, n)
BY DEF Prefix, Journals

\* A prefix is a journal.
LEMMA PrefixIs ==
    ASSUME NEW j \in Journals, NEW n \in 0 .. Len(j)
    PROVE  /\ Prefix(j, n) \in Journals /\ Len(Prefix(j, n)) = n
           /\ DOMAIN Prefix(j, n) = 1 .. n
           /\ \A i \in 1 .. n : Prefix(j, n)[i] = j[i]
BY DEF Prefix, Journals

\* What a replay says of a record depends on the records before it only.
LEMMA SameVerdict ==
    ASSUME NEW j \in Journals, NEW l \in Journals, NEW i \in DOMAIN j, i \in DOMAIN l,
           \A b \in 1 .. i : j[b] = l[b], NEW r, ValidRecord(j, i, r)
    PROVE  ValidRecord(l, i, r)
<1>1. i \in Nat /\ i >= 1 /\ i - 1 \in Nat /\ i - 1 <= Len(j) /\ i - 1 <= Len(l)
    BY DEF Journals
<1>2. \A b \in 1 .. i - 1 : j[b] = l[b] /\ b \in 1 .. i BY <1>1
<1>3. Prefix(j, i - 1) = Prefix(l, i - 1) BY <1>1, <1>2, SamePrefix
<1>4. j[i] = l[i] /\ (i > 1 => j[i - 1] = l[i - 1]) BY <1>1
<1>5. QED BY <1>2, <1>3, <1>4, Zenon DEF ValidRecord

-----------------------------------------------------------------------------
(* Ranks: the record that opened a circuit *)

UpTo(A, i) == {a \in A : a <= i}

\* A bounded set of numbers has a greatest one.
LEMMA Greatest ==
    ASSUME NEW N \in Nat, NEW A \in SUBSET (0 .. N), A # {}
    PROVE  \E x \in A : \A y \in A : y <= x
<1> DEFINE T == {N - x : x \in A}
<1>0. \A x \in A : x \in Nat /\ N - x \in Nat OBVIOUS
<1>1. T \subseteq Nat /\ T # {} BY <1>0
<1>2. PICK t \in T : \A s \in T : t <= s BY <1>1, LeastNat
<1>3. PICK x \in A : t = N - x OBVIOUS
<1>4. \A y \in A : N - y \in T OBVIOUS
<1> HIDE DEF T
<1>5. \A y \in A : N - x <= N - y BY <1>2, <1>3, <1>4
<1>6. QED BY <1>5

\* A set of numbers and its parts are finite.
LEMMA Bounded ==
    ASSUME NEW N \in Nat, NEW A \in SUBSET (0 .. N)
    PROVE  /\ IsFiniteSet(A) /\ Cardinality(A) \in Nat
           /\ \A B \in SUBSET A : /\ IsFiniteSet(B) /\ Cardinality(B) \in Nat
                                  /\ Cardinality(B) <= Cardinality(A)
<1>1. IsFiniteSet(0 .. N) BY FS_Interval
<1>2. IsFiniteSet(A) BY <1>1, FS_Subset
<1>3. \A B \in SUBSET A : IsFiniteSet(B) /\ Cardinality(B) <= Cardinality(A)
    BY <1>2, FS_Subset
<1>4. QED BY <1>2, <1>3, FS_CardinalityType

\* A set of m elements or more has one of rank m.
LEMMA RankExists ==
    ASSUME NEW N \in Nat, NEW A \in SUBSET (0 .. N), NEW m \in Nat \ {0},
           m <= Cardinality(A)
    PROVE  \E i \in A : Cardinality(UpTo(A, i)) = m
<1> DEFINE T == {i \in A : Cardinality(UpTo(A, i)) >= m}
<1>0. IsFiniteSet(A) /\ Cardinality(A) \in Nat BY Bounded
<1>n. A \subseteq Nat OBVIOUS
<1>1. A # {} BY <1>0, FS_EmptySet
<1>2. PICK x \in A : \A y \in A : y <= x BY <1>1, Greatest
<1>3. UpTo(A, x) = A BY <1>2 DEF UpTo
<1>4. x \in T BY <1>3
<1>5. PICK i \in T : \A y \in T : i <= y
  <2>1. T \subseteq Nat /\ T # {} BY <1>n, <1>4
  <2>2. QED BY <2>1, LeastNat
<1>6. i \in A /\ Cardinality(UpTo(A, i)) >= m /\ i \in Nat BY <1>n
<1>7. UpTo(A, i) \in SUBSET (0 .. N) BY DEF UpTo
<1>8. Cardinality(UpTo(A, i)) \in Nat BY <1>7, Bounded
<1>9. ASSUME Cardinality(UpTo(A, i)) # m PROVE FALSE
  <2> DEFINE B == UpTo(A, i) \ {i}
  <2>1. IsFiniteSet(UpTo(A, i)) /\ i \in UpTo(A, i) BY <1>6, <1>7, Bounded DEF UpTo
  <2>2. Cardinality(B) = Cardinality(UpTo(A, i)) - 1 /\ IsFiniteSet(B)
    BY <2>1, FS_RemoveElement
  <2>3. Cardinality(B) >= m BY <1>6, <1>8, <1>9, <2>2
  <2>4. B # {} BY <2>2, <2>3, FS_EmptySet
  <2>5. B \in SUBSET (0 .. N) BY <1>7
  <2> HIDE DEF B
  <2>6. PICK y \in B : \A z \in B : z <= y BY <2>4, <2>5, Greatest
  <2>7. y \in A /\ y < i BY <1>n, <1>6, <2>6 DEF B, UpTo
  <2>8. UpTo(A, y) = B
    <3>1. ASSUME NEW a \in A, a <= y PROVE a \in B
      BY <1>n, <1>6, <2>7, <3>1 DEF B, UpTo
    <3>2. B \subseteq A BY DEF B, UpTo
    <3>3. QED BY <2>6, <3>1, <3>2 DEF UpTo
  <2>9. y \in T BY <2>3, <2>7, <2>8
  <2>10. i <= y BY <1>5, <2>9
  <2>11. QED BY <2>7, <2>10
<1>10. QED BY <1>6, <1>9

\* More elements, an earlier rank.
LEMMA RankOrder ==
    ASSUME NEW N \in Nat, NEW B \in SUBSET (0 .. N), NEW A \in SUBSET B,
           NEW i \in A, NEW h \in B,
           Cardinality(UpTo(A, i)) = Cardinality(UpTo(B, h))
    PROVE  h <= i
<1> SUFFICES ASSUME i < h PROVE FALSE OBVIOUS
<1>0. B \subseteq Nat /\ h \in Nat /\ i \in Nat OBVIOUS
<1>1. /\ UpTo(B, h) \in SUBSET (0 .. N) /\ h \in UpTo(B, h)
      /\ UpTo(A, i) \in SUBSET (UpTo(B, h) \ {h})
      /\ UpTo(B, h) \ {h} \in SUBSET (0 .. N)
  <2>0. UpTo(B, h) \subseteq B BY DEF UpTo
  <2>1. UpTo(B, h) \in SUBSET (0 .. N) BY <2>0
  <2>4. h \in UpTo(B, h) BY <1>0 DEF UpTo
  <2>2. ASSUME NEW a \in UpTo(A, i) PROVE a \in UpTo(B, h) /\ a # h
    BY <1>0 DEF UpTo
  <2>3. QED BY <2>1, <2>2, <2>4
<1>2. IsFiniteSet(UpTo(B, h)) /\ Cardinality(UpTo(B, h)) \in Nat BY <1>1, Bounded
<1>3. Cardinality(UpTo(B, h) \ {h}) = Cardinality(UpTo(B, h)) - 1
    BY <1>1, <1>2, FS_RemoveElement
<1>4. Cardinality(UpTo(A, i)) <= Cardinality(UpTo(B, h) \ {h}) BY <1>1, Bounded
<1>5. QED BY <1>2, <1>3, <1>4

-----------------------------------------------------------------------------
(* The circuit *)

\* The sets a replay counts are sets of positions, and the streak a number.
LEMMA Counted ==
    ASSUME NEW j \in Journals, NEW k, NEW r
    PROVE  /\ Len(j) \in Nat /\ Finishes(j, k) \in SUBSET (0 .. Len(j))
           /\ Abandoned(j, k, r) \in SUBSET (0 .. Len(j))
           /\ Abandoned(j, k, r) \in SUBSET (DOMAIN j)
           /\ Abandoned(j, k, r) \subseteq Abandoned(j, k, 0)
           /\ \A i : Streak(j, k, i) \in Nat
<1>1. Len(j) \in Nat /\ DOMAIN j \subseteq 0 .. Len(j) BY DEF Journals
<1>2. /\ Finishes(j, k) \in SUBSET (0 .. Len(j))
      /\ Abandoned(j, k, r) \in SUBSET (0 .. Len(j))
      /\ Abandoned(j, k, r) \in SUBSET (DOMAIN j)
    BY <1>1 DEF Finishes, Abandoned, Of
<1>3. Abandoned(j, k, r) \subseteq Abandoned(j, k, 0) BY DEF Abandoned
<1>4. ASSUME NEW i PROVE Streak(j, k, i) \in Nat
  <2> DEFINE S == {f \in Finishes(j, k) :
        f <= i /\ \A s \in Finishes(j, k) :
                     f <= s /\ s <= i => j[s].reason # "success"}
  <2>1. S \in SUBSET (0 .. Len(j)) BY <1>2
  <2>2. Streak(j, k, i) = Cardinality(S) BY DEF Streak
  <2> HIDE DEF S
  <2>3. QED BY <1>1, <2>1, <2>2, Bounded
<1>5. QED BY <1>1, <1>2, <1>3, <1>4

\* A failure limit is at least one.
LEMMA LimitIs == ASSUME NEW k PROVE LimitOf(k) \in Nat \ {0}
BY LedgerConstants DEF LimitOf

\* If no terminal record tripped the circuit, the streak is below the limit.
LEMMA LastStreak ==
    ASSUME NEW j \in Journals, NEW k, Tripping(j, k) = {}
    PROVE  Streak(j, k, Len(j)) < LimitOf(k)
<1>0. /\ Len(j) \in Nat /\ Finishes(j, k) \in SUBSET (0 .. Len(j))
      /\ \A i : Streak(j, k, i) \in Nat
    BY Counted
<1>1. CASE Finishes(j, k) = {}
  <2>1. Streak(j, k, Len(j)) = Cardinality({}) BY <1>1 DEF Streak
  <2>2. QED BY <2>1, LimitIs, FS_EmptySet
<1>2. CASE Finishes(j, k) # {}
  <2>1. PICK g \in Finishes(j, k) : \A f \in Finishes(j, k) : f <= g
    BY <1>0, <1>2, Greatest
  <2>2. \A f \in Finishes(j, k) : f <= Len(j) BY <1>0
  <2>3. Streak(j, k, Len(j)) = Streak(j, k, g) BY <2>1, <2>2 DEF Streak
  <2>4. g \notin Tripping(j, k) OBVIOUS
  <2>5. ~(Streak(j, k, g) >= LimitOf(k)) BY <2>1, <2>4 DEF Tripping
  <2>6. QED BY <1>0, <2>3, <2>5, LimitIs
<1>3. QED BY <1>1, <1>2

\* Without a tripping terminal record, the abandoned admission that opened the
\* circuit is the one of the rank that is missing.
LEMMA OpenedByRank ==
    ASSUME NEW j \in Journals, NEW k, NEW r, Tripping(j, k) = {}, CircuitOpen(j, k, r)
    PROVE  /\ OpenedBy(j, k, r) \in Abandoned(j, k, r)
           /\ Cardinality(UpTo(Abandoned(j, k, r), OpenedBy(j, k, r)))
                 = LimitOf(k) - Streak(j, k, Len(j))
<1> DEFINE A == Abandoned(j, k, r)
           S == Streak(j, k, Len(j))
           L == LimitOf(k)
<1>1. Len(j) \in Nat /\ A \in SUBSET (0 .. Len(j)) /\ S \in Nat BY Counted
<1>2. S < L /\ L \in Nat BY LastStreak, LimitIs
<1>3. S + Cardinality(A) >= L BY DEF CircuitOpen
<1>4. OpenedBy(j, k, r) = CHOOSE i \in A : S + Cardinality(UpTo(A, i)) = L
    BY Zenon DEF OpenedBy, UpTo
<1> HIDE DEF A, S, L
<1>5. Cardinality(A) \in Nat BY <1>1, Bounded
<1>6. L - S \in Nat \ {0} /\ L - S <= Cardinality(A) BY <1>1, <1>2, <1>3, <1>5
<1>7. PICK i \in A : Cardinality(UpTo(A, i)) = L - S BY <1>1, <1>6, RankExists
<1>8. \E h \in A : S + Cardinality(UpTo(A, h)) = L BY <1>1, <1>2, <1>7
<1> DEFINE o == CHOOSE h \in A : S + Cardinality(UpTo(A, h)) = L
<1>9. o \in A /\ S + Cardinality(UpTo(A, o)) = L BY <1>8
<1> HIDE DEF o
<1>10. UpTo(A, o) \in SUBSET A BY DEF UpTo
<1>11. Cardinality(UpTo(A, o)) \in Nat BY <1>1, <1>10, Bounded
<1>12. Cardinality(UpTo(A, o)) = L - S BY <1>1, <1>2, <1>9, <1>11
<1>13. QED BY <1>4, <1>9, <1>12 DEF o, A, S, L

\* Time does not run backwards in the journal.
TimesOrdered(j) == \A a, b \in DOMAIN j : a <= b => j[a].at <= j[b].at

\* A reset that was legal for an owner is legal for a reader that owns nothing,
\* although more admissions count as abandoned for that reader: the circuit was
\* open for it too, and opened no later.
LEMMA ResetStays ==
    ASSUME NEW j \in Journals, TimesOrdered(j), NEW k, NEW r, NEW now \in Nat,
           ResetEligible(j, k, r, now)
    PROVE  ResetEligible(j, k, 0, now)
<1> DEFINE A == Abandoned(j, k, r)
           B == Abandoned(j, k, 0)
           S == Streak(j, k, Len(j))
<1>0. /\ Len(j) \in Nat /\ A \in SUBSET B /\ B \in SUBSET (0 .. Len(j)) /\ S \in Nat
      /\ A \in SUBSET (DOMAIN j) /\ B \in SUBSET (DOMAIN j)
    BY Counted
<1>1. CircuitOpen(j, k, r) BY DEF ResetEligible
<1>2. Cardinality(A) \in Nat /\ Cardinality(B) \in Nat /\ Cardinality(A) <= Cardinality(B)
    BY <1>0, Bounded
<1>3. LimitOf(k) \in Nat BY LimitIs
<1>4. CircuitOpen(j, k, 0)
  <2>1. CASE Tripping(j, k) # {} BY <2>1 DEF CircuitOpen
  <2>2. CASE S + Cardinality(A) >= LimitOf(k)
    <3> HIDE DEF A, B, S
    <3>1. S + Cardinality(B) >= LimitOf(k) BY <1>0, <1>2, <1>3, <2>2
    <3>2. QED BY <3>1 DEF CircuitOpen, B, S
  <2>3. QED BY <1>1, <2>1, <2>2 DEF CircuitOpen
<1>5. CASE Tripping(j, k) # {}
  <2>1. OpenedBy(j, k, 0) = OpenedBy(j, k, r) BY <1>5 DEF OpenedBy
  <2>2. QED BY <1>4, <2>1 DEF ResetEligible
<1>6. CASE Tripping(j, k) = {}
  <2> DEFINE o == OpenedBy(j, k, r)
             h == OpenedBy(j, k, 0)
  <2>1. o \in A /\ h \in B /\ Cardinality(UpTo(A, o)) = Cardinality(UpTo(B, h))
    BY <1>1, <1>4, <1>6, OpenedByRank
  <2> HIDE DEF A, B, S, o, h
  <2>2. h <= o BY <1>0, <2>1, RankOrder
  <2>3. o \in DOMAIN j /\ h \in DOMAIN j BY <1>0, <2>1
  <2>4. j[h].at <= j[o].at BY <2>2, <2>3 DEF TimesOrdered
  <2>5. j[h].at \in Nat /\ j[o].at \in Nat
    <3>1. j[h] \in JournalRecords /\ j[o] \in JournalRecords BY <2>3 DEF Journals
    <3>2. QED BY <3>1 DEF JournalRecords
  <2>6. k = "ordinary" => now >= j[o].at + Horizon BY DEF ResetEligible, o
  <2>7. k = "ordinary" => now >= j[h].at + Horizon
    BY <2>4, <2>5, <2>6, LedgerConstants
  <2>8. QED BY <1>4, <2>7 DEF ResetEligible, h
<1>7. QED BY <1>5, <1>6

\* The record that opened the circuit, from the set of abandoned admissions.
Opener(j, k, A) ==
    IF Tripping(j, k) # {} THEN Min(Tripping(j, k))
    ELSE CHOOSE i \in A :
            Streak(j, k, Len(j)) + Cardinality({a \in A : a <= i}) = LimitOf(k)

\* Two readers that agree on what is abandoned agree on a reset.
LEMMA SameAbandoned ==
    ASSUME NEW j, NEW k, NEW r, NEW now, Abandoned(j, k, 0) = Abandoned(j, k, r),
           ResetEligible(j, k, 0, now)
    PROVE  ResetEligible(j, k, r, now)
<1>1. CircuitOpen(j, k, r) BY DEF ResetEligible, CircuitOpen
<1>2. OpenedBy(j, k, r) = OpenedBy(j, k, 0)
  <2>1. /\ OpenedBy(j, k, r) = Opener(j, k, Abandoned(j, k, r))
        /\ OpenedBy(j, k, 0) = Opener(j, k, Abandoned(j, k, 0))
    BY Zenon DEF OpenedBy, Opener
  <2>2. QED BY <2>1
<1>3. QED BY <1>1, <1>2 DEF ResetEligible

\* A reader that has admitted nothing reads what a reader without an instance does.
LEMMA StrangerAgrees ==
    ASSUME NEW j \in Journals, NEW r,
           \A i \in DOMAIN j : j[i].type = "admit" => j[i].by # r,
           Valid(j, 0)
    PROVE  Valid(j, r)
<1> SUFFICES ASSUME NEW i \in DOMAIN j PROVE ValidRecord(j, i, r) BY DEF Valid
<1>1. ValidRecord(j, i, 0) BY DEF Valid
<1>2. i - 1 \in 0 .. Len(j) BY DEF Journals
<1>3. /\ DOMAIN Prefix(j, i - 1) = 1 .. i - 1
      /\ \A b \in 1 .. i - 1 : Prefix(j, i - 1)[b] = j[b]
    BY <1>2, PrefixIs
<1>4. 1 .. i - 1 \subseteq DOMAIN j BY <1>2 DEF Journals
<1>5. Abandoned(Prefix(j, i - 1), j[i].class, 0) = Abandoned(Prefix(j, i - 1), j[i].class, r)
    BY <1>3, <1>4 DEF Abandoned, Of
<1>6. j[i].type = "reset" => ResetEligible(Prefix(j, i - 1), j[i].class, r, j[i].at)
    BY <1>1, <1>5, SameAbandoned DEF ValidRecord
<1>7. QED BY <1>1, <1>6, Zenon DEF ValidRecord

-----------------------------------------------------------------------------
(* What a step does to the journal *)

\* A record the operations append to the journal.
Fits(rec) ==
    /\ rec.at >= HighWatermark(journal)
    /\ \/ /\ rec.type = "admit" /\ rec.by = owner
          /\ \A i \in Admissions : journal[i].cred # rec.cred /\ journal[i].att # rec.att
          /\ rec.class = "ordinary" => OrdinaryBudget(journal, rec.at, rec.packets)
       \/ /\ rec.type = "finish"
          /\ \E b \in Admissions : /\ journal[b].cred = rec.cred /\ journal[b].att = rec.att
                                   /\ journal[b].class = rec.class
          /\ \A f \in DOMAIN journal : journal[f].type = "finish" => journal[f].cred # rec.cred
       \/ rec.type = "reset" /\ ResetEligible(journal, rec.class, owner, rec.at)

Appends(rec) ==
    /\ owner # 0 /\ UNCHANGED <<owner, instances>>
    /\ journal' = Append(journal, rec) /\ Fits(rec)

Shortens ==
    /\ \E n \in 1 .. Len(journal) : journal' = Prefix(journal, n)
    /\ owner' \in {0, owner} /\ instances' = instances

\* The effective time is not before the last record.
LEMMA NotBefore ==
    ASSUME TypeOK, NEW now \in Nat
    PROVE  EffectiveNow(journal, now) >= HighWatermark(journal)
<1>1. Len(journal) \in DOMAIN journal
  BY DEF TypeOK
<1>2. journal[Len(journal)] \in JournalRecords
  BY <1>1 DEF TypeOK
<1>3. HighWatermark(journal) \in Nat
  BY <1>2 DEF HighWatermark, JournalRecords
<1>4. QED BY <1>3 DEF EffectiveNow

\* The whole journal is its own prefix.
LEMMA WholePrefix ==
    ASSUME TypeOK
    PROVE  Len(journal) \in 1 .. Len(journal) /\ journal = Prefix(journal, Len(journal))
BY DEF TypeOK, Prefix

\* A write that is torn leaves the journal, any other appends the record.
LEMMA AppendShape ==
    ASSUME TypeOK, NEW rec \in JournalRecords, NEW outcome \in Outcomes,
           AppendFrame(rec, outcome), UNCHANGED <<owner, instances>>, owner # 0, Fits(rec)
    PROVE  Shortens \/ \E new \in JournalRecords : Appends(new)
<1>1. CASE outcome = "torn"
  <2>1. journal' = journal BY <1>1 DEF AppendFrame
  <2>2. QED BY <2>1, WholePrefix DEF Shortens
<1>2. CASE outcome # "torn"
  <2>1. journal' = Append(journal, rec) BY <1>2 DEF AppendFrame
  <2>2. Appends(rec) BY <2>1 DEF Appends
  <2>3. QED BY <2>2
<1>3. QED BY <1>1, <1>2

\* The record of Admit fits.
LEMMA AdmitShape ==
    ASSUME IInv, NEW k \in Classes, NEW c \in Credentials, NEW a \in AttemptIDs,
           NEW n \in Nat, NEW now \in Nat, Admit(k, c, a, n, now)
    PROVE  Shortens \/ \E new \in JournalRecords : Appends(new)
<1> DEFINE at  == EffectiveNow(journal, now)
           rec == Admission(k, at, c, a, n)
<1>0. TypeOK BY DEF IInv
<1>1. at \in Nat /\ at >= HighWatermark(journal) BY <1>0, EffectiveNowType, NotBefore
<1>2. rec \in JournalRecords BY <1>0, <1>1, RecordTypes, LedgerConstants
<1>3. /\ rec.type = "admit" /\ rec.class = k /\ rec.cred = c /\ rec.att = a
      /\ rec.by = owner /\ rec.at = at /\ rec.packets = n
  BY DEF Admission
<1>4. PICK outcome \in Outcomes : AppendFrame(rec, outcome) BY DEF Admit
<1>5. /\ owner # 0 /\ UNCHANGED <<owner, instances>>
      /\ \A i \in Admissions : journal[i].cred # c /\ journal[i].att # a
      /\ k = "ordinary" => OrdinaryBudget(journal, at, n)
  BY DEF Admit, Admissions, Admissible
<1> HIDE DEF rec, at
<1>6. Fits(rec) BY <1>1, <1>3, <1>5 DEF Fits
<1>7. QED BY <1>0, <1>2, <1>4, <1>5, <1>6, AppendShape

\* The record of Finish fits: a receipt rests on its admission.
LEMMA FinishShape ==
    ASSUME IInv, NEW rc \in receipts, NEW why \in Reasons, NEW now \in Nat,
           Finish(rc, why, now)
    PROVE  Shortens \/ \E new \in JournalRecords : Appends(new)
<1> DEFINE at  == EffectiveNow(journal, now)
           rec == Terminal(rc.class, at, rc.cred, rc.att, why)
<1>0. TypeOK /\ ReceiptsDurable BY DEF IInv
<1>1. at \in Nat /\ at >= HighWatermark(journal) BY <1>0, EffectiveNowType, NotBefore
<1>2. rc.class \in Classes /\ rc.cred \in Credentials /\ rc.att \in AttemptIDs
  BY <1>0 DEF TypeOK, Receipts
<1>3. rec \in JournalRecords BY <1>0, <1>1, <1>2, RecordTypes
<1>4. /\ rec.type = "finish" /\ rec.class = rc.class /\ rec.cred = rc.cred
      /\ rec.att = rc.att /\ rec.at = at
  BY DEF Terminal
<1>5. PICK outcome \in Outcomes : AppendFrame(rec, outcome) BY DEF Finish
<1>6. /\ owner # 0 /\ UNCHANGED <<owner, instances>>
      /\ \A f \in DOMAIN journal : journal[f].type = "finish" => journal[f].cred # rc.cred
  BY DEF Finish, Unfinished
<1>7. /\ rc.seq \in Admissions /\ journal[rc.seq].cred = rc.cred
      /\ journal[rc.seq].att = rc.att /\ journal[rc.seq].class = rc.class
  BY <1>0 DEF ReceiptsDurable, Admissions, TypeOK
<1> HIDE DEF rec, at
<1>8. Fits(rec) BY <1>1, <1>4, <1>6, <1>7 DEF Fits
<1>9. QED BY <1>0, <1>3, <1>5, <1>6, <1>8, AppendShape

\* The record of a reset fits.
LEMMA ResetShape ==
    ASSUME IInv, NEW k \in Classes, NEW now \in Nat, ResetCircuit(k, now)
    PROVE  Shortens \/ \E new \in JournalRecords : Appends(new)
<1> DEFINE at  == EffectiveNow(journal, now)
           rec == Reset(k, at)
<1>0. TypeOK BY DEF IInv
<1>1. at \in Nat /\ at >= HighWatermark(journal) BY <1>0, EffectiveNowType, NotBefore
<1>2. rec \in JournalRecords /\ rec.type = "reset" /\ rec.class = k /\ rec.at = at
  BY <1>1 DEF Reset, JournalRecords
<1>3. PICK outcome \in Outcomes : AppendFrame(rec, outcome) BY DEF ResetCircuit
<1>4. /\ owner # 0 /\ UNCHANGED <<owner, instances>>
      /\ ResetEligible(journal, k, owner, at)
  BY DEF ResetCircuit
<1> HIDE DEF rec, at
<1>5. Fits(rec) BY <1>1, <1>2, <1>4 DEF Fits
<1>6. QED BY <1>0, <1>2, <1>3, <1>4, <1>5, AppendShape

\* Every step keeps a prefix, has a new owner, or appends a record that fits.
LEMMA StepShape ==
    ASSUME IInv, [Next]_vars
    PROVE  \/ Shortens
           \/ journal' = journal /\ owner' = instances + 1 /\ instances' = instances + 1
           \/ \E new \in JournalRecords : Appends(new)
<1>0. TypeOK BY DEF IInv
<1>1. CASE AcquireOwner BY <1>1 DEF AcquireOwner
<1>2. CASE ReleaseOwner BY <1>0, <1>2, WholePrefix DEF ReleaseOwner, Shortens
<1>3. CASE PowerLoss
  <2>1. PICK n \in synced .. Len(journal) : journal' = Prefix(journal, n)
    BY <1>3 DEF PowerLoss
  <2>2. n \in 1 .. Len(journal) BY <1>0 DEF TypeOK
  <2>3. QED BY <1>3, <2>1, <2>2 DEF PowerLoss, Shortens
<1>4. ASSUME NEW now \in 0 .. MaxTime, NEW c \in Credentials, NEW a \in AttemptIDs,
             NEW n \in Packets, Admit("ordinary", c, a, n, now)
      PROVE  Shortens \/ \E new \in JournalRecords : Appends(new)
  <2>1. now \in Nat /\ n \in Nat BY LedgerConstants
  <2>2. QED BY <1>4, <2>1, AdmitShape
<1>5. ASSUME NEW now \in 0 .. MaxTime, NEW c \in Credentials, NEW a \in AttemptIDs,
             Admit("campaign", c, a, 0, now)
      PROVE  Shortens \/ \E new \in JournalRecords : Appends(new)
  <2>1. now \in Nat BY LedgerConstants
  <2>2. QED BY <1>5, <2>1, AdmitShape
<1>6. ASSUME NEW now \in 0 .. MaxTime, NEW rc \in receipts, NEW why \in Reasons,
             Finish(rc, why, now)
      PROVE  Shortens \/ \E new \in JournalRecords : Appends(new)
  <2>1. now \in Nat BY LedgerConstants
  <2>2. QED BY <1>6, <2>1, FinishShape
<1>7. ASSUME NEW now \in 0 .. MaxTime, NEW k \in Classes, ResetCircuit(k, now)
      PROVE  Shortens \/ \E new \in JournalRecords : Appends(new)
  <2>1. now \in Nat BY LedgerConstants
  <2>2. QED BY <1>7, <2>1, ResetShape
<1>8. CASE UNCHANGED vars BY <1>0, <1>8, WholePrefix DEF vars, Shortens
<1>9. QED BY <1>1, <1>2, <1>3, <1>4, <1>5, <1>6, <1>7, <1>8 DEF Next

-----------------------------------------------------------------------------
(* The rolling budgets, counted at the last record of a prefix *)

BudgetAt(p) ==
    LET now    == p[Len(p)].at
        within == Within(p, "ordinary", DayWindow, now)
    IN  /\ \A b \in Of(p, "ordinary", "admit") \ {Len(p)} : now >= p[b].at + Interval
        /\ Cardinality(Within(p, "ordinary", HourWindow, now)) <= HourLimit
        /\ Cardinality(within) <= DayLimit
        /\ PacketsOf(p, within) <= DayPackets

BudgetOf(j) == \A i \in Of(j, "ordinary", "admit") : BudgetAt(Prefix(j, i))

\* That is what the property says.
LEMMA BudgetMeans == ASSUME TypeOK, BudgetOf(journal) PROVE BudgetNeverExceeded
<1> SUFFICES ASSUME NEW i \in Of(journal, "ordinary", "admit")
             PROVE  LET now    == journal[i].at
                        upTo   == Prefix(journal, i)
                        within == Within(upTo, "ordinary", DayWindow, now)
                    IN  /\ \A b \in Of(upTo, "ordinary", "admit") \ {i} :
                              now >= journal[b].at + Interval
                        /\ Cardinality(Within(upTo, "ordinary", HourWindow, now)) <= HourLimit
                        /\ Cardinality(within) <= DayLimit
                        /\ PacketsOf(upTo, within) <= DayPackets
    BY DEF BudgetNeverExceeded
<1>1. journal \in Journals /\ i \in 0 .. Len(journal) /\ i >= 1
    BY DEF TypeOK, Journals, Of
<1>2. /\ Len(Prefix(journal, i)) = i /\ DOMAIN Prefix(journal, i) = 1 .. i
      /\ \A b \in 1 .. i : Prefix(journal, i)[b] = journal[b]
    BY <1>1, PrefixIs
<1>3. Prefix(journal, i)[i] = journal[i] BY <1>1, <1>2
<1>4. BudgetAt(Prefix(journal, i)) BY DEF BudgetOf
<1>5. \A b \in Of(Prefix(journal, i), "ordinary", "admit") : Prefix(journal, i)[b] = journal[b]
    BY <1>2 DEF Of
<1>6. QED BY <1>2, <1>3, <1>4, <1>5 DEF BudgetAt

\* One more element.
LEMMA OneMore ==
    ASSUME NEW N \in Nat, NEW A \in SUBSET (0 .. N), NEW x, NEW B \in SUBSET (A \cup {x}),
           NEW m \in Nat, Cardinality(A) < m
    PROVE  Cardinality(B) <= m
<1>1. IsFiniteSet(A) /\ Cardinality(A) \in Nat BY Bounded
<1>2. IsFiniteSet(A \cup {x}) /\ Cardinality(A \cup {x}) <= Cardinality(A) + 1
  <2>1. /\ IsFiniteSet(A \cup {x})
        /\ Cardinality(A \cup {x}) = IF x \in A THEN Cardinality(A) ELSE Cardinality(A) + 1
    BY <1>1, FS_AddElement
  <2>2. QED BY <1>1, <2>1
<1>3. Cardinality(B) <= Cardinality(A \cup {x}) /\ IsFiniteSet(B) BY <1>2, FS_Subset
<1>4. Cardinality(B) \in Nat /\ Cardinality(A \cup {x}) \in Nat BY <1>2, <1>3, FS_CardinalityType
<1>5. QED BY <1>1, <1>2, <1>3, <1>4

\* admissionError lets only such records through.
LEMMA BudgetAppended ==
    ASSUME NEW j \in Journals, NEW rec \in JournalRecords,
           rec.class = "ordinary", rec.type = "admit",
           OrdinaryBudget(j, rec.at, rec.packets)
    PROVE  BudgetAt(Append(j, rec))
<1> DEFINE p == Append(j, rec)
           i == Len(j) + 1
           n == rec.packets
           t == rec.at
           W(w) == Within(j, "ordinary", w, t)
           V(w) == Within(p, "ordinary", w, t)
<1>1. /\ p \in Journals /\ Len(p) = i /\ DOMAIN p = 1 .. i /\ Len(j) \in Nat /\ i \in Nat
      /\ p[i] = rec /\ DOMAIN j = 1 .. Len(j) /\ i \notin DOMAIN j /\ DOMAIN p = DOMAIN j \cup {i}
      /\ \A b \in DOMAIN j : p[b] = j[b]
    BY DEF Journals
<1>2. t \in Nat /\ n \in Nat BY DEF JournalRecords
<1> HIDE DEF p, i, n, t
<1>3. Of(p, "ordinary", "admit") = Of(j, "ordinary", "admit") \cup {i}
    BY <1>1 DEF Of
<1>4. ASSUME NEW w
      PROVE  /\ W(w) \in SUBSET (DOMAIN j) /\ W(w) \in SUBSET (0 .. Len(j))
             /\ V(w) \in SUBSET (W(w) \cup {i})
             /\ V(w) \ {i} = W(w) /\ i \notin W(w)
  <2>1. W(w) \in SUBSET (DOMAIN j) BY DEF Within, Of
  <2>2. \A b \in Of(j, "ordinary", "admit") : b \in DOMAIN j /\ b # i /\ p[b] = j[b]
    BY <1>1 DEF Of
  <2>3. V(w) \ {i} = W(w) BY <1>3, <2>2 DEF Within
  <2>4. QED BY <1>1, <2>1, <2>3
<1>5. OrdinaryBudget(j, t, n) BY DEF t, n
<1>6. \A b \in Of(p, "ordinary", "admit") \ {i} : t >= p[b].at + Interval
    BY <1>1, <1>3, <1>5 DEF OrdinaryBudget, Of
<1>7. /\ Cardinality(W(HourWindow)) < HourLimit /\ Cardinality(W(DayWindow)) < DayLimit
      /\ PacketsOf(j, W(DayWindow)) + n <= DayPackets
    BY <1>5 DEF OrdinaryBudget
<1>8. Cardinality(V(HourWindow)) <= HourLimit
    BY <1>1, <1>4, <1>7, OneMore, LedgerConstants
<1>9. Cardinality(V(DayWindow)) <= DayLimit
    BY <1>1, <1>4, <1>7, OneMore, LedgerConstants
<1>10. PacketsOf(p, V(DayWindow)) <= DayPackets
  <2> DEFINE cp == [b \in DOMAIN p |-> p[b].packets]
             cj == [b \in DOMAIN j |-> j[b].packets]
             A == W(DayWindow)
             B == V(DayWindow)
  <2>1. PacketsOf(p, B) = Total(cp, B) /\ PacketsOf(j, A) = Total(cj, A)
    BY Zenon DEF PacketsOf, Total
  <2>2. cp \in [DOMAIN p -> Nat] /\ cj \in [DOMAIN j -> Nat]
    <3>1. \A b \in DOMAIN p : p[b] \in JournalRecords BY <1>1 DEF Journals
    <3>2. \A b \in DOMAIN j : j[b] \in JournalRecords BY DEF Journals
    <3>3. QED BY <3>1, <3>2 DEF JournalRecords
  <2>3. IsFiniteSet(DOMAIN p) /\ IsFiniteSet(DOMAIN j) BY <1>1, FS_Interval
  <2>4. /\ A \in SUBSET (DOMAIN j) /\ A \in SUBSET (DOMAIN p) /\ B \in SUBSET (DOMAIN p)
        /\ B \ {i} = A /\ i \notin A
    BY <1>1, <1>4
  <2>5. \A b \in A : cp[b] = cj[b] BY <1>1, <2>4
  <2>6. cp[i] = n BY <1>1 DEF n
  <2> HIDE DEF cp, cj, A, B
  <2>7. Total(cp, A) = Total(cj, A) BY <2>2, <2>3, <2>4, <2>5, TotalSame
  <2>8. Total(cp, A) \in Nat BY <2>2, <2>3, <2>4, TotalSplit
  <2>9. Total(cj, A) + n <= DayPackets BY <1>7, <2>1 DEF A
  <2>10. CASE i \in B
    <3>1. Total(cp, B) = cp[i] + Total(cp, B \ {i}) BY <2>2, <2>3, <2>4, <2>10, TotalSplit
    <3>2. Total(cp, B) = n + Total(cp, A) BY <2>4, <2>6, <3>1
    <3>3. Total(cp, B) <= DayPackets BY <1>2, <2>7, <2>8, <2>9, <3>2
    <3>4. QED BY <2>1, <3>3 DEF B
  <2>11. CASE i \notin B
    <3>1. B = A BY <2>4, <2>11
    <3>2. Total(cp, B) <= DayPackets BY <1>2, <2>7, <2>8, <2>9, <3>1, LedgerConstants
    <3>3. QED BY <2>1, <3>2 DEF B
  <2>12. QED BY <2>10, <2>11
<1>11. p[Len(p)].at = t BY <1>1 DEF t
<1>12. BudgetAt(p) BY <1>1, <1>6, <1>8, <1>9, <1>10, <1>11 DEF BudgetAt
<1>13. QED BY <1>12 DEF p

-----------------------------------------------------------------------------
(* The second invariant: the journal is one that every reader accepts *)

\* Admissions were made by owners there have been.
OwnersKnown == \A i \in Admissions : journal[i].by \in 1 .. instances

JInv ==
    /\ OwnersKnown /\ TimesOrdered(journal)
    /\ Valid(journal, 0) /\ Valid(journal, owner)
    /\ BudgetOf(journal)

\* A prefix of a good journal is a good journal.
LEMMA ShortensJInv == ASSUME IInv, JInv, Shortens PROVE JInv'
<1>1. PICK n \in 1 .. Len(journal) : journal' = Prefix(journal, n) BY DEF Shortens
<1>2. owner' \in {0, owner} /\ instances' = instances BY DEF Shortens
<1>3. journal \in Journals /\ Len(journal) \in Nat BY DEF IInv, TypeOK, Journals
<1>4. /\ journal' \in Journals /\ DOMAIN journal' = 1 .. n
      /\ \A i \in 1 .. n : journal'[i] = journal[i]
    BY <1>1, <1>3, PrefixIs
<1>5. DOMAIN journal' \subseteq DOMAIN journal BY <1>3, <1>4 DEF Journals
<1>6. OwnersKnown' BY <1>2, <1>4, <1>5 DEF JInv, OwnersKnown, Admissions
<1>7. TimesOrdered(journal') BY <1>4, <1>5 DEF JInv, TimesOrdered
<1>8. ASSUME NEW r, Valid(journal, r) PROVE Valid(journal', r)
  <2> SUFFICES ASSUME NEW i \in DOMAIN journal' PROVE ValidRecord(journal', i, r) BY DEF Valid
  <2>1. i \in DOMAIN journal /\ ValidRecord(journal, i, r) BY <1>5, <1>8 DEF Valid
  <2>2. \A b \in 1 .. i : journal[b] = journal'[b] BY <1>4
  <2>3. QED BY <1>3, <1>4, <2>1, <2>2, SameVerdict
<1>9. Valid(journal', 0) /\ Valid(journal', owner') BY <1>2, <1>8 DEF JInv
<1>10. BudgetOf(journal')
  <2> SUFFICES ASSUME NEW i \in Of(journal', "ordinary", "admit")
               PROVE  BudgetAt(Prefix(journal', i))
    BY DEF BudgetOf
  <2>1. i \in Of(journal, "ordinary", "admit") /\ i \in 1 .. n BY <1>4, <1>5 DEF Of
  <2>2. BudgetAt(Prefix(journal, i)) BY <2>1 DEF JInv, BudgetOf
  <2>3. i \in Nat /\ i <= Len(journal) /\ i <= Len(journal') BY <1>3, <1>4, <2>1 DEF Journals
  <2>4. Prefix(journal, i) = Prefix(journal', i) BY <1>3, <1>4, <2>1, <2>3, SamePrefix
  <2>5. QED BY <2>2, <2>4
<1>11. QED BY <1>6, <1>7, <1>9, <1>10 DEF JInv

\* A new owner reads what a reader without an instance does.
LEMMA AcquireJInv ==
    ASSUME IInv, JInv, journal' = journal, owner' = instances + 1, instances' = instances + 1
    PROVE  JInv'
<1>0. journal \in Journals /\ instances \in Nat BY DEF IInv, TypeOK, Journals
<1>1. OwnersKnown' BY <1>0 DEF JInv, OwnersKnown, Admissions
<1>2. \A i \in DOMAIN journal : journal[i].type = "admit" => journal[i].by # instances + 1
    BY <1>0 DEF JInv, OwnersKnown, Admissions
<1>3. Valid(journal, instances + 1) BY <1>0, <1>2, StrangerAgrees DEF JInv
<1>4. QED BY <1>1, <1>3 DEF JInv

\* A record that fits leaves a good journal.
LEMMA AppendsJInv ==
    ASSUME IInv, JInv, NEW rec \in JournalRecords, Appends(rec)
    PROVE  JInv'
<1> DEFINE m == Len(journal) + 1
<1>0. /\ journal \in Journals /\ Len(journal) \in Nat /\ Len(journal) >= 1 /\ owner \in Nat
      /\ instances \in Nat /\ owner <= instances
    BY DEF IInv, TypeOK, Journals
<1>1. /\ owner # 0 /\ owner' = owner /\ instances' = instances
      /\ journal' = Append(journal, rec) /\ Fits(rec)
    BY DEF Appends
<1>2. /\ journal' \in Journals /\ DOMAIN journal' = DOMAIN journal \cup {m}
      /\ DOMAIN journal = 1 .. Len(journal) /\ DOMAIN journal' = 1 .. m
      /\ journal'[m] = rec /\ Len(journal') = m /\ m \notin DOMAIN journal
      /\ \A i \in DOMAIN journal : journal'[i] = journal[i]
    BY <1>0, <1>1 DEF Journals
<1>3. OwnersKnown'
  <2>1. rec.type = "admit" => rec.by \in 1 .. instances BY <1>0, <1>1 DEF Fits
  <2>2. QED BY <1>1, <1>2, <2>1 DEF JInv, OwnersKnown, Admissions
<1>4. /\ \A i \in DOMAIN journal : journal[i].at \in Nat
      /\ rec.at \in Nat /\ rec.at >= journal[Len(journal)].at
  <2>1. \A i \in DOMAIN journal : journal[i] \in JournalRecords BY <1>0 DEF Journals
  <2>2. QED BY <1>1, <2>1 DEF Fits, HighWatermark, JournalRecords
<1>5. TimesOrdered(journal')
  <2> SUFFICES ASSUME NEW a \in DOMAIN journal', NEW b \in DOMAIN journal', a <= b
               PROVE  journal'[a].at <= journal'[b].at
    BY DEF TimesOrdered
  <2>1. CASE b \in DOMAIN journal
    <3>1. a \in DOMAIN journal BY <1>0, <1>2, <2>1
    <3>2. QED BY <1>2, <2>1, <3>1 DEF JInv, TimesOrdered
  <2>2. CASE b = m /\ a \in DOMAIN journal
    <3>1. journal[a].at <= journal[Len(journal)].at
      BY <1>0, <1>2, <2>2 DEF JInv, TimesOrdered
    <3>2. Len(journal) \in DOMAIN journal BY <1>0, <1>2
    <3>3. QED BY <1>2, <1>4, <2>2, <3>1, <3>2
  <2>3. CASE a = m /\ b = m BY <1>2, <1>4, <2>3
  <2>4. QED BY <1>2, <2>1, <2>2, <2>3
<1>6. ASSUME NEW r \in {0, owner} PROVE Valid(journal', r)
  <2>0. Valid(journal, r) BY DEF JInv
  <2> SUFFICES ASSUME NEW i \in DOMAIN journal' PROVE ValidRecord(journal', i, r) BY DEF Valid
  <2>1. CASE i \in DOMAIN journal
    <3>1. ValidRecord(journal, i, r) BY <2>0, <2>1 DEF Valid
    <3>2. \A b \in 1 .. i : journal[b] = journal'[b] BY <1>0, <1>2, <2>1
    <3>3. QED BY <1>0, <1>2, <2>1, <3>1, <3>2, SameVerdict
  <2>2. CASE i = m
    <3>1. /\ i > 1 /\ i - 1 = Len(journal) /\ i - 1 \in DOMAIN journal
          /\ 1 .. i - 1 = DOMAIN journal
      BY <1>0, <1>2, <2>2
    <3>2. Prefix(journal', i - 1) = journal
      <4>0. Len(journal) <= Len(journal') /\ Len(journal) <= Len(journal) BY <1>0, <1>2
      <4>1. Prefix(journal', Len(journal)) = Prefix(journal, Len(journal))
        BY <1>0, <1>2, <4>0, SamePrefix
      <4>2. QED BY <3>1, <4>1, WholePrefix DEF IInv
    <3>3. journal'[i] = rec /\ journal'[i - 1] = journal[Len(journal)]
      BY <1>2, <2>2, <3>1
    <3>4. journal'[i].at >= journal'[i - 1].at BY <1>4, <3>3
    <3>5. rec.type = "reset" => ResetEligible(journal, rec.class, r, rec.at)
      <4>1. rec.type = "reset" => ResetEligible(journal, rec.class, owner, rec.at)
        BY <1>1 DEF Fits
      <4>2. QED BY <1>0, <1>4, <4>1, ResetStays DEF JInv
    <3>6. rec.type \in {"admit", "finish", "reset"} BY <1>1 DEF Fits
    <3>7. rec.type = "admit" =>
             \A b \in 1 .. i - 1 : journal'[b].type = "admit" =>
                journal'[b].cred # rec.cred /\ journal'[b].att # rec.att
      BY <1>1, <1>2, <3>1 DEF Fits, Admissions
    <3>8. rec.type = "finish" =>
             /\ \E b \in 1 .. i - 1 :
                   /\ journal'[b].type = "admit" /\ journal'[b].cred = rec.cred
                   /\ journal'[b].att = rec.att /\ journal'[b].class = rec.class
             /\ \A f \in 1 .. i - 1 : journal'[f].type = "finish" => journal'[f].cred # rec.cred
      BY <1>1, <1>2, <3>1 DEF Fits, Admissions
    <3>9. QED BY <3>1, <3>2, <3>3, <3>4, <3>5, <3>6, <3>7, <3>8 DEF ValidRecord
  <2>3. QED BY <1>2, <2>1, <2>2
<1>7. BudgetOf(journal')
  <2> SUFFICES ASSUME NEW i \in Of(journal', "ordinary", "admit")
               PROVE  BudgetAt(Prefix(journal', i))
    BY DEF BudgetOf
  <2>1. CASE i \in DOMAIN journal
    <3>1. i \in Of(journal, "ordinary", "admit") BY <1>2, <2>1 DEF Of
    <3>2. BudgetAt(Prefix(journal, i)) BY <3>1 DEF JInv, BudgetOf
    <3>3. /\ i \in Nat /\ i <= Len(journal) /\ i <= Len(journal')
          /\ \A b \in 1 .. i : journal[b] = journal'[b]
      BY <1>0, <1>2, <2>1
    <3>4. Prefix(journal, i) = Prefix(journal', i) BY <1>0, <1>2, <3>3, SamePrefix
    <3>5. QED BY <3>2, <3>4
  <2>2. CASE i = m
    <3>1. rec.class = "ordinary" /\ rec.type = "admit" BY <1>2, <2>2 DEF Of
    <3>2. OrdinaryBudget(journal, rec.at, rec.packets) BY <1>1, <3>1 DEF Fits
    <3>3. BudgetAt(journal') BY <1>0, <1>1, <3>1, <3>2, BudgetAppended
    <3>4. Prefix(journal', i) = journal' BY <1>0, <1>2, <2>2 DEF Prefix, Journals
    <3>5. QED BY <3>3, <3>4
  <2>3. i \in DOMAIN journal' BY DEF Of
  <2>4. QED BY <1>2, <2>1, <2>2, <2>3
<1>8. QED BY <1>1, <1>3, <1>5, <1>6, <1>7 DEF JInv

\* The first record alone is a good journal.
LEMMA InitJInv == ASSUME Init PROVE JInv
<1>1. PICK type \in {"initialize", "rebuild"} : journal = <<First(type, 0)>> BY DEF Init
<1>2. /\ Len(journal) = 1 /\ DOMAIN journal = {1} /\ journal[1] = First(type, 0)
    BY <1>1
<1>3. First(type, 0).type = type /\ First(type, 0).at = 0 BY DEF First
<1>4. OwnersKnown BY <1>2, <1>3 DEF OwnersKnown, Admissions
<1>5. TimesOrdered(journal) BY <1>2, <1>3 DEF TimesOrdered
<1>6. ASSUME NEW r PROVE Valid(journal, r)
    BY <1>2, <1>3 DEF Valid, ValidRecord
<1>7. BudgetOf(journal) BY <1>2, <1>3 DEF BudgetOf, Of
<1>8. QED BY <1>4, <1>5, <1>6, <1>7 DEF JInv

\* No step breaks the second invariant.
LEMMA NextJInv == ASSUME IInv, JInv, [Next]_vars PROVE JInv'
BY StepShape, ShortensJInv, AcquireJInv, AppendsJInv

\* The journal stays one that every reader accepts.
THEOREM Trusted == Spec => []JInv
<1>1. IInv /\ JInv /\ [Next]_vars => JInv' BY NextJInv
<1>2. Init => JInv BY InitJInv
<1>3. QED BY <1>1, <1>2, Invariance, PTL DEF Spec

\* No sequence of legal operations, crashes and clock jumps leaves a journal that
\* its owner, the next owner or a reader that owns nothing rejects: a reset that
\* was legal for its owner stays legal for readers that count more admissions as
\* abandoned.
THEOREM ReadableByAll == Spec => []JournalReadable
<1>1. IInv /\ JInv => JournalReadable
  <2> SUFFICES ASSUME IInv, JInv PROVE JournalReadable OBVIOUS
  <2>0. journal \in Journals /\ instances \in Nat BY DEF IInv, TypeOK, Journals
  <2>1. \A i \in DOMAIN journal : journal[i].type = "admit" => journal[i].by # instances + 1
    BY <2>0 DEF JInv, OwnersKnown, Admissions
  <2>2. Valid(journal, instances + 1) BY <2>0, <2>1, StrangerAgrees DEF JInv
  <2>3. QED BY <2>2 DEF JInv, JournalReadable
<1>2. QED BY <1>1, Invariance, Trusted, PTL

\* Whatever the clock does and whoever restarts, no window of journal time holds
\* more admissions or packets than its budget.
THEOREM BudgetsHold == Spec => []BudgetNeverExceeded
<1>1. IInv /\ JInv => BudgetNeverExceeded BY BudgetMeans DEF IInv, JInv
<1>2. QED BY <1>1, Invariance, Trusted, PTL

-----------------------------------------------------------------------------
(* A crash takes terminal records away and leaves their admissions abandoned *)

\* A credential has one terminal record, after its admission.
LEMMA FinishOnce ==
    ASSUME NEW j \in Journals, NEW r, Valid(j, r), NEW k
    PROVE  /\ \A f, g \in DOMAIN j :
                 j[f].type = "finish" /\ j[g].type = "finish" /\ j[f].cred = j[g].cred => f = g
           /\ \A f \in Of(j, k, "finish") :
                 \E b \in Of(j, k, "admit") : j[b].cred = j[f].cred
<1>0. DOMAIN j = 1 .. Len(j) /\ Len(j) \in Nat BY DEF Journals
<1>1. ASSUME NEW f \in DOMAIN j, NEW g \in DOMAIN j, f < g,
             j[f].type = "finish", j[g].type = "finish", j[f].cred = j[g].cred
      PROVE  FALSE
  <2>1. ValidRecord(j, g, r) BY DEF Valid
  <2>2. f \in 1 .. g - 1 BY <1>0, <1>1
  <2>3. QED BY <1>1, <2>1, <2>2 DEF ValidRecord
<1>2. ASSUME NEW f \in Of(j, k, "finish")
      PROVE  \E b \in Of(j, k, "admit") : j[b].cred = j[f].cred
  <2>1. f \in DOMAIN j /\ j[f].type = "finish" /\ j[f].class = k BY DEF Of
  <2>2. ValidRecord(j, f, r) BY <2>1 DEF Valid
  <2>3. PICK b \in 1 .. f - 1 :
             j[b].type = "admit" /\ j[b].cred = j[f].cred /\ j[b].class = j[f].class
    BY <2>1, <2>2 DEF ValidRecord
  <2>4. b \in DOMAIN j BY <1>0, <2>1
  <2>5. QED BY <2>1, <2>3, <2>4 DEF Of
<1>3. ASSUME NEW f \in DOMAIN j, NEW g \in DOMAIN j,
             j[f].type = "finish", j[g].type = "finish", j[f].cred = j[g].cred
      PROVE  f = g
  <2>1. ~(f < g) /\ ~(g < f) BY <1>1, <1>3
  <2>2. QED BY <1>0, <2>1
<1>4. QED BY <1>2, <1>3

\* The last reset is the greatest, or there is none.
LEMMA LastResetIs ==
    ASSUME NEW j \in Journals, NEW k
    PROVE  /\ LastReset(j, k) \in {0} \cup Of(j, k, "reset") /\ LastReset(j, k) \in Nat
           /\ \A s \in Of(j, k, "reset") : s <= LastReset(j, k)
<1> DEFINE S == {0} \cup Of(j, k, "reset")
<1>0. DOMAIN j = 1 .. Len(j) /\ Len(j) \in Nat BY DEF Journals
<1>1. S \in SUBSET (0 .. Len(j)) /\ S # {} BY <1>0 DEF Of
<1>2. LastReset(j, k) = CHOOSE x \in S : \A y \in S : x >= y BY Zenon DEF LastReset, Max
<1> HIDE DEF S
<1>3. PICK x \in S : \A y \in S : y <= x BY <1>0, <1>1, Greatest
<1>4. \A y \in S : y \in Nat BY <1>1
<1>5. \A y \in S : x >= y BY <1>3, <1>4
<1>6. LastReset(j, k) \in S /\ \A y \in S : LastReset(j, k) >= y BY <1>2, <1>5
<1>7. QED BY <1>4, <1>6 DEF S

\* The terminal records of a failure streak.
Run(j, k, i) ==
    {f \in Finishes(j, k) :
        f <= i /\ \A s \in Finishes(j, k) : f <= s /\ s <= i => j[s].reason # "success"}

\* Two disjoint sets inside a third.
LEMMA Disjoint ==
    ASSUME NEW N \in Nat, NEW C \in SUBSET (0 .. N), NEW A \in SUBSET C, NEW B \in SUBSET C,
           A \cap B = {}
    PROVE  Cardinality(A) + Cardinality(B) <= Cardinality(C)
<1>1. /\ IsFiniteSet(A) /\ IsFiniteSet(B) /\ Cardinality(A) \in Nat /\ Cardinality(B) \in Nat
    BY Bounded
<1>2. Cardinality(A \cup B) = Cardinality(A) + Cardinality(B) - Cardinality(A \cap B)
    BY <1>1, FS_Union
<1>3. Cardinality(A \cap B) = 0 BY FS_EmptySet
<1>4. A \cup B \in SUBSET C OBVIOUS
<1>5. Cardinality(A \cup B) <= Cardinality(C) /\ Cardinality(C) \in Nat BY <1>4, Bounded
<1>6. QED BY <1>1, <1>2, <1>3, <1>5

\* A union is no larger than its parts together.
LEMMA Together ==
    ASSUME NEW N \in Nat, NEW A \in SUBSET (0 .. N), NEW B \in SUBSET (0 .. N),
           NEW C \in SUBSET (A \cup B)
    PROVE  Cardinality(C) <= Cardinality(A) + Cardinality(B)
<1>1. /\ IsFiniteSet(A) /\ IsFiniteSet(B) /\ Cardinality(A) \in Nat /\ Cardinality(B) \in Nat
    BY Bounded
<1>2. Cardinality(A \cup B) = Cardinality(A) + Cardinality(B) - Cardinality(A \cap B)
    BY <1>1, FS_Union
<1>3. A \cap B \in SUBSET A OBVIOUS
<1>4. Cardinality(A \cap B) \in Nat BY <1>3, Bounded
<1>5. A \cup B \in SUBSET (0 .. N) OBVIOUS
<1>6. /\ Cardinality(C) <= Cardinality(A \cup B) /\ Cardinality(C) \in Nat
      /\ Cardinality(A \cup B) \in Nat
    BY <1>5, Bounded
<1>7. QED BY <1>1, <1>2, <1>4, <1>6

\* An open circuit stays open for the next owner in a crash image that holds
\* the admissions.
LEMMA CrashImage ==
    ASSUME IInv, JInv, NEW k \in Classes, CircuitOpen(journal, k, owner), ResetsWereQuiet(k),
           NEW n \in synced .. Len(journal), \A i \in Of(journal, k, "admit") : i <= n
    PROVE  CircuitOpen(Prefix(journal, n), k, 0)
<1> DEFINE j == journal
           p == Prefix(journal, n)
           s == LastReset(journal, k)
           A == Abandoned(journal, k, owner)
           B == Abandoned(p, k, 0)
           L == {f \in Finishes(journal, k) : f > n}
<1>0. /\ j \in Journals /\ Len(j) \in Nat /\ DOMAIN j = 1 .. Len(j) /\ n \in Nat /\ n >= 1
      /\ n <= Len(j) /\ n \in 0 .. Len(j)
    BY DEF IInv, TypeOK, Journals
<1>1. /\ p \in Journals /\ Len(p) = n /\ DOMAIN p = 1 .. n
      /\ \A i \in 1 .. n : p[i] = j[i]
    BY <1>0, PrefixIs
<1>2. /\ \A f, g \in DOMAIN j :
            j[f].type = "finish" /\ j[g].type = "finish" /\ j[f].cred = j[g].cred => f = g
      /\ \A f \in Of(j, k, "finish") : \E b \in Of(j, k, "admit") : j[b].cred = j[f].cred
    BY <1>0, FinishOnce DEF JInv
<1>3. /\ s \in {0} \cup Of(j, k, "reset") /\ s \in Nat
      /\ \A z \in Of(j, k, "reset") : z <= s
    BY <1>0, LastResetIs
<1>4. /\ LastReset(p, k) \in {0} \cup Of(p, k, "reset") /\ LastReset(p, k) \in Nat
      /\ \A z \in Of(p, k, "reset") : z <= LastReset(p, k)
    BY <1>1, LastResetIs
<1>5. /\ A \in SUBSET (0 .. Len(j)) /\ Finishes(j, k) \in SUBSET (0 .. Len(j))
      /\ \A i : Streak(j, k, i) \in Nat
    BY <1>0, Counted
<1>6. /\ B \in SUBSET (0 .. n) /\ Finishes(p, k) \in SUBSET (0 .. n)
      /\ \A i : Streak(p, k, i) \in Nat
    BY <1>1, Counted
<1>7. LimitOf(k) \in Nat /\ LimitOf(k) > 0 BY LimitIs
<1>8. ASSUME NEW type, NEW i
      PROVE  i \in Of(p, k, type) <=> i \in Of(j, k, type) /\ i <= n
    BY <1>0, <1>1 DEF Of
<1>9. ASSUME s > n PROVE FALSE
  <2>1. s \in Of(j, k, "reset") BY <1>0, <1>3, <1>9
  <2>2. ASSUME NEW f \in Finishes(j, k) PROVE FALSE
    <3>1. f \in Of(j, k, "finish") /\ f > s BY DEF Finishes
    <3>2. PICK b \in Of(j, k, "admit") : j[b].cred = j[f].cred BY <1>2, <3>1
    <3>3. b <= n /\ b \in DOMAIN j BY DEF Of
    <3>4. b < s BY <1>0, <1>3, <1>9, <3>3
    <3>5. PICK g \in Of(j, k, "finish") : g < s /\ j[g].cred = j[b].cred
      BY <2>1, <3>4 DEF ResetsWereQuiet
    <3>6. f = g BY <1>2, <3>1, <3>2, <3>5 DEF Of
    <3>7. f \in Nat BY <1>0, <3>1 DEF Of
    <3>8. QED BY <1>3, <3>1, <3>5, <3>6, <3>7
  <2>3. Finishes(j, k) = {} BY <2>2
  <2>4. A = {}
    <3> SUFFICES ASSUME NEW i \in A PROVE FALSE OBVIOUS
    <3>1. i \in Of(j, k, "admit") /\ i > s /\ i \in DOMAIN j BY DEF Abandoned, Of
    <3>2. i <= n BY <3>1
    <3>3. QED BY <1>0, <1>3, <1>9, <3>1, <3>2
  <2>5. Tripping(j, k) = {} BY <2>3 DEF Tripping
  <2>6. Streak(j, k, Len(j)) = 0
    <3>1. Streak(j, k, Len(j)) = Cardinality({}) BY <2>3 DEF Streak
    <3>2. QED BY <3>1, FS_EmptySet
  <2>7. Cardinality(A) = 0 BY <2>4, FS_EmptySet
  <2>8. Streak(j, k, Len(j)) + Cardinality(A) >= LimitOf(k) BY <2>5 DEF CircuitOpen
  <2> HIDE DEF j, A
  <2>9. QED BY <1>7, <2>6, <2>7, <2>8
<1>10. s <= n BY <1>0, <1>3, <1>9
<1>11. LastReset(p, k) = s
  <2>1. s \in {0} \cup Of(p, k, "reset") BY <1>3, <1>8, <1>10
  <2>2. s <= LastReset(p, k) BY <1>4, <2>1
  <2>3. LastReset(p, k) <= s BY <1>3, <1>4, <1>8
  <2>4. QED BY <1>3, <1>4, <2>2, <2>3
<1>12. ASSUME NEW f PROVE f \in Finishes(p, k) <=> f \in Finishes(j, k) /\ f <= n
    BY <1>8, <1>11 DEF Finishes
<1>13. ASSUME NEW f \in Finishes(p, k) PROVE p[f] = j[f] /\ f \in Nat
  <2>1. f \in 1 .. n BY <1>1 DEF Finishes, Of
  <2>2. QED BY <1>0, <1>1, <2>1
<1>14. /\ L \in SUBSET (0 .. Len(j)) /\ L \in SUBSET Of(j, k, "finish")
    BY <1>5 DEF Finishes
<1>15. Cardinality(A) \in Nat /\ Cardinality(B) \in Nat /\ Cardinality(L) \in Nat
    BY <1>0, <1>5, <1>6, <1>14, Bounded
<1>16. ASSUME NEW x \in n .. Len(j)
       PROVE  Streak(j, k, x) <= Streak(p, k, n) + Cardinality(L)
  <2>1. Streak(j, k, x) = Cardinality(Run(j, k, x)) /\ Streak(p, k, n) = Cardinality(Run(p, k, n))
    BY DEF Streak, Run
  <2>2. Run(j, k, x) \subseteq Run(p, k, n) \cup L
    <3> SUFFICES ASSUME NEW f \in Run(j, k, x), f \notin L PROVE f \in Run(p, k, n) OBVIOUS
    <3>1. f \in Finishes(j, k) /\ f \in Nat BY <1>5 DEF Run
    <3>2. f <= n /\ f \in Finishes(p, k) BY <1>0, <1>12, <3>1
    <3>3. ASSUME NEW z \in Finishes(p, k), f <= z, z <= n PROVE p[z].reason # "success"
      <4>1. z \in Finishes(j, k) /\ z <= x /\ p[z] = j[z] BY <1>0, <1>12, <1>13, <3>3
      <4>2. QED BY <3>3, <4>1 DEF Run
    <3>4. QED BY <3>2, <3>3 DEF Run
  <2>3. Run(p, k, n) \in SUBSET (0 .. Len(j)) BY <1>5, <1>12 DEF Run
  <2>4. Cardinality(Run(j, k, x)) <= Cardinality(Run(p, k, n)) + Cardinality(L)
    BY <1>0, <1>14, <2>2, <2>3, Together
  <2>5. QED BY <2>1, <2>4
<1>17. Cardinality(A) + Cardinality(L) <= Cardinality(B)
  <2> DEFINE M == {i \in Of(j, k, "admit") : \E f \in L : j[f].cred = j[i].cred}
             adm == [f \in L |-> CHOOSE b \in Of(j, k, "admit") : j[b].cred = j[f].cred]
  <2>1. ASSUME NEW f \in L
        PROVE  /\ adm[f] \in Of(j, k, "admit") /\ j[adm[f]].cred = j[f].cred /\ adm[f] \in M
    <3>1. \E b \in Of(j, k, "admit") : j[b].cred = j[f].cred BY <1>2, <1>14
    <3>2. adm[f] \in Of(j, k, "admit") /\ j[adm[f]].cred = j[f].cred BY <3>1
    <3> HIDE DEF adm
    <3>3. QED BY <3>2
  <2>2. adm \in [L -> M] BY <2>1
  <2> HIDE DEF adm
  <2>3. ASSUME NEW f \in L, NEW g \in L, adm[f] = adm[g] PROVE f = g
    <3>1. j[f].cred = j[g].cred BY <2>1, <2>3
    <3>2. QED BY <1>2, <1>14, <3>1 DEF Of
  <2>4. adm \in Injection(L, M) BY <2>2, <2>3 DEF Injection, IsInjective
  <2>5. M \subseteq B
    <3> SUFFICES ASSUME NEW i \in M PROVE i \in B OBVIOUS
    <3>1. PICK f \in L : j[f].cred = j[i].cred OBVIOUS
    <3>2. f \in Of(j, k, "finish") /\ f > n /\ f \in Nat BY <1>0, <1>14 DEF Of
    <3>3. i \in Of(j, k, "admit") /\ i <= n /\ i \in DOMAIN j /\ i \in Nat /\ i >= 1
      BY <1>0 DEF Of
    <3>4. i \in Of(p, k, "admit") /\ p[i] = j[i] BY <1>0, <1>1, <1>8, <3>3
    <3>5. ASSUME NEW g \in Of(j, k, "finish"), g <= n, j[g].cred = j[i].cred PROVE FALSE
      <4>1. f = g BY <1>2, <3>1, <3>2, <3>5 DEF Of
      <4>2. QED BY <1>0, <3>2, <3>5, <4>1
    <3>6. i > s
      <4>1. CASE s = 0 BY <3>3, <4>1
      <4>2. CASE s \in Of(j, k, "reset")
        <5>1. i # s BY <3>3, <4>2 DEF Of
        <5>2. ASSUME i < s PROVE FALSE
          <6>1. PICK g \in Of(j, k, "finish") : g < s /\ j[g].cred = j[i].cred
            BY <3>3, <4>2, <5>2 DEF ResetsWereQuiet
          <6>2. g <= n BY <1>0, <1>3, <1>10, <6>1 DEF Of
          <6>3. QED BY <3>5, <6>1, <6>2
        <5>3. QED BY <1>3, <3>3, <5>1, <5>2
      <4>3. QED BY <1>3, <4>1, <4>2
    <3>7. ASSUME NEW g \in Of(p, k, "finish") PROVE p[g].cred # p[i].cred
      <4>1. g \in Of(j, k, "finish") /\ g <= n /\ g \in 1 .. n
        BY <1>1, <1>8 DEF Of
      <4>2. p[g] = j[g] BY <1>1, <4>1
      <4>3. QED BY <3>4, <3>5, <4>1, <4>2
    <3>8. QED BY <1>11, <3>4, <3>6, <3>7 DEF Abandoned
  <2>6. A \subseteq B
    <3> SUFFICES ASSUME NEW i \in A PROVE i \in B OBVIOUS
    <3>1. /\ i \in Of(j, k, "admit") /\ i > s /\ i \in DOMAIN j
          /\ \A f \in Of(j, k, "finish") : j[f].cred # j[i].cred
      BY DEF Abandoned, Of
    <3>2. i <= n /\ i \in 1 .. n BY <1>0, <3>1
    <3>3. i \in Of(p, k, "admit") /\ p[i] = j[i] BY <1>1, <1>8, <3>1, <3>2
    <3>4. ASSUME NEW g \in Of(p, k, "finish") PROVE p[g].cred # p[i].cred
      <4>1. g \in Of(j, k, "finish") /\ g \in 1 .. n BY <1>1, <1>8 DEF Of
      <4>2. QED BY <1>1, <3>1, <3>3, <4>1
    <3>5. QED BY <1>11, <3>1, <3>3, <3>4 DEF Abandoned
  <2>7. A \cap M = {}
    <3> SUFFICES ASSUME NEW i \in A, i \in M PROVE FALSE OBVIOUS
    <3>1. PICK f \in L : j[f].cred = j[i].cred OBVIOUS
    <3>2. f \in Of(j, k, "finish") BY <1>14
    <3>3. QED BY <3>1, <3>2 DEF Abandoned
  <2> HIDE DEF M, A, B, L, j
  <2>8. IsFiniteSet(M) /\ Cardinality(M) \in Nat BY <1>0, <1>6, <2>5, Bounded
  <2>9. Cardinality(L) <= Cardinality(M) BY <2>4, <2>8, FS_Injection
  <2>10. Cardinality(A) + Cardinality(M) <= Cardinality(B)
    BY <1>0, <1>6, <2>5, <2>6, <2>7, Disjoint
  <2>11. QED BY <1>15, <2>8, <2>9, <2>10
<1>18. CASE \E f \in Tripping(j, k) : f <= n
  <2>1. PICK f \in Tripping(j, k) : f <= n BY <1>18
  <2>2. f \in Finishes(p, k) BY <1>12, <2>1 DEF Tripping
  <2>3. Run(j, k, f) = Run(p, k, f)
    <3>0. f \in Nat BY <1>13, <2>2
    <3>1. \A z : z \in Nat /\ z <= f => z <= n BY <1>0, <2>1, <3>0
    <3>2. \A z \in Finishes(j, k) : z \in Nat BY <1>5
    <3>3. \A z \in Finishes(j, k) : z <= f => z \in Finishes(p, k) BY <1>12, <3>1, <3>2
    <3>4. Finishes(p, k) \subseteq Finishes(j, k) BY <1>12
    <3> HIDE DEF j, p
    <3>5. QED BY <1>13, <3>3, <3>4 DEF Run
  <2>4. Streak(j, k, f) = Cardinality(Run(j, k, f)) /\ Streak(p, k, f) = Cardinality(Run(p, k, f))
    BY DEF Streak, Run
  <2>5. f \in Tripping(p, k) BY <2>1, <2>2, <2>3, <2>4 DEF Tripping
  <2>6. QED BY <2>5 DEF CircuitOpen
<1>19. CASE \E f \in Tripping(j, k) : ~(f <= n)
  <2>1. PICK f \in Tripping(j, k) : ~(f <= n) BY <1>19
  <2>2. f \in Finishes(j, k) /\ Streak(j, k, f) >= LimitOf(k) BY <2>1 DEF Tripping
  <2>3. f \in n .. Len(j) BY <1>0, <1>5, <2>1, <2>2
  <2>4. Streak(j, k, f) <= Streak(p, k, n) + Cardinality(L) BY <1>16, <2>3
  <2>5. Streak(p, k, n) + Cardinality(B) >= LimitOf(k)
    <3> HIDE DEF j, p, A, B, L
    <3>1. QED BY <1>5, <1>6, <1>7, <1>15, <1>17, <2>2, <2>4
  <2>6. QED BY <1>1, <2>5 DEF CircuitOpen
<1>20. CASE Tripping(j, k) = {}
  <2>1. Streak(j, k, Len(j)) + Cardinality(A) >= LimitOf(k) BY <1>20 DEF CircuitOpen
  <2>2. Streak(j, k, Len(j)) <= Streak(p, k, n) + Cardinality(L) BY <1>0, <1>16
  <2>3. Streak(p, k, n) + Cardinality(B) >= LimitOf(k)
    <3> HIDE DEF j, p, A, B, L
    <3>1. QED BY <1>5, <1>6, <1>7, <1>15, <1>17, <2>1, <2>2
  <2>4. QED BY <1>1, <2>3 DEF CircuitOpen
<1>21. QED BY <1>18, <1>19, <1>20

\* A crash forgives nothing: a terminal record that is lost leaves its admission
\* abandoned, and that counts as a failure, too.
THEOREM CrashesCount == Spec => []CrashNeverForgives
<1>1. IInv /\ JInv => CrashNeverForgives BY CrashImage DEF CrashNeverForgives
<1>2. QED BY <1>1, Invariance, Trusted, PTL
=============================================================================
