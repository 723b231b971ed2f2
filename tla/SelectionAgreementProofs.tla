---------------------- MODULE SelectionAgreementProofs -----------------------
(***************************************************************************)
(* Proofs about the selection agreement, for any strategies, candidate     *)
(* lists, receive limit and number of rounds, whatever is lost, repeated   *)
(* and reordered: one commitment of an ordinal, executed together, no      *)
(* false conflict and no lost wake-up.                                     *)
(***************************************************************************)
EXTENDS SelectionAgreement, FiniteSums

-----------------------------------------------------------------------------
(* The joint order is a list of strategies *)

\* One step of the filter, from the filtered list of the entries before.
Filtered(f, mine, theirs, i) ==
    IF i = 0 THEN <<>>
    ELSE IF \E j \in DOMAIN theirs : theirs[j] = mine[i]
    THEN Append(f[i - 1], mine[i])
    ELSE f[i - 1]

\* The loop of jointSelection is such a table.
LEMMA CommonIs ==
    ASSUME NEW mine, NEW theirs
    PROVE  Common(mine, theirs) =
             (CHOOSE f : f = [i \in 0 .. Len(mine) |-> Filtered(f, mine, theirs, i)])[Len(mine)]
BY Zenon DEF Common, Filtered

\* The table exists up to any entry, by least counterexample.
LEMMA FilteredTo ==
    ASSUME NEW mine \in Lists, NEW theirs, NEW k \in 0 .. Len(mine)
    PROVE  \E f \in [0 .. k -> Lists] : \A i \in 0 .. k : f[i] = Filtered(f, mine, theirs, i)
<1> DEFINE Good(n) == \E f \in [0 .. n -> Lists] :
                         \A i \in 0 .. n : f[i] = Filtered(f, mine, theirs, i)
           Bad == {n \in 0 .. Len(mine) : ~Good(n)}
<1>1. Good(0)
  <2> DEFINE f == [i \in 0 .. 0 |-> <<>>]
  <2>1. f \in [0 .. 0 -> Lists] BY DEF Lists
  <2>2. \A i \in 0 .. 0 : f[i] = Filtered(f, mine, theirs, i) BY DEF Filtered
  <2>3. QED BY <2>1, <2>2
<1>2. ASSUME NEW n \in 0 .. Len(mine), n + 1 \in 0 .. Len(mine), Good(n) PROVE Good(n + 1)
  <2>1. PICK f \in [0 .. n -> Lists] : \A i \in 0 .. n : f[i] = Filtered(f, mine, theirs, i)
    BY <1>2
  <2> DEFINE g == [i \in 0 .. n + 1 |->
                     IF i = n + 1 THEN Filtered(f, mine, theirs, n + 1) ELSE f[i]]
  <2>2. n + 1 \in 1 .. Len(mine) /\ mine[n + 1] \in Strategies /\ n \in Nat
    BY <1>2 DEF Lists
  <2>3. Filtered(f, mine, theirs, n + 1) \in Lists BY <2>2 DEF Filtered, Lists
  <2>4. g \in [0 .. n + 1 -> Lists] BY <2>2, <2>3
  <2>5. \A i \in 0 .. n + 1 : g[i] = Filtered(g, mine, theirs, i)
    <3> SUFFICES ASSUME NEW i \in 0 .. n + 1 PROVE g[i] = Filtered(g, mine, theirs, i)
      OBVIOUS
    <3>1. CASE i = n + 1
      <4>1. g[i - 1] = f[i - 1] /\ i - 1 \in 0 .. n BY <2>2, <3>1
      <4>2. QED BY <2>2, <3>1, <4>1 DEF Filtered
    <3>2. CASE i # n + 1
      <4>1. i \in 0 .. n /\ (i # 0 => i - 1 \in 0 .. n) BY <2>2, <3>2
      <4>2. g[i] = f[i] /\ (i # 0 => g[i - 1] = f[i - 1]) BY <2>2, <4>1
      <4>3. QED BY <2>1, <4>1, <4>2 DEF Filtered
    <3>3. QED BY <3>1, <3>2
  <2>6. QED BY <2>4, <2>5
<1>3. Bad = {}
  <2> SUFFICES ASSUME Bad # {} PROVE FALSE OBVIOUS
  <2>1. Len(mine) \in Nat BY DEF Lists
  <2>2. Bad \subseteq Nat BY <2>1
  <2>3. PICK n \in Bad : \A m \in Bad : n <= m BY <2>2, LeastNat
  <2>4. n # 0 /\ n \in 0 .. Len(mine) /\ n - 1 \in 0 .. Len(mine) /\ (n - 1) + 1 = n
    <3>1. n \in 0 .. Len(mine) /\ ~Good(n) OBVIOUS
    <3> HIDE DEF Good, Bad
    <3>2. n # 0 BY <1>1, <3>1
    <3>3. QED BY <2>1, <3>1, <3>2
  <2>5. n - 1 \notin Bad
    <3> HIDE DEF Bad
    <3>1. QED BY <2>2, <2>3, <2>4
  <2>6. Good(n - 1) BY <2>4, <2>5
  <2>7. Good(n)
    <3> HIDE DEF Good
    <3>1. QED BY <1>2, <2>4, <2>6
  <2>8. QED BY <2>3, <2>7
<1>4. QED BY <1>3

\* jointSelection gives strategies of the initiator's list.
LEMMA CommonType ==
    ASSUME NEW mine \in Lists, NEW theirs
    PROVE  Common(mine, theirs) \in Lists
<1> DEFINE n == Len(mine)
           Is(f) == f = [i \in 0 .. n |-> Filtered(f, mine, theirs, i)]
           it == CHOOSE f : Is(f)
<1>1. n \in Nat BY DEF Lists
<1>2. PICK f \in [0 .. n -> Lists] : \A i \in 0 .. n : f[i] = Filtered(f, mine, theirs, i)
  <2>1. n \in 0 .. Len(mine) BY <1>1
  <2> HIDE DEF n
  <2>2. QED BY <2>1, FilteredTo
<1>3. f = [i \in 0 .. n |-> Filtered(f, mine, theirs, i)] BY <1>2
<1>4. Is(it) BY <1>3
<1>5. Common(mine, theirs) = it[n] BY CommonIs
<1>6. \A i \in 0 .. n : it[i] = Filtered(it, mine, theirs, i) BY <1>4
<1> HIDE DEF it
<1> DEFINE Bad == {i \in 0 .. n : it[i] # f[i]}
<1>7. Bad = {}
  <2> SUFFICES ASSUME Bad # {} PROVE FALSE OBVIOUS
  <2>1. Bad \subseteq Nat BY <1>1
  <2>2. PICK i \in Bad : \A j \in Bad : i <= j BY <2>1, LeastNat
  <2>3. i \in 0 .. n /\ it[i] # f[i] BY <2>2
  <2>4. i # 0 BY <1>1, <1>2, <1>6, <2>3 DEF Filtered
  <2>5. i - 1 \in 0 .. n /\ i - 1 \notin Bad
    <3> HIDE DEF Bad
    <3>1. QED BY <1>1, <2>1, <2>2, <2>3, <2>4
  <2>6. it[i - 1] = f[i - 1] BY <2>5
  <2>7. QED BY <1>2, <1>6, <2>3, <2>6 DEF Filtered
<1>8. n \in 0 .. n BY <1>1
<1>9. QED BY <1>2, <1>5, <1>7, <1>8

\* So does the order that a digest stands for.
LEMMA OrderType == ASSUME NEW d \in Digests, d # <<>> PROVE Order(d) \in Lists
<1>1. d[Len(d)] \in Lists \X Lists BY DEF Digests
<1>2. QED BY <1>1, CommonType DEF Order

-----------------------------------------------------------------------------
(* What the messages say together *)

\* The two sides.
LEMMA Peers ==
    ASSUME NEW s \in Sides
    PROVE  /\ Peer(s) \in Sides /\ Peer(s) # s /\ Peer(Peer(s)) = s
           /\ \A u \in Sides : u = s \/ u = Peer(s)
BY SelectionConstants DEF Sides, Peer

\* More messages prove no less.
LEMMA MoreMessages ==
    ASSUME NEW ms, NEW ns, ms \subseteq ns
    PROVE  /\ \A n, prev, d, x : Agreed(ms, n, prev, d, x) => Agreed(ns, n, prev, d, x)
           /\ \A p, n, d, x : Confirmed(ms, p, n, d, x) => Confirmed(ns, p, n, d, x)
           /\ \A p, n, prev : Chained(ms, p, n, prev) => Chained(ns, p, n, prev)
BY DEF Agreed, Confirmed, Chained

\* One proposal of a side for an ordinal, in any set of messages.
Single(ms) ==
    \A m, k \in ms :
        m.type = "proposal" /\ k.type = "proposal" /\ m.from = k.from /\ m.n = k.n => m = k

\* So an ordinal has one digest, one strategy and one predecessor.
LEMMA AgreedOnce ==
    ASSUME NEW ms, Single(ms), NEW n, NEW prev, NEW d, NEW x, NEW q, NEW e, NEW y,
           Agreed(ms, n, prev, d, x), Agreed(ms, n, q, e, y)
    PROVE  prev = q /\ d = e /\ x = y
<1>1. PICK i \in ms, r \in ms :
        /\ i.type = "proposal" /\ i.from = Initiator /\ i.n = n /\ i.prev = prev
        /\ r.type = "proposal" /\ r.from = Responder /\ r.n = n /\ r.prev = prev
        /\ d = Append(prev, <<i.offer, r.offer>>) /\ x = Head(Order(d))
  BY DEF Agreed
<1>2. PICK j \in ms, o \in ms :
        /\ j.type = "proposal" /\ j.from = Initiator /\ j.n = n /\ j.prev = q
        /\ o.type = "proposal" /\ o.from = Responder /\ o.n = n /\ o.prev = q
        /\ e = Append(q, <<j.offer, o.offer>>) /\ y = Head(Order(e))
  BY DEF Agreed
<1>3. i = j /\ r = o BY <1>1, <1>2 DEF Single
<1>4. QED BY <1>1, <1>2, <1>3

\* Confirmations of an ordinal name the same digest and strategy.
LEMMA OneCommitmentHolds == ASSUME MessagesSound PROVE OneCommitment
<1> SUFFICES ASSUME NEW c \in sent, NEW d \in sent,
                    c.type = "confirm", d.type = "confirm", c.n = d.n
             PROVE  c.digest = d.digest /\ c.strategy = d.strategy
  BY DEF OneCommitment
<1>1. Single(sent) BY DEF MessagesSound, Single
<1>2. Agreed(sent, c.n, c.prev, c.digest, c.strategy) /\ Agreed(sent, d.n, d.prev, d.digest, d.strategy)
  BY DEF MessagesSound
<1>3. QED BY <1>1, <1>2, AgreedOnce

\* Whoever reaches an ordinal builds on the same rounds.
LEMMA SamePrevious ==
    ASSUME MessagesSound, sent \subseteq [type : {"capability"}, from : Sides] \cup Proposals
                                              \cup Confirmations,
           NEW p \in Sides, NEW q \in Sides, NEW n \in Nat, NEW a, NEW b,
           Chained(sent, p, n, a), Chained(sent, q, n, b)
    PROVE  a = b
<1>1. CASE n = 1 BY <1>1 DEF Chained
<1>2. CASE n # 1
  <2>1. PICK c \in sent : c.type = "confirm" /\ c.n + 1 = n /\ c.digest = a
    BY <1>2 DEF Chained
  <2>2. PICK d \in sent : d.type = "confirm" /\ d.n + 1 = n /\ d.digest = b
    BY <1>2 DEF Chained
  <2>3. c.n = d.n BY <2>1, <2>2 DEF Proposals, Confirmations
  <2>4. QED BY <2>1, <2>2, <2>3, OneCommitmentHolds DEF OneCommitment
<1>3. QED BY <1>1, <1>2

\* Nobody is more than one ordinal ahead.
LEMMA NobodyAhead ==
    ASSUME TypeOK, MessagesSound, NEW s \in Sides, NEW m \in sent,
           m.type \in {"proposal", "confirm"}, m.from = Peer(s)
    PROVE  m.n <= round[s].n + 1
<1>1. PICK k \in sent : k.type = "proposal" /\ k.from = Peer(s) /\ k.n = m.n
  <2>1. CASE m.type = "proposal" BY <2>1
  <2>2. CASE m.type = "confirm"
    <3>1. Agreed(sent, m.n, m.prev, m.digest, m.strategy) BY <2>2 DEF MessagesSound
    <3>2. Peer(s) \in {Initiator, Responder} BY Peers DEF Sides
    <3>3. QED BY <3>1, <3>2 DEF Agreed
  <2>3. QED BY <2>1, <2>2
<1>2. Chained(sent, s, m.n, k.prev) BY <1>1, Peers DEF MessagesSound
<1>3. round[s].n \in Nat /\ m.n \in Nat BY Peers DEF TypeOK, MessagesSound
<1>4. CASE m.n = 1 BY <1>3, <1>4
<1>5. CASE m.n # 1
  <2>1. PICK c \in sent : c.type = "confirm" /\ c.from = s /\ c.n + 1 = m.n
    BY <1>2, <1>5 DEF Chained
  <2>2. c.n \in 1 .. round[s].n BY <2>1 DEF MessagesSound
  <2>3. QED BY <1>3, <2>1, <2>2
<1>6. QED BY <1>4, <1>5


-----------------------------------------------------------------------------
(* A step of one side *)

RunStates == [pc : RunnerStates, asleep : BOOLEAN, queue : Lists, pass : BOOLEAN,
              improving : BOOLEAN]
AgrStates == [err : Classes \cup {Nothing}, heard : BOOLEAN, late : BOOLEAN, woken : BOOLEAN]
RoundStates == [n : 0 .. MaxRounds, offer : Lists, prev : Digests, digest : Digests,
                strategy : Strategies \cup {Nothing}, confirmed : BOOLEAN, entered : BOOLEAN]
WorkStates == [n : 0 .. MaxRounds, strategy : Strategies \cup {Nothing}, open : BOOLEAN,
               running : BOOLEAN, broken : BOOLEAN, held : BOOLEAN]
Messages == [type : {"capability"}, from : Sides] \cup Proposals \cup Confirmations

LEMMA TypeIs ==
    TypeOK <=> /\ run \in [Sides -> RunStates] /\ agr \in [Sides -> AgrStates]
               /\ round \in [Sides -> RoundStates] /\ work \in [Sides -> WorkStates]
               /\ box \in [Sides -> Boxes] /\ future \in [Sides -> Boxes]
               /\ sent \subseteq Messages
BY DEF TypeOK, RunStates, AgrStates, RoundStates, WorkStates, Messages

LEMMA TypeIsNext ==
    TypeOK' <=> /\ run' \in [Sides -> RunStates] /\ agr' \in [Sides -> AgrStates]
                /\ round' \in [Sides -> RoundStates] /\ work' \in [Sides -> WorkStates]
                /\ box' \in [Sides -> Boxes] /\ future' \in [Sides -> Boxes]
                /\ sent' \subseteq Messages
BY DEF TypeOK, RunStates, AgrStates, RoundStates, WorkStates, Messages

\* A sleeper with no token in changed has seen all there is.
WakeSound(q, a, b) ==
    q.asleep /\ ~a.woken =>
        /\ a.err = Nothing
        /\ q.pc = "capability" => ~a.heard
        /\ q.pc = "proposal" => b.proposal = Nothing
        /\ q.pc = "confirmation" => b.confirm = Nothing

LEMMA WakeIs ==
    /\ WakeNotLost <=> \A s \in Sides : WakeSound(run[s], agr[s], box[s])
    /\ WakeNotLost' <=> \A s \in Sides : WakeSound(run'[s], agr'[s], box'[s])
BY DEF WakeNotLost, WakeSound, Failed, At

\* Side t moves to these values, and every other side stays as it is.
Becomes(t, q, a, r, b, f, w) ==
    /\ run' = [run EXCEPT ![t] = q] /\ agr' = [agr EXCEPT ![t] = a]
    /\ round' = [round EXCEPT ![t] = r] /\ work' = [work EXCEPT ![t] = w]
    /\ box' = [box EXCEPT ![t] = b] /\ future' = [future EXCEPT ![t] = f]

\* What the other side knows stays true when t moves and sends.
LEMMA OtherSide ==
    ASSUME NEW ms, NEW ns, ms \subseteq ns, NEW t \in Sides, NEW s \in Sides, s # t,
           \A m \in ns \ ms : m.from = t, NEW r, NEW q, NEW e, NEW b, NEW n
    PROVE  /\ RoundSound(ms, s, r, q, e) => RoundSound(ns, s, r, q, e)
           /\ BoxSound(ms, s, b, n) => BoxSound(ns, s, b, n)
<1>1. ASSUME RoundSound(ms, s, r, q, e) PROVE RoundSound(ns, s, r, q, e)
  <2>1. q.pc = "propose" => \A m \in ns : m.type = "proposal" /\ m.from = s => m.n < r.n
    BY <1>1 DEF RoundSound
  <2>2. QED BY <1>1, <2>1, MoreMessages DEF RoundSound
<1>2. QED BY <1>1 DEF BoxSound

\* The invariant after a step of t: what t's new values must satisfy.
LEMMA SideStep ==
    ASSUME IInv, NEW t \in Sides, NEW q \in RunStates, NEW a \in AgrStates,
           NEW r \in RoundStates, NEW b \in Boxes, NEW f \in Boxes, NEW w \in WorkStates,
           Becomes(t, q, a, r, b, f, w), sent' \subseteq Messages, sent \subseteq sent',
           \A m \in sent' \ sent : m.from = t, MessagesSound',
           RoundSound(sent', t, r, q, a.err # Nothing),
           BoxSound(sent', t, b, r.n), BoxSound(sent', t, f, r.n + 1),
           WorkSound(r, w), WakeSound(q, a, b), a.err # "conflict"
    PROVE  IInv'
<1>0. /\ run \in [Sides -> RunStates] /\ agr \in [Sides -> AgrStates]
      /\ round \in [Sides -> RoundStates] /\ work \in [Sides -> WorkStates]
      /\ box \in [Sides -> Boxes] /\ future \in [Sides -> Boxes]
  BY TypeIs DEF IInv
<1>1. TypeOK' BY <1>0, TypeIsNext DEF Becomes
<1>2. /\ run'[t] = q /\ agr'[t] = a /\ round'[t] = r /\ box'[t] = b /\ future'[t] = f
      /\ work'[t] = w
  BY <1>0 DEF Becomes
<1>3. ASSUME NEW s \in Sides, s # t
      PROVE  /\ run'[s] = run[s] /\ agr'[s] = agr[s] /\ round'[s] = round[s]
             /\ box'[s] = box[s] /\ future'[s] = future[s] /\ work'[s] = work[s]
  BY <1>0, <1>3 DEF Becomes
<1>4. ASSUME NEW s \in Sides PROVE SideSound(s)'
  <2>1. CASE s = t BY <1>2, <2>1 DEF SideSound, Failed
  <2>2. CASE s # t
    <3>1. SideSound(s) BY DEF IInv
    <3>2. RoundSound(sent', s, round[s], run[s], Failed(s)) BY <2>2, <3>1, OtherSide DEF SideSound
    <3>3. BoxSound(sent', s, box[s], round[s].n) /\ BoxSound(sent', s, future[s], round[s].n + 1)
      BY <2>2, <3>1, OtherSide DEF SideSound
    <3>4. QED BY <1>3, <2>2, <3>1, <3>2, <3>3 DEF SideSound, Failed
  <2>3. QED BY <2>1, <2>2
<1>5. WakeNotLost'
  <2>1. \A s \in Sides : WakeSound(run'[s], agr'[s], box'[s])
    BY <1>2, <1>3, WakeIs DEF IInv
  <2>2. QED BY <2>1, WakeIs
<1>6. NoFalseConflict' BY <1>2, <1>3 DEF IInv, NoFalseConflict
<1>7. QED BY <1>1, <1>4, <1>5, <1>6 DEF IInv

\* The messages stay sound while ordinals only grow and nothing is sent.
LEMMA NothingSent ==
    ASSUME IInv, sent' = sent, \A s \in Sides : round'[s].n \in Nat /\ round[s].n <= round'[s].n
    PROVE  MessagesSound'
<1>1. \A s \in Sides : round[s].n \in Nat BY DEF IInv, TypeOK
<1>2. \A m \in sent : m.type \in {"proposal", "confirm"} => m.from \in Sides /\ m.n \in Nat
  BY DEF IInv, TypeOK, Proposals, Confirmations
<1>3. \A m \in sent : m.type \in {"proposal", "confirm"} => m.n \in 1 .. round'[m.from].n
  BY <1>1, <1>2 DEF IInv, MessagesSound
<1>4. QED BY <1>3 DEF IInv, MessagesSound


\* A step within a round that sends nothing.
LEMMA QuietStep ==
    ASSUME IInv, NEW t \in Sides, NEW q \in RunStates, NEW a \in AgrStates,
           NEW b \in Boxes, NEW f \in Boxes, NEW w \in WorkStates,
           run' = [run EXCEPT ![t] = q], agr' = [agr EXCEPT ![t] = a],
           box' = [box EXCEPT ![t] = b], future' = [future EXCEPT ![t] = f],
           work' = [work EXCEPT ![t] = w], UNCHANGED <<round, sent>>,
           RoundSound(sent, t, round[t], q, a.err # Nothing),
           BoxSound(sent, t, b, round[t].n), BoxSound(sent, t, f, round[t].n + 1),
           WorkSound(round[t], w), WakeSound(q, a, b), a.err # "conflict"
    PROVE  IInv'
<1>1. round \in [Sides -> RoundStates] /\ sent \subseteq Messages BY TypeIs DEF IInv
<1>2. round[t] \in RoundStates /\ round' = [round EXCEPT ![t] = round[t]] BY <1>1
<1>3. Becomes(t, q, a, round[t], b, f, w) BY <1>2 DEF Becomes
<1>4. \A s \in Sides : round[s].n \in Nat BY <1>1 DEF RoundStates
<1>5. MessagesSound' BY <1>4, NothingSent
<1>6. QED BY <1>1, <1>2, <1>3, <1>5, SideStep

\* The types of what a side has.
LEMMA SideTypes ==
    ASSUME IInv, NEW t \in Sides
    PROVE  /\ run[t] \in RunStates /\ agr[t] \in AgrStates /\ round[t] \in RoundStates
           /\ work[t] \in WorkStates /\ box[t] \in Boxes /\ future[t] \in Boxes
           /\ run \in [Sides -> RunStates] /\ agr \in [Sides -> AgrStates]
           /\ round \in [Sides -> RoundStates] /\ work \in [Sides -> WorkStates]
           /\ box \in [Sides -> Boxes] /\ future \in [Sides -> Boxes]
           /\ sent \subseteq Messages
BY TypeIs DEF IInv

\* What holds of a side, part by part.
LEMMA SideFacts ==
    ASSUME IInv, NEW t \in Sides
    PROVE  /\ RoundSound(sent, t, round[t], run[t], agr[t].err # Nothing)
           /\ BoxSound(sent, t, box[t], round[t].n)
           /\ BoxSound(sent, t, future[t], round[t].n + 1)
           /\ WorkSound(round[t], work[t]) /\ WakeSound(run[t], agr[t], box[t])
           /\ agr[t].err # "conflict"
BY WakeIs DEF IInv, SideSound, Failed, NoFalseConflict

\* An empty inbox is sound.
LEMMA EmptyIs ==
    /\ EmptyBox \in Boxes
    /\ \A ms, s, n : BoxSound(ms, s, EmptyBox, n)
BY SelectionConstants DEF EmptyBox, Boxes, BoxSound

\* stopLocked: the side has failed, and its inboxes are empty or as before.
LEMMA StopValues ==
    ASSUME IInv, NEW t \in Sides, NEW class \in Classes, StopLocked(t, class)
    PROVE  \E a \in AgrStates, b \in Boxes, f \in Boxes :
              /\ agr' = [agr EXCEPT ![t] = a] /\ box' = [box EXCEPT ![t] = b]
              /\ future' = [future EXCEPT ![t] = f]
              /\ a.err \in {agr[t].err, class} /\ a.err # Nothing
              /\ b \in {EmptyBox, box[t]} /\ f \in {EmptyBox, future[t]}
              /\ a.woken \/ (a = agr[t] /\ b = box[t])
<1>1. CASE Failed(t)
  <2>1. /\ agr' = [agr EXCEPT ![t] = agr[t]] /\ box' = [box EXCEPT ![t] = box[t]]
        /\ future' = [future EXCEPT ![t] = future[t]]
    BY <1>1, SideTypes DEF StopLocked
  <2>2. QED BY <1>1, <2>1, SideTypes DEF Failed
<1>2. CASE ~Failed(t)
  <2> DEFINE a == [agr[t] EXCEPT !.err = class, !.woken = TRUE]
  <2>1. a \in AgrStates /\ a.err = class /\ a.woken BY SideTypes DEF AgrStates
  <2>2. class # Nothing BY SelectionConstants
  <2>3. /\ agr' = [agr EXCEPT ![t] = a] /\ box' = [box EXCEPT ![t] = EmptyBox]
        /\ future' = [future EXCEPT ![t] = EmptyBox]
    BY <1>2, SideTypes DEF StopLocked
  <2> HIDE DEF a
  <2>4. QED BY <2>1, <2>2, <2>3, EmptyIs
<1>3. QED BY <1>1, <1>2

\* A side that stops, wherever its runner goes, if not into the negotiation.
LEMMA StopStep ==
    ASSUME IInv, NEW t \in Sides, NEW class \in Classes, class # "conflict",
           StopLocked(t, class), NEW q \in RunStates, run' = [run EXCEPT ![t] = q],
           q = run[t] \/ (q.pc \notin Negotiation \cup {"enter"} /\ ~q.asleep),
           q.pc \in {"executing", "close"} => q.queue # <<>>,
           NEW w \in WorkStates, work' = [work EXCEPT ![t] = w], WorkSound(round[t], w),
           UNCHANGED <<round, sent>>
    PROVE  IInv'
<1>1. PICK a \in AgrStates, b \in Boxes, f \in Boxes :
              /\ agr' = [agr EXCEPT ![t] = a] /\ box' = [box EXCEPT ![t] = b]
              /\ future' = [future EXCEPT ![t] = f]
              /\ a.err \in {agr[t].err, class} /\ a.err # Nothing
              /\ b \in {EmptyBox, box[t]} /\ f \in {EmptyBox, future[t]}
              /\ a.woken \/ (a = agr[t] /\ b = box[t])
  BY StopValues
<1>2. BoxSound(sent, t, b, round[t].n) /\ BoxSound(sent, t, f, round[t].n + 1)
  BY <1>1, SideFacts, EmptyIs
<1>3. RoundSound(sent, t, round[t], q, a.err # Nothing)
  <2>1. CASE q = run[t] BY <1>1, <2>1, SideFacts DEF RoundSound
  <2>2. CASE q.pc \notin Negotiation \cup {"enter"} /\ ~q.asleep
    BY <1>1, <2>2, SideFacts DEF RoundSound, Negotiation
  <2>3. QED BY <2>1, <2>2
<1>4. WakeSound(q, a, b) BY <1>1, SideFacts DEF WakeSound
<1>5. QED BY <1>1, <1>2, <1>3, <1>4, SideFacts, QuietStep

\* An aborted negotiation.
LEMMA AbortStep ==
    ASSUME IInv, NEW t \in Sides, NEW class \in Classes, class # "conflict",
           Abort(t, class), UNCHANGED <<round, work, sent>>
    PROVE  IInv'
<1> DEFINE q == [run[t] EXCEPT !.pc = Home(t), !.asleep = FALSE]
<1>1. Home(t) \in {"bound", "ended"} BY DEF Home
<1>2. q \in RunStates /\ q.pc = Home(t) /\ ~q.asleep
  BY <1>1, SideTypes DEF RunStates, RunnerStates
<1>3. run' = [run EXCEPT ![t] = q] /\ work' = [work EXCEPT ![t] = work[t]] /\ StopLocked(t, class)
  BY SideTypes DEF Abort, Goto
<1>4. q.pc \notin Negotiation \cup {"enter"} /\ q.pc \notin {"executing", "close"}
  BY <1>1, <1>2 DEF Negotiation
<1> HIDE DEF q
<1>5. QED BY <1>2, <1>3, <1>4, SideFacts, SideTypes, StopStep

\* A step of the runner alone.
LEMMA RunStep ==
    ASSUME IInv, NEW t \in Sides, NEW q \in RunStates, run' = [run EXCEPT ![t] = q],
           UNCHANGED <<agr, round, box, future, work, sent>>,
           RoundSound(sent, t, round[t], q, agr[t].err # Nothing),
           WakeSound(q, agr[t], box[t])
    PROVE  IInv'
<1>1. /\ agr' = [agr EXCEPT ![t] = agr[t]] /\ box' = [box EXCEPT ![t] = box[t]]
      /\ future' = [future EXCEPT ![t] = future[t]] /\ work' = [work EXCEPT ![t] = work[t]]
  BY SideTypes
<1>2. /\ BoxSound(sent, t, box[t], round[t].n) /\ BoxSound(sent, t, future[t], round[t].n + 1)
      /\ WorkSound(round[t], work[t]) /\ agr[t].err # "conflict"
  BY SideFacts
<1>3. /\ agr[t] \in AgrStates /\ work[t] \in WorkStates /\ box[t] \in Boxes
      /\ future[t] \in Boxes
  BY SideTypes
<1>4. UNCHANGED <<round, sent>> OBVIOUS
<1>5. QED BY <1>1, <1>2, <1>3, <1>4, QuietStep

\* A runner that has nothing to negotiate, or no agreement any more, goes home.
LEMMA HomeStep ==
    ASSUME IInv, NEW t \in Sides, Goto(t, Home(t)), Failed(t) \/ run[t].pc \notin Negotiation,
           UNCHANGED <<agr, round, box, future, work, sent>>
    PROVE  IInv'
<1> DEFINE q == [run[t] EXCEPT !.pc = Home(t), !.asleep = FALSE]
<1>1. Home(t) \in {"bound", "ended"} BY DEF Home
<1>2. q \in RunStates /\ q.pc = Home(t) /\ ~q.asleep
  BY <1>1, SideTypes DEF RunStates, RunnerStates
<1>3. run' = [run EXCEPT ![t] = q] BY SideTypes DEF Goto
<1>4. RoundSound(sent, t, round[t], q, agr[t].err # Nothing)
  BY <1>1, <1>2, SideFacts DEF RoundSound, Negotiation, Failed
<1>5. WakeSound(q, agr[t], box[t]) BY <1>2 DEF WakeSound
<1> HIDE DEF q
<1>6. QED BY <1>2, <1>3, <1>4, <1>5, RunStep


-----------------------------------------------------------------------------
(* What is sent *)

\* One more message: what it must satisfy.
LEMMA OneSent ==
    ASSUME IInv, NEW t \in Sides, NEW m \in Messages, m.from = t, sent' = sent \cup {m},
           round' = round, m.type \in {"proposal", "confirm"} => m.n \in 1 .. round[t].n,
           m.type = "proposal" => Chained(sent, Peer(t), m.n, m.prev),
           m.type = "proposal" =>
               \A k \in sent : k.type = "proposal" /\ k.from = t => k.n < m.n,
           m.type = "confirm" => Agreed(sent, m.n, m.prev, m.digest, m.strategy)
    PROVE  MessagesSound' /\ sent' \subseteq Messages /\ sent \subseteq sent'
               /\ (\A k \in sent' \ sent : k.from = t)
<1>0. MessagesSound /\ sent \subseteq Messages BY SideTypes DEF IInv
<1>1. \A k \in sent' : k.type \in {"proposal", "confirm"} => k.n \in 1 .. round'[k.from].n
  BY <1>0 DEF MessagesSound
<1>2. \A k \in sent' : k.type = "proposal" => Chained(sent', Peer(k.from), k.n, k.prev)
  BY <1>0, MoreMessages DEF MessagesSound
<1>3. \A k \in sent' : k.type = "confirm" => Agreed(sent', k.n, k.prev, k.digest, k.strategy)
  BY <1>0, MoreMessages DEF MessagesSound
<1>4. ASSUME NEW j \in sent', NEW k \in sent', j.type = "proposal", k.type = "proposal",
             j.from = k.from, j.n = k.n
      PROVE  j = k
  <2>1. j.n \in Nat /\ k.n \in Nat
    BY <1>0, <1>4 DEF Messages, Proposals, Confirmations
  <2>2. CASE j \in sent /\ k \in sent BY <1>0, <1>4, <2>2 DEF MessagesSound
  <2>3. CASE j = m /\ k \in sent BY <1>4, <2>1, <2>3
  <2>4. CASE k = m /\ j \in sent BY <1>4, <2>1, <2>4
  <2>5. QED BY <2>2, <2>3, <2>4
<1>5. MessagesSound' BY <1>1, <1>2, <1>3, <1>4 DEF MessagesSound
<1>6. QED BY <1>0, <1>5

\* A runner that sends and goes on: the step of a side in which only its
\* runner, its deadline and the messages change.
LEMMA SendStep ==
    ASSUME IInv, NEW t \in Sides, NEW m \in Messages, m.from = t, sent' = sent \cup {m},
           m.type \in {"proposal", "confirm"} => m.n \in 1 .. round[t].n,
           m.type = "proposal" => Chained(sent, Peer(t), m.n, m.prev),
           m.type = "proposal" =>
               \A k \in sent : k.type = "proposal" /\ k.from = t => k.n < m.n,
           m.type = "confirm" => Agreed(sent, m.n, m.prev, m.digest, m.strategy),
           NEW q \in RunStates, run' = [run EXCEPT ![t] = q],
           NEW a \in AgrStates, agr' = [agr EXCEPT ![t] = a], a.err = agr[t].err, ~q.asleep,
           UNCHANGED <<round, box, future, work>>,
           RoundSound(sent', t, round[t], q, a.err # Nothing)
    PROVE  IInv'
<1>1. /\ round' = [round EXCEPT ![t] = round[t]] /\ box' = [box EXCEPT ![t] = box[t]]
      /\ future' = [future EXCEPT ![t] = future[t]] /\ work' = [work EXCEPT ![t] = work[t]]
  BY SideTypes
<1>2. Becomes(t, q, a, round[t], box[t], future[t], work[t]) BY <1>1 DEF Becomes
<1>3. /\ BoxSound(sent, t, box[t], round[t].n) /\ BoxSound(sent, t, future[t], round[t].n + 1)
      /\ WorkSound(round[t], work[t]) /\ a.err # "conflict"
  BY SideFacts
<1>4. /\ round[t] \in RoundStates /\ work[t] \in WorkStates /\ box[t] \in Boxes
      /\ future[t] \in Boxes
  BY SideTypes
<1>5. MessagesSound' /\ sent' \subseteq Messages /\ sent \subseteq sent'
        /\ (\A k \in sent' \ sent : k.from = t)
  BY OneSent
<1>6. BoxSound(sent', t, box[t], round[t].n) /\ BoxSound(sent', t, future[t], round[t].n + 1)
  BY <1>3, <1>5 DEF BoxSound
<1>7. WakeSound(q, a, box[t]) BY DEF WakeSound
<1>8. QED BY <1>2, <1>3, <1>4, <1>5, <1>6, <1>7, SideStep

\* beginSelectionPass and sendCapability
LEMMA BeginPassInv == ASSUME IInv, NEW t \in Sides, BeginPass(t) PROVE IInv'
<1>1. CASE Abort(t, "io") /\ UNCHANGED sent
  <2>1. "io" \in Classes /\ "io" # "conflict" /\ UNCHANGED <<round, work, sent>>
    BY <1>1 DEF BeginPass, Classes
  <2>2. QED BY <1>1, <2>1, AbortStep
<1>2. CASE /\ Send([type |-> "capability", from |-> t])
           /\ run' = [run EXCEPT ![t].pc = "capability", ![t].improving = At(t, "bound")]
           /\ agr' = [agr EXCEPT ![t].late = FALSE]
           /\ UNCHANGED <<box, future>>
  <2> DEFINE m == [type |-> "capability", from |-> t]
             q == [run[t] EXCEPT !.pc = "capability", !.improving = At(t, "bound")]
             a == [agr[t] EXCEPT !.late = FALSE]
  <2>1. run[t].pc \in {"new", "bound"} /\ ~Failed(t) BY DEF BeginPass, At
  <2>2. RoundSound(sent, t, round[t], run[t], agr[t].err # Nothing) BY SideFacts
  <2>3. ~run[t].asleep BY <2>1, <2>2 DEF RoundSound
  <2>4. q \in RunStates /\ q.pc = "capability" /\ ~q.asleep
    BY <2>3, SideTypes DEF RunStates, RunnerStates, At
  <2>5. a \in AgrStates /\ a.err = agr[t].err BY SideTypes DEF AgrStates
  <2>6. run' = [run EXCEPT ![t] = q] /\ agr' = [agr EXCEPT ![t] = a] BY <1>2, SideTypes
  <2>7. m \in Messages /\ m.from = t /\ m.type = "capability" BY DEF Messages
  <2>8. sent' = sent \cup {m} /\ UNCHANGED <<round, box, future, work>>
    BY <1>2 DEF Send, BeginPass
  <2> HIDE DEF m, q, a
  <2>9. sent \subseteq sent' BY <2>8
  <2>10. RoundSound(sent', t, round[t], q, a.err # Nothing)
    BY <2>1, <2>2, <2>4, <2>5, <2>9, MoreMessages DEF RoundSound, Negotiation, Failed
  <2>11. QED BY <2>4, <2>5, <2>6, <2>7, <2>8, <2>10, SendStep
<1>3. QED BY <1>1, <1>2 DEF BeginPass

\* sendSelection of a proposal: the only one of its ordinal.
LEMMA SendProposalInv == ASSUME IInv, NEW t \in Sides, SendProposal(t) PROVE IInv'
<1>0. run[t].pc = "propose" /\ UNCHANGED <<round, work>>
  BY DEF SendProposal, SendSelection, At
<1>1. CASE Abort(t, "io") /\ UNCHANGED sent
  <2>1. "io" \in Classes /\ "io" # "conflict" BY DEF Classes
  <2>2. QED BY <1>0, <1>1, <2>1, AbortStep
<1>2. CASE Send(Proposal(t)) /\ Goto(t, "proposal") /\ UNCHANGED <<agr, box, future>>
  <2> DEFINE m == Proposal(t)
             q == [run[t] EXCEPT !.pc = "proposal", !.asleep = FALSE]
  <2>1. RoundSound(sent, t, round[t], run[t], agr[t].err # Nothing) BY SideFacts
  <2>2. round[t] \in RoundStates /\ agr[t] \in AgrStates BY SideTypes
  <2>3. q \in RunStates /\ q.pc = "proposal" /\ ~q.asleep
    BY SideTypes DEF RunStates, RunnerStates
  <2>4. run' = [run EXCEPT ![t] = q] /\ agr' = [agr EXCEPT ![t] = agr[t]]
    BY <1>2, SideTypes DEF Goto
  <2>5. /\ m \in Messages /\ m.from = t /\ m.type = "proposal" /\ m.n = round[t].n
        /\ m.prev = round[t].prev
    BY <2>2 DEF Messages, Proposal, Proposals, RoundStates
  <2>6. m = [type |-> "proposal", from |-> t, n |-> round[t].n, prev |-> round[t].prev,
             offer |-> round[t].offer]
    BY DEF Proposal
  <2>7. sent' = sent \cup {m} /\ UNCHANGED <<round, box, future, work>>
    BY <1>0, <1>2 DEF Send
  <2> HIDE DEF m, q
  <2>8. sent \subseteq sent' /\ m \in sent' BY <2>7
  <2>9. round[t].n \in Nat /\ round[t].n >= 1 /\ ~round[t].confirmed
    BY <1>0, <2>1, <2>2 DEF RoundSound, Negotiation, RoundStates
  <2>10. RoundSound(sent', t, round[t], q, agr[t].err # Nothing)
    BY <2>1, <2>3, <2>6, <2>8, <2>9, MoreMessages DEF RoundSound, Negotiation
  <2>11. /\ Chained(sent, Peer(t), m.n, m.prev)
         /\ \A k \in sent : k.type = "proposal" /\ k.from = t => k.n < m.n
         /\ m.n \in 1 .. round[t].n
    BY <1>0, <2>1, <2>5, <2>9 DEF RoundSound
  <2>12. QED BY <2>2, <2>3, <2>4, <2>5, <2>7, <2>10, <2>11, SendStep
<1>3. QED BY <1>1, <1>2 DEF SendProposal, SendSelection

\* sendSelection of a confirmation: what both proposed.
LEMMA SendConfirmInv == ASSUME IInv, NEW t \in Sides, SendConfirm(t) PROVE IInv'
<1>0. run[t].pc = "confirm" /\ UNCHANGED <<round, work>>
  BY DEF SendConfirm, SendSelection, At
<1>1. CASE Abort(t, "io") /\ UNCHANGED sent
  <2>1. "io" \in Classes /\ "io" # "conflict" BY DEF Classes
  <2>2. QED BY <1>0, <1>1, <2>1, AbortStep
<1>2. CASE Send(Confirmation(t)) /\ Goto(t, "confirmation") /\ UNCHANGED <<agr, box, future>>
  <2> DEFINE m == Confirmation(t)
             q == [run[t] EXCEPT !.pc = "confirmation", !.asleep = FALSE]
  <2>1. RoundSound(sent, t, round[t], run[t], agr[t].err # Nothing) BY SideFacts
  <2>2. round[t] \in RoundStates /\ agr[t] \in AgrStates BY SideTypes
  <2>3. q \in RunStates /\ q.pc = "confirmation" /\ ~q.asleep
    BY SideTypes DEF RunStates, RunnerStates
  <2>4. run' = [run EXCEPT ![t] = q] /\ agr' = [agr EXCEPT ![t] = agr[t]]
    BY <1>2, SideTypes DEF Goto
  <2>5. Agreed(sent, round[t].n, round[t].prev, round[t].digest, round[t].strategy)
    BY <1>0, <2>1 DEF RoundSound
  <2>6. round[t].strategy \in Strategies BY <2>5 DEF Agreed
  <2>7. /\ m \in Messages /\ m.from = t /\ m.type = "confirm" /\ m.n = round[t].n
        /\ m.prev = round[t].prev /\ m.digest = round[t].digest /\ m.strategy = round[t].strategy
    BY <2>2, <2>6 DEF Messages, Confirmation, Confirmations, RoundStates
  <2>8. sent' = sent \cup {m} /\ UNCHANGED <<round, box, future, work>>
    BY <1>0, <1>2 DEF Send
  <2> HIDE DEF m, q
  <2>9. sent \subseteq sent' /\ m \in sent' BY <2>8
  <2>10. round[t].n \in Nat /\ round[t].n >= 1 /\ ~round[t].confirmed
    BY <1>0, <2>1, <2>2 DEF RoundSound, Negotiation, RoundStates
  <2>11. Confirmed(sent', t, round[t].n, round[t].digest, round[t].strategy)
    BY <2>7, <2>9 DEF Confirmed
  <2>12. RoundSound(sent', t, round[t], q, agr[t].err # Nothing)
    BY <2>1, <2>3, <2>5, <2>9, <2>10, <2>11, MoreMessages DEF RoundSound, Negotiation
  <2>13. m.n \in 1 .. round[t].n /\ Agreed(sent, m.n, m.prev, m.digest, m.strategy)
    BY <2>5, <2>7, <2>10
  <2>14. QED BY <2>2, <2>3, <2>4, <2>7, <2>8, <2>12, <2>13, SendStep
<1>3. QED BY <1>1, <1>2 DEF SendConfirm, SendSelection


-----------------------------------------------------------------------------
(* The waits of the runner *)

\* A runner that falls asleep where it may, having seen nothing.
LEMMA SleepStep ==
    ASSUME IInv, NEW t \in Sides, run[t].pc \in {"capability", "proposal", "confirmation"},
           ~Failed(t), run[t].pc = "capability" => ~agr[t].heard,
           run[t].pc = "proposal" => box[t].proposal = Nothing,
           run[t].pc = "confirmation" => box[t].confirm = Nothing,
           run' = [run EXCEPT ![t].asleep = TRUE],
           UNCHANGED <<agr, round, box, future, work, sent>>
    PROVE  IInv'
<1> DEFINE q == [run[t] EXCEPT !.asleep = TRUE]
<1>1. q \in RunStates /\ q.pc = run[t].pc /\ q.queue = run[t].queue /\ q.asleep
  BY SideTypes DEF RunStates
<1>2. run' = [run EXCEPT ![t] = q] BY SideTypes
<1> HIDE DEF q
<1>3. RoundSound(sent, t, round[t], q, agr[t].err # Nothing)
  BY <1>1, SideFacts DEF RoundSound
<1>4. WakeSound(q, agr[t], box[t]) BY <1>1 DEF WakeSound, Failed
<1>5. QED BY <1>1, <1>2, <1>3, <1>4, RunStep

\* A runner that wakes up or moves on within what it knows.
LEMMA GotoStep ==
    ASSUME IInv, NEW t \in Sides, NEW pc \in RunnerStates, Goto(t, pc),
           UNCHANGED <<agr, round, box, future, work, sent>>,
           \A q \in RunStates : q.pc = pc /\ q.queue = run[t].queue /\ ~q.asleep =>
               RoundSound(sent, t, round[t], q, agr[t].err # Nothing)
    PROVE  IInv'
<1> DEFINE q == [run[t] EXCEPT !.pc = pc, !.asleep = FALSE]
<1>1. q \in RunStates /\ q.pc = pc /\ q.queue = run[t].queue /\ ~q.asleep
  BY SideTypes DEF RunStates
<1>2. run' = [run EXCEPT ![t] = q] BY SideTypes DEF Goto
<1> HIDE DEF q
<1>3. WakeSound(q, agr[t], box[t]) BY <1>1 DEF WakeSound
<1>4. QED BY <1>1, <1>2, <1>3, RunStep

\* waitForSelectionCapability
LEMMA ReadCapabilityInv == ASSUME IInv, NEW t \in Sides, ReadCapability(t) PROVE IInv'
<1>0. run[t].pc = "capability" /\ run[t].pc \notin Negotiation /\ UNCHANGED <<round, work, sent>>
  BY DEF ReadCapability, At, Negotiation
<1>1. CASE Goto(t, Home(t)) /\ UNCHANGED <<agr, box, future>> BY <1>0, <1>1, HomeStep
<1>2. CASE Abort(t, "missing")
  <2>1. "missing" \in Classes /\ "missing" # "conflict" BY DEF Classes
  <2>2. QED BY <1>0, <1>2, <2>1, AbortStep
<1>3. CASE Goto(t, "resolve") /\ UNCHANGED <<agr, box, future>>
  <2>1. "resolve" \in RunnerStates BY DEF RunnerStates
  <2>2. RoundSound(sent, t, round[t], run[t], agr[t].err # Nothing) BY SideFacts
  <2>3. ASSUME NEW q \in RunStates, q.pc = "resolve", ~q.asleep
        PROVE  RoundSound(sent, t, round[t], q, agr[t].err # Nothing)
    BY <1>0, <2>2, <2>3 DEF RoundSound, Negotiation
  <2>4. QED BY <1>0, <1>3, <2>1, <2>3, GotoStep
<1>4. CASE /\ ~Failed(t) /\ ~agr[t].heard /\ run' = [run EXCEPT ![t].asleep = TRUE]
           /\ UNCHANGED <<agr, box, future>>
  BY <1>0, <1>4, SleepStep
<1>5. QED BY <1>1, <1>2, <1>3, <1>4 DEF ReadCapability

\* The token of changed
LEMMA TakeTokenInv == ASSUME IInv, NEW t \in Sides, TakeToken(t) PROVE IInv'
<1> DEFINE q == [run[t] EXCEPT !.asleep = FALSE]
           a == [agr[t] EXCEPT !.woken = FALSE]
<1>1. q \in RunStates /\ q.pc = run[t].pc /\ q.queue = run[t].queue /\ ~q.asleep
  BY SideTypes DEF RunStates
<1>2. a \in AgrStates /\ a.err = agr[t].err BY SideTypes DEF AgrStates
<1>3. /\ run' = [run EXCEPT ![t] = q] /\ agr' = [agr EXCEPT ![t] = a]
      /\ box' = [box EXCEPT ![t] = box[t]] /\ future' = [future EXCEPT ![t] = future[t]]
      /\ work' = [work EXCEPT ![t] = work[t]] /\ UNCHANGED <<round, sent>>
  BY SideTypes DEF TakeToken
<1> HIDE DEF q, a
<1>4. RoundSound(sent, t, round[t], q, a.err # Nothing)
  BY <1>1, <1>2, SideFacts DEF RoundSound
<1>5. WakeSound(q, a, box[t]) BY <1>1 DEF WakeSound
<1>6. /\ BoxSound(sent, t, box[t], round[t].n) /\ BoxSound(sent, t, future[t], round[t].n + 1)
      /\ WorkSound(round[t], work[t]) /\ a.err # "conflict"
  BY <1>2, SideFacts
<1>7. work[t] \in WorkStates /\ box[t] \in Boxes /\ future[t] \in Boxes BY SideTypes
<1>8. QED BY <1>1, <1>2, <1>3, <1>4, <1>5, <1>6, <1>7, QuietStep

\* The deadline of a select
LEMMA TakeDeadlineInv == ASSUME IInv, NEW t \in Sides, TakeDeadline(t) PROVE IInv'
<1>1. CASE Abort(t, "timeout")
  <2>1. "timeout" \in Classes /\ "timeout" # "conflict" BY DEF Classes
  <2>2. QED BY <1>1, <2>1, AbortStep DEF TakeDeadline
<1>2. CASE run' = [run EXCEPT ![t].asleep = FALSE] /\ UNCHANGED <<agr, box, future>>
  <2> DEFINE q == [run[t] EXCEPT !.asleep = FALSE]
  <2>1. q \in RunStates /\ q.pc = run[t].pc /\ q.queue = run[t].queue /\ ~q.asleep
    BY SideTypes DEF RunStates
  <2>2. run' = [run EXCEPT ![t] = q] BY <1>2, SideTypes
  <2> HIDE DEF q
  <2>3. RoundSound(sent, t, round[t], q, agr[t].err # Nothing)
    BY <2>1, SideFacts DEF RoundSound
  <2>4. WakeSound(q, agr[t], box[t]) BY <2>1 DEF WakeSound
  <2>5. UNCHANGED <<agr, round, box, future, work, sent>> BY <1>2 DEF TakeDeadline
  <2>6. QED BY <2>1, <2>2, <2>3, <2>4, <2>5, RunStep
<1>3. QED BY <1>1, <1>2 DEF TakeDeadline

-----------------------------------------------------------------------------
(* agreeCandidates *)

\* A side leaves a round that both sides have confirmed, with nothing of it
\* left to close, and finds in its inbox what has come for the next one.
LEMMA BeginRoundStep ==
    ASSUME IInv, NEW t \in Sides, NEW offer \in Lists, NEW pass \in BOOLEAN,
           NEW queue \in Lists, BeginRound(t, offer, pass, queue),
           run[t].pc \in {"resolve", "try"}, round[t].n < MaxRounds, UNCHANGED <<work, sent>>
    PROVE  IInv'
<1>1. CASE Failed(t) \/ ~PreviousClosed(t)
  <2>1. "previous_active" \in Classes /\ "previous_active" # "conflict" BY DEF Classes
  <2>2. Abort(t, "previous_active") /\ UNCHANGED round BY <1>1 DEF BeginRound
  <2>3. QED BY <2>1, <2>2, AbortStep
<1>2. CASE ~Failed(t) /\ PreviousClosed(t)
  <2> DEFINE q == [run[t] EXCEPT !.pc = "propose", !.queue = queue, !.pass = pass]
             a == [agr[t] EXCEPT !.late = @ /\ pass /\ round[t].n > 0]
             r == [n |-> round[t].n + 1, offer |-> offer, prev |-> round[t].digest,
                   digest |-> <<>>, strategy |-> Nothing, confirmed |-> FALSE,
                   entered |-> FALSE]
  <2>1. RoundSound(sent, t, round[t], run[t], agr[t].err # Nothing) BY SideFacts
  <2>2. ~run[t].asleep BY <2>1 DEF RoundSound
  <2>3. q \in RunStates /\ q.pc = "propose" /\ ~q.asleep
    BY <2>2, SideTypes DEF RunStates, RunnerStates
  <2>4. a \in AgrStates /\ a.err = agr[t].err BY SideTypes DEF AgrStates
  <2>5. round[t] \in RoundStates /\ round[t].n \in Nat /\ MaxRounds \in Nat
    BY SideTypes, SelectionConstants DEF RoundStates
  <2>6. r \in RoundStates BY <2>5 DEF RoundStates, Digests
  <2>7. /\ run' = [run EXCEPT ![t] = q] /\ agr' = [agr EXCEPT ![t] = a]
        /\ round' = [round EXCEPT ![t] = r] /\ box' = [box EXCEPT ![t] = future[t]]
        /\ future' = [future EXCEPT ![t] = EmptyBox] /\ work' = [work EXCEPT ![t] = work[t]]
    BY <1>2, SideTypes DEF BeginRound, NextInbox
  <2>8. Becomes(t, q, a, r, future[t], EmptyBox, work[t]) BY <2>7 DEF Becomes
  <2>9. r.n = round[t].n + 1 /\ r.prev = round[t].digest /\ ~r.confirmed OBVIOUS
  <2> HIDE DEF q, a, r
  <2>10. Chained(sent, Peer(t), r.n, r.prev)
    <3>1. round[t].n = 0 \/ round[t].confirmed
      BY <1>2, <2>1 DEF RoundSound, Failed, Negotiation
    <3>2. CASE round[t].n = 0 BY <2>1, <2>9, <3>2 DEF RoundSound, Chained
    <3>3. CASE round[t].n # 0
      <4>1. Confirmed(sent, Peer(t), round[t].n, round[t].digest, round[t].strategy)
        BY <2>1, <3>1, <3>3 DEF RoundSound
      <4>2. PICK c \in sent : /\ c.type = "confirm" /\ c.from = Peer(t) /\ c.n = round[t].n
                              /\ c.digest = round[t].digest
        BY <4>1 DEF Confirmed
      <4>3. c.n + 1 = r.n /\ r.n # 1 BY <2>5, <2>9, <3>3, <4>2
      <4>4. QED BY <2>9, <4>2, <4>3 DEF Chained
    <3>4. QED BY <3>2, <3>3
  <2>11. \A m \in sent : m.type = "proposal" /\ m.from = t => m.n < r.n
    BY <2>5, <2>9 DEF IInv, MessagesSound
  <2>12. RoundSound(sent, t, r, q, a.err # Nothing)
    BY <2>3, <2>5, <2>9, <2>10, <2>11 DEF RoundSound, Negotiation
  <2>13. BoxSound(sent, t, future[t], r.n) /\ BoxSound(sent, t, EmptyBox, r.n + 1)
    BY <2>9, SideFacts, EmptyIs
  <2>14. WorkSound(r, work[t]) BY <1>2 DEF WorkSound, PreviousClosed
  <2>15. WakeSound(q, a, future[t]) /\ a.err # "conflict" BY <2>3, <2>4, SideFacts DEF WakeSound
  <2>16. ASSUME NEW s \in Sides PROVE round'[s].n \in Nat /\ round[s].n <= round'[s].n
    <3>1. round[s].n \in Nat BY SideTypes DEF RoundStates
    <3>2. round'[s] = IF s = t THEN r ELSE round[s] BY <2>7, SideTypes
    <3>3. QED BY <2>5, <2>9, <3>1, <3>2
  <2>17. MessagesSound' BY <2>16, NothingSent
  <2>18. /\ sent' \subseteq Messages /\ sent' = sent /\ future[t] \in Boxes
         /\ work[t] \in WorkStates /\ EmptyBox \in Boxes
    BY SideTypes, EmptyIs
  <2>19. QED BY <2>3, <2>4, <2>6, <2>8, <2>12, <2>13, <2>14, <2>15, <2>17, <2>18, SideStep
<1>3. QED BY <1>1, <1>2

\* resolveStrategyCandidates
LEMMA ResolveInv == ASSUME IInv, NEW t \in Sides, Resolve(t) PROVE IInv'
<1>0. run[t].pc = "resolve" /\ round[t].n < MaxRounds /\ UNCHANGED <<work, sent>>
  BY DEF Resolve, At
<1>1. CASE \E offer \in CandidateLists : BeginRound(t, offer, TRUE, <<>>)
  <2>1. PICK offer \in CandidateLists : BeginRound(t, offer, TRUE, <<>>) BY <1>1
  <2>2. offer \in Lists /\ <<>> \in Lists BY SelectionConstants DEF Lists
  <2>3. QED BY <1>0, <2>1, <2>2, BeginRoundStep
<1>2. CASE Abort(t, "disjoint") /\ UNCHANGED round
  <2>1. "disjoint" \in Classes /\ "disjoint" # "conflict" BY DEF Classes
  <2>2. QED BY <1>0, <1>2, <2>1, AbortStep
<1>3. CASE Goto(t, Home(t)) /\ UNCHANGED <<agr, box, future, round>>
  <2>1. run[t].pc \notin Negotiation BY <1>0 DEF Negotiation
  <2>2. QED BY <1>0, <1>3, <2>1, HomeStep
<1>4. QED BY <1>1, <1>2, <1>3 DEF Resolve


\* A side that changes its round, but not the ordinal, and its runner.
LEMMA RoundStep ==
    ASSUME IInv, NEW t \in Sides, NEW q \in RunStates, run' = [run EXCEPT ![t] = q],
           NEW r \in RoundStates, round' = [round EXCEPT ![t] = r], r.n = round[t].n,
           NEW w \in WorkStates, work' = [work EXCEPT ![t] = w],
           UNCHANGED <<agr, box, future, sent>>, ~q.asleep,
           RoundSound(sent, t, r, q, agr[t].err # Nothing), WorkSound(r, w)
    PROVE  IInv'
<1>1. /\ agr' = [agr EXCEPT ![t] = agr[t]] /\ box' = [box EXCEPT ![t] = box[t]]
      /\ future' = [future EXCEPT ![t] = future[t]]
  BY SideTypes
<1>2. Becomes(t, q, agr[t], r, box[t], future[t], w) BY <1>1 DEF Becomes
<1>3. /\ BoxSound(sent, t, box[t], r.n) /\ BoxSound(sent, t, future[t], r.n + 1)
      /\ agr[t].err # "conflict"
  BY SideFacts
<1>4. agr[t] \in AgrStates /\ box[t] \in Boxes /\ future[t] \in Boxes /\ sent \subseteq Messages
  BY SideTypes
<1>5. ASSUME NEW s \in Sides PROVE round'[s].n \in Nat /\ round[s].n <= round'[s].n
  <2>1. round[s].n \in Nat BY SideTypes DEF RoundStates
  <2>2. round'[s] = IF s = t THEN r ELSE round[s] BY SideTypes
  <2>3. QED BY <2>1, <2>2
<1>6. MessagesSound' BY <1>5, NothingSent
<1>7. WakeSound(q, agr[t], box[t]) BY DEF WakeSound
<1>8. sent' = sent OBVIOUS
<1>9. QED BY <1>2, <1>3, <1>4, <1>6, <1>7, <1>8, SideStep

\* The proposal of the other side, read: it builds on the same rounds.
LEMMA ReadProposalInv == ASSUME IInv, NEW t \in Sides, ReadProposal(t) PROVE IInv'
<1> DEFINE theirs == box[t].proposal
           d == Joint(t, round[t].prev, round[t].offer, theirs.offer)
<1>0. run[t].pc = "proposal" /\ UNCHANGED <<work, sent>> BY DEF ReadProposal, At
<1>1. CASE Failed(t) /\ Goto(t, Home(t)) /\ UNCHANGED <<agr, box, future, round>>
  BY <1>0, <1>1, HomeStep
<1>2. CASE /\ ~Failed(t) /\ theirs = Nothing /\ run' = [run EXCEPT ![t].asleep = TRUE]
           /\ UNCHANGED <<agr, box, future, round>>
  BY <1>0, <1>2, SleepStep
<1>3. ASSUME theirs # Nothing
      PROVE  /\ theirs \in sent /\ theirs \in Proposals /\ theirs.from = Peer(t)
             /\ theirs.n = round[t].n /\ theirs.type = "proposal" /\ theirs.prev = round[t].prev
  <2>1. /\ theirs \in sent /\ theirs.from = Peer(t) /\ theirs.n = round[t].n
        /\ theirs.type = "proposal"
    BY <1>3, SideFacts DEF BoxSound
  <2>2. theirs \in Proposals BY <2>1, SideTypes DEF Messages, Confirmations
  <2>3. Chained(sent, t, round[t].n, theirs.prev)
    BY <2>1, Peers DEF IInv, MessagesSound
  <2>4. RoundSound(sent, t, round[t], run[t], agr[t].err # Nothing) BY SideFacts
  <2>5. round[t].n \in Nat BY SideTypes DEF RoundStates
  <2>6. Chained(sent, Peer(t), round[t].n, round[t].prev)
    BY <1>0, <2>4 DEF RoundSound, Negotiation
  <2>7. MessagesSound /\ sent \subseteq [type : {"capability"}, from : Sides] \cup Proposals
                                              \cup Confirmations
    BY DEF IInv, TypeOK
  <2>8. theirs.prev = round[t].prev BY <2>3, <2>5, <2>6, <2>7, Peers, SamePrevious
  <2>9. QED BY <2>1, <2>2, <2>8
<1>4. CASE theirs # Nothing /\ Abort(t, "disjoint") /\ UNCHANGED round
  <2>1. "disjoint" \in Classes /\ "disjoint" # "conflict" BY DEF Classes
  <2>2. QED BY <1>0, <1>4, <2>1, AbortStep
<1>5. CASE /\ theirs # Nothing /\ Order(d) # <<>>
           /\ round' = [round EXCEPT ![t].digest = d, ![t].strategy = Head(Order(d))]
           /\ Goto(t, "confirm") /\ UNCHANGED <<agr, box, future>>
  <2> DEFINE q == [run[t] EXCEPT !.pc = "confirm", !.asleep = FALSE]
             r == [round[t] EXCEPT !.digest = d, !.strategy = Head(Order(d))]
             mine == [type |-> "proposal", from |-> t, n |-> round[t].n,
                      prev |-> round[t].prev, offer |-> round[t].offer]
  <2>1. RoundSound(sent, t, round[t], run[t], agr[t].err # Nothing) BY SideFacts
  <2>2. /\ theirs \in sent /\ theirs \in Proposals /\ theirs.from = Peer(t)
        /\ theirs.n = round[t].n /\ theirs.type = "proposal" /\ theirs.prev = round[t].prev
    BY <1>3, <1>5
  <2>3. mine \in sent BY <1>0, <2>1 DEF RoundSound
  <2>4. /\ round[t] \in RoundStates /\ round[t].offer \in Lists /\ round[t].prev \in Digests
        /\ theirs.offer \in Lists
    BY <2>2, SideTypes DEF RoundStates, Proposals
  <2>5. d \in Digests /\ d # <<>> BY <2>4 DEF Joint, Digests
  <2>6. Head(Order(d)) \in Strategies BY <1>5, <2>5, OrderType DEF Lists
  <2>7. Agreed(sent, round[t].n, round[t].prev, d, Head(Order(d)))
    <3>1. CASE t = Initiator
      <4>1. /\ mine.type = "proposal" /\ mine.from = Initiator /\ mine.n = round[t].n
            /\ mine.prev = round[t].prev /\ theirs.from = Responder
            /\ d = Append(round[t].prev, <<mine.offer, theirs.offer>>)
        BY <2>2, <3>1 DEF Joint, Peer
      <4> HIDE DEF mine, theirs, d
      <4>2. QED BY <2>2, <2>3, <2>6, <4>1 DEF Agreed
    <3>2. CASE t # Initiator
      <4>1. /\ mine.type = "proposal" /\ mine.from = Responder /\ mine.n = round[t].n
            /\ mine.prev = round[t].prev /\ theirs.from = Initiator
            /\ d = Append(round[t].prev, <<theirs.offer, mine.offer>>)
        BY <2>2, <3>2 DEF Joint, Peer, Sides
      <4> HIDE DEF mine, theirs, d
      <4>2. QED BY <2>2, <2>3, <2>6, <4>1 DEF Agreed
    <3>3. QED BY <3>1, <3>2
  <2>8. q \in RunStates /\ q.pc = "confirm" /\ ~q.asleep
    BY SideTypes DEF RunStates, RunnerStates
  <2> HIDE DEF d
  <2>9. /\ r \in RoundStates /\ r.n = round[t].n /\ r.prev = round[t].prev /\ r.digest = d
        /\ r.strategy = Head(Order(d)) /\ r.confirmed = round[t].confirmed
    BY <2>4, <2>5, <2>6 DEF RoundStates
  <2>10. /\ run' = [run EXCEPT ![t] = q] /\ round' = [round EXCEPT ![t] = r]
         /\ work' = [work EXCEPT ![t] = work[t]]
    BY <1>0, <1>5, SideTypes DEF Goto
  <2> HIDE DEF q, r, mine, theirs
  <2>11. round[t].n >= 1 /\ ~round[t].confirmed BY <1>0, <2>1 DEF RoundSound, Negotiation
  <2>12. round[t].n \in Nat BY <2>4 DEF RoundStates
  <2>13. RoundSound(sent, t, r, q, agr[t].err # Nothing)
    BY <2>1, <2>7, <2>8, <2>9, <2>11, <2>12 DEF RoundSound, Negotiation
  <2>14. WorkSound(r, work[t]) BY <2>11, SideFacts DEF WorkSound
  <2>15. work[t] \in WorkStates /\ UNCHANGED <<agr, box, future, sent>> BY <1>0, <1>5, SideTypes
  <2>16. QED BY <2>8, <2>9, <2>10, <2>13, <2>14, <2>15, RoundStep
<1>6. QED
  <2>1. CASE Failed(t) BY <1>1, <2>1 DEF ReadProposal
  <2>2. CASE ~Failed(t) /\ theirs = Nothing BY <1>2, <2>2 DEF ReadProposal
  <2>3. CASE ~Failed(t) /\ theirs # Nothing
    <3>1. theirs.prev = round[t].prev BY <1>3, <2>3
    <3>2. CASE Order(d) = <<>> BY <1>4, <2>3, <3>1, <3>2 DEF ReadProposal
    <3>3. CASE Order(d) # <<>> BY <1>5, <2>3, <3>1, <3>3 DEF ReadProposal
    <3>4. QED BY <3>2, <3>3
  <2>4. QED BY <2>1, <2>2, <2>3

\* A confirmation in the inbox is of the digest this side has computed.
LEMMA ConfirmAgrees ==
    ASSUME IInv, NEW t \in Sides, NEW m \in sent, m.type = "confirm", m.n = round[t].n,
           Agreed(sent, round[t].n, round[t].prev, round[t].digest, round[t].strategy)
    PROVE  /\ m.prev = round[t].prev /\ m.digest = round[t].digest
           /\ m.strategy = round[t].strategy
<1>1. Agreed(sent, round[t].n, m.prev, m.digest, m.strategy) BY DEF IInv, MessagesSound
<1>2. Single(sent) BY DEF IInv, MessagesSound, Single
<1>3. QED BY <1>1, <1>2, AgreedOnce

LEMMA ReadConfirmInv == ASSUME IInv, NEW t \in Sides, ReadConfirm(t) PROVE IInv'
<1> DEFINE c == box[t].confirm
<1>0. run[t].pc = "confirmation" /\ UNCHANGED <<round, work, sent>> BY DEF ReadConfirm, At
<1>1. CASE Failed(t) /\ Goto(t, Home(t)) /\ UNCHANGED <<agr, box, future>>
  BY <1>0, <1>1, HomeStep
<1>2. CASE /\ ~Failed(t) /\ c = Nothing /\ run' = [run EXCEPT ![t].asleep = TRUE]
           /\ UNCHANGED <<agr, box, future>>
  BY <1>0, <1>2, SleepStep
<1>3. ASSUME c # Nothing
      PROVE  Confirms(t, c) /\ c \in sent /\ c.from = Peer(t) /\ c.n = round[t].n /\ c.type = "confirm"
  <2>1. c \in sent /\ c.from = Peer(t) /\ c.n = round[t].n /\ c.type = "confirm"
    BY <1>3, SideFacts DEF BoxSound
  <2>2. RoundSound(sent, t, round[t], run[t], agr[t].err # Nothing) BY SideFacts
  <2>3. Agreed(sent, round[t].n, round[t].prev, round[t].digest, round[t].strategy)
    BY <1>0, <2>2 DEF RoundSound
  <2> HIDE DEF c
  <2>4. QED BY <2>1, <2>3, ConfirmAgrees DEF Confirms
<1>4. CASE c # Nothing /\ Goto(t, "commit") /\ UNCHANGED <<agr, box, future>>
  <2>1. "commit" \in RunnerStates BY DEF RunnerStates
  <2>2. RoundSound(sent, t, round[t], run[t], agr[t].err # Nothing) BY SideFacts
  <2>3. Confirmed(sent, Peer(t), round[t].n, round[t].digest, round[t].strategy)
    BY <1>3, <1>4 DEF Confirms, Confirmed
  <2>4. ASSUME NEW q \in RunStates, q.pc = "commit", ~q.asleep
        PROVE  RoundSound(sent, t, round[t], q, agr[t].err # Nothing)
    BY <1>0, <2>2, <2>3, <2>4 DEF RoundSound, Negotiation
  <2>5. QED BY <1>0, <1>4, <2>1, <2>4, GotoStep
<1>5. QED
  <2>1. CASE Failed(t) BY <1>1, <2>1 DEF ReadConfirm
  <2>2. CASE ~Failed(t) /\ c = Nothing BY <1>2, <2>2 DEF ReadConfirm, ConfirmMissing
  <2>3. CASE ~Failed(t) /\ c # Nothing BY <1>3, <1>4, <2>3 DEF ReadConfirm, ConfirmMissing
  <2>4. QED BY <2>1, <2>2, <2>3

\* A digest that both agreed on has a last pair.
LEMMA AgreedDigest ==
    ASSUME NEW ms, NEW n, NEW prev \in Digests, NEW d \in Digests, NEW x, Agreed(ms, n, prev, d, x)
    PROVE  d # <<>>
BY DEF Agreed, Digests

\* The last lock of agreeCandidates
LEMMA CommitInv == ASSUME IInv, NEW t \in Sides, Commit(t) PROVE IInv'
<1>0. run[t].pc = "commit" /\ UNCHANGED <<work, sent>> BY DEF Commit, At
<1>1. CASE Abort(t, "timeout") /\ UNCHANGED round
  <2>1. "timeout" \in Classes /\ "timeout" # "conflict" BY DEF Classes
  <2>2. QED BY <1>0, <1>1, <2>1, AbortStep
<1>2. CASE /\ round' = [round EXCEPT ![t].confirmed = TRUE]
           /\ run' = [run EXCEPT ![t].pc = "try",
                         ![t].queue = IF run[t].pass THEN Order(round[t].digest) ELSE @]
           /\ UNCHANGED <<agr, box, future>>
  <2> DEFINE q == [run[t] EXCEPT !.pc = "try",
                         !.queue = IF run[t].pass THEN Order(round[t].digest) ELSE @]
             r == [round[t] EXCEPT !.confirmed = TRUE]
  <2>1. RoundSound(sent, t, round[t], run[t], agr[t].err # Nothing) BY SideFacts
  <2>2. /\ Agreed(sent, round[t].n, round[t].prev, round[t].digest, round[t].strategy)
        /\ round[t].n >= 1 /\ ~run[t].asleep /\ ~round[t].confirmed
    BY <1>0, <2>1 DEF RoundSound, Negotiation
  <2>3. /\ round[t] \in RoundStates /\ round[t].prev \in Digests /\ round[t].digest \in Digests
        /\ round[t].n \in Nat
    BY SideTypes DEF RoundStates
  <2>4. Order(round[t].digest) \in Lists BY <2>2, <2>3, AgreedDigest, OrderType
  <2>5. q \in RunStates /\ q.pc = "try" /\ ~q.asleep
    BY <2>2, <2>4, SideTypes DEF RunStates, RunnerStates
  <2>6. /\ r \in RoundStates /\ r.n = round[t].n /\ r.prev = round[t].prev
        /\ r.digest = round[t].digest /\ r.strategy = round[t].strategy /\ r.confirmed
    BY <2>3 DEF RoundStates
  <2>7. /\ run' = [run EXCEPT ![t] = q] /\ round' = [round EXCEPT ![t] = r]
        /\ work' = [work EXCEPT ![t] = work[t]]
    BY <1>0, <1>2, SideTypes
  <2> HIDE DEF q, r
  <2>8. RoundSound(sent, t, r, q, agr[t].err # Nothing)
    BY <1>0, <2>1, <2>2, <2>3, <2>5, <2>6 DEF RoundSound, Negotiation
  <2>9. WorkSound(r, work[t]) BY <2>2, SideFacts DEF WorkSound
  <2>10. work[t] \in WorkStates /\ UNCHANGED <<agr, box, future, sent>> BY <1>0, <1>2, SideTypes
  <2>11. QED BY <2>5, <2>6, <2>7, <2>8, <2>9, <2>10, RoundStep
<1>3. QED BY <1>1, <1>2 DEF Commit

-----------------------------------------------------------------------------
(* The candidates of a pass *)

\* A runner outside the negotiation stays outside it.
LEMMA MovesOn ==
    ASSUME IInv, NEW t \in Sides, run[t].pc \notin Negotiation, NEW q \in RunStates, ~q.asleep,
           q.pc \notin Negotiation \cup {"enter"}, q.pc \in {"executing", "close"} => q.queue # <<>>
    PROVE  RoundSound(sent, t, round[t], q, agr[t].err # Nothing)
<1>1. RoundSound(sent, t, round[t], run[t], agr[t].err # Nothing) BY SideFacts
<1>2. QED BY <1>1 DEF RoundSound, Negotiation

\* A candidate is over, and only the runner and what it executes change.
LEMMA WorkStep ==
    ASSUME IInv, NEW t \in Sides, run[t].pc \notin Negotiation, NEW q \in RunStates,
           run' = [run EXCEPT ![t] = q], ~q.asleep, q.pc \notin Negotiation \cup {"enter"},
           q.pc \in {"executing", "close"} => q.queue # <<>>,
           NEW w \in WorkStates, work' = [work EXCEPT ![t] = w], WorkSound(round[t], w),
           UNCHANGED <<agr, round, box, future, sent>>
    PROVE  IInv'
<1>1. RoundSound(sent, t, round[t], q, agr[t].err # Nothing) BY MovesOn
<1>2. round[t] \in RoundStates /\ round' = [round EXCEPT ![t] = round[t]] BY SideTypes
<1>3. QED BY <1>1, <1>2, RoundStep

\* The next candidate of a pass: skipped, entered, or agreed on again.
LEMMA TryInv == ASSUME IInv, NEW t \in Sides, Try(t) PROVE IInv'
<1>0. /\ run[t].pc = "try" /\ run[t].pc \notin Negotiation /\ ~run[t].asleep
      /\ UNCHANGED <<work, sent>>
  BY SideFacts DEF Try, At, Negotiation, RoundSound
<1>1. CASE Goto(t, Home(t)) /\ UNCHANGED <<agr, box, future, round>>
  BY <1>0, <1>1, HomeStep
<1>2. CASE /\ run[t].queue # <<>> /\ run' = [run EXCEPT ![t].queue = Tail(@)]
           /\ UNCHANGED <<agr, box, future, round>>
  <2> DEFINE q == [run[t] EXCEPT !.queue = Tail(@)]
  <2>1. run[t] \in RunStates /\ Tail(run[t].queue) \in Lists
    BY <1>2, SideTypes DEF RunStates, Lists
  <2>2. q \in RunStates /\ q.pc = "try" /\ ~q.asleep BY <1>0, <2>1 DEF RunStates
  <2>3. /\ run' = [run EXCEPT ![t] = q] /\ work' = [work EXCEPT ![t] = work[t]]
        /\ work[t] \in WorkStates
    BY <1>0, <1>2, SideTypes
  <2> HIDE DEF q
  <2>4. q.pc \notin Negotiation \cup {"enter"} BY <2>2 DEF Negotiation
  <2>5. QED BY <1>0, <1>2, <2>2, <2>3, <2>4, SideFacts, WorkStep
<1>3. CASE run[t].queue # <<>> /\ Ready(t) /\ Goto(t, "enter") /\ UNCHANGED <<agr, box, future, round>>
  <2>1. "enter" \in RunnerStates /\ round[t].confirmed BY <1>3 DEF RunnerStates, Ready
  <2>2. RoundSound(sent, t, round[t], run[t], agr[t].err # Nothing) BY SideFacts
  <2>3. ASSUME NEW q \in RunStates, q.pc = "enter", q.queue = run[t].queue, ~q.asleep
        PROVE  RoundSound(sent, t, round[t], q, agr[t].err # Nothing)
    BY <1>0, <1>3, <2>1, <2>2, <2>3 DEF RoundSound, Negotiation
  <2>4. QED BY <1>0, <1>3, <2>1, <2>3, GotoStep
<1>4. CASE /\ run[t].queue # <<>> /\ round[t].n < MaxRounds
           /\ BeginRound(t, <<Head(run[t].queue)>>, FALSE, run[t].queue)
  <2>1. run[t].queue \in Lists BY SideTypes DEF RunStates
  <2>2. <<Head(run[t].queue)>> \in Lists BY <1>4, <2>1 DEF Lists
  <2>3. QED BY <1>0, <1>4, <2>1, <2>2, BeginRoundStep
<1>5. QED BY <1>1, <1>2, <1>3, <1>4 DEF Try

\* enterSelection
LEMMA EnterInv == ASSUME IInv, NEW t \in Sides, Enter(t) PROVE IInv'
<1>0. run[t].pc = "enter" /\ run[t].pc \notin Negotiation /\ UNCHANGED sent
  BY DEF Enter, At, Negotiation
<1>1. RoundSound(sent, t, round[t], run[t], agr[t].err # Nothing) BY SideFacts
<1>2. round[t].confirmed /\ run[t].queue # <<>> BY <1>0, <1>1 DEF RoundSound
<1>3. CASE StopLocked(t, "timeout") /\ Goto(t, "close") /\ UNCHANGED <<round, work>>
  <2> DEFINE q == [run[t] EXCEPT !.pc = "close", !.asleep = FALSE]
  <2>1. "timeout" \in Classes /\ "timeout" # "conflict" BY DEF Classes
  <2>2. q \in RunStates /\ q.pc = "close" /\ ~q.asleep /\ q.queue # <<>>
    BY <1>2, SideTypes DEF RunStates, RunnerStates
  <2>3. /\ run' = [run EXCEPT ![t] = q] /\ work' = [work EXCEPT ![t] = work[t]]
        /\ work[t] \in WorkStates
    BY <1>3, SideTypes DEF Goto
  <2> HIDE DEF q
  <2>4. q.pc \notin Negotiation \cup {"enter"} BY <2>2 DEF Negotiation
  <2>5. QED BY <1>0, <1>3, <2>1, <2>2, <2>3, <2>4, SideFacts, StopStep
<1>4. CASE /\ round' = [round EXCEPT ![t].entered = TRUE]
           /\ work' = [work EXCEPT ![t].n = round[t].n, ![t].strategy = round[t].strategy,
                                   ![t].open = TRUE, ![t].running = TRUE]
           /\ Goto(t, "executing") /\ UNCHANGED <<agr, box, future>>
  <2> DEFINE q == [run[t] EXCEPT !.pc = "executing", !.asleep = FALSE]
             r == [round[t] EXCEPT !.entered = TRUE]
             w == [work[t] EXCEPT !.n = round[t].n, !.strategy = round[t].strategy,
                                  !.open = TRUE, !.running = TRUE]
  <2>1. round[t] \in RoundStates /\ work[t] \in WorkStates BY SideTypes
  <2>2. q \in RunStates /\ q.pc = "executing" /\ ~q.asleep /\ q.queue # <<>>
    BY <1>2, SideTypes DEF RunStates, RunnerStates
  <2>3. /\ r \in RoundStates /\ r.n = round[t].n /\ r.prev = round[t].prev
        /\ r.digest = round[t].digest /\ r.strategy = round[t].strategy /\ r.confirmed
        /\ r.offer = round[t].offer
    BY <1>2, <2>1 DEF RoundStates
  <2>4. w \in WorkStates /\ w.n = round[t].n /\ w.strategy = round[t].strategy
    BY <2>1 DEF RoundStates, WorkStates
  <2>5. /\ run' = [run EXCEPT ![t] = q] /\ round' = [round EXCEPT ![t] = r]
        /\ work' = [work EXCEPT ![t] = w]
    BY <1>4, SideTypes DEF Goto
  <2> HIDE DEF q, r, w
  <2>6. RoundSound(sent, t, r, q, agr[t].err # Nothing)
    BY <1>1, <1>2, <2>2, <2>3 DEF RoundSound, Negotiation
  <2>7. WorkSound(r, w) BY <2>3, <2>4 DEF WorkSound
  <2>8. QED BY <1>0, <1>4, <2>2, <2>3, <2>4, <2>5, <2>6, <2>7, RoundStep
<1>5. QED BY <1>3, <1>4 DEF Enter

\* executeStrategyOutcomes fails: nothing runs, but the strategy is still open.
LEMMA ExecuteFailsInv == ASSUME IInv, NEW t \in Sides, ExecuteFails(t) PROVE IInv'
<1> DEFINE q == [run[t] EXCEPT !.pc = "close", !.asleep = FALSE]
           w == [work[t] EXCEPT !.running = FALSE]
<1>0. run[t].pc = "executing" /\ run[t].pc \notin Negotiation BY DEF ExecuteFails, At, Negotiation
<1>1. run[t].queue # <<>> BY <1>0, SideFacts DEF RoundSound
<1>2. q \in RunStates /\ q.pc = "close" /\ ~q.asleep /\ q.queue # <<>>
  BY <1>1, SideTypes DEF RunStates, RunnerStates
<1>3. /\ w \in WorkStates /\ ~w.running /\ w.open = work[t].open /\ w.n = work[t].n
      /\ w.strategy = work[t].strategy
  BY SideTypes DEF WorkStates
<1>4. /\ run' = [run EXCEPT ![t] = q] /\ work' = [work EXCEPT ![t] = w]
      /\ UNCHANGED <<agr, round, box, future, sent>>
  BY SideTypes DEF ExecuteFails, Goto
<1> HIDE DEF q, w
<1>5. WorkSound(round[t], w) BY <1>3, SideFacts DEF WorkSound
<1>6. q.pc \notin Negotiation \cup {"enter"} BY <1>2 DEF Negotiation
<1>7. QED BY <1>0, <1>2, <1>3, <1>4, <1>5, <1>6, WorkStep

\* It succeeds: a path is held.
LEMMA ExecuteSucceedsInv == ASSUME IInv, NEW t \in Sides, ExecuteSucceeds(t) PROVE IInv'
<1> DEFINE w == [work[t] EXCEPT !.running = FALSE, !.held = TRUE]
<1>0. run[t].pc = "executing" /\ run[t].pc \notin Negotiation /\ ~run[t].asleep
  BY SideFacts DEF ExecuteSucceeds, At, Negotiation, RoundSound
<1>1. run[t].queue # <<>> BY <1>0, SideFacts DEF RoundSound
<1>2. /\ w \in WorkStates /\ ~w.running /\ w.open = work[t].open /\ w.n = work[t].n
      /\ w.strategy = work[t].strategy
  BY SideTypes DEF WorkStates
<1>3. work' = [work EXCEPT ![t] = w] /\ UNCHANGED <<agr, round, box, future, sent>>
  BY SideTypes DEF ExecuteSucceeds
<1> HIDE DEF w
<1>4. WorkSound(round[t], w) BY <1>2, SideFacts DEF WorkSound
<1>5. run[t] \in RunStates /\ Tail(run[t].queue) \in Lists
  BY <1>1, SideTypes DEF RunStates, Lists
<1>6. CASE Goto(t, "bound")
  <2> DEFINE q == [run[t] EXCEPT !.pc = "bound", !.asleep = FALSE]
  <2>1. q \in RunStates /\ q.pc = "bound" /\ ~q.asleep BY <1>5 DEF RunStates, RunnerStates
  <2>2. run' = [run EXCEPT ![t] = q] BY <1>6, SideTypes DEF Goto
  <2> HIDE DEF q
  <2>3. q.pc \notin Negotiation \cup {"enter"} BY <2>1 DEF Negotiation
  <2>4. QED BY <1>0, <1>2, <1>3, <1>4, <2>1, <2>2, <2>3, WorkStep
<1>7. CASE run' = [run EXCEPT ![t].pc = "try", ![t].queue = Tail(@)]
  <2> DEFINE q == [run[t] EXCEPT !.pc = "try", !.queue = Tail(@)]
  <2>1. q \in RunStates /\ q.pc = "try" /\ ~q.asleep BY <1>0, <1>5 DEF RunStates, RunnerStates
  <2>2. run' = [run EXCEPT ![t] = q] BY <1>7, SideTypes
  <2> HIDE DEF q
  <2>3. q.pc \notin Negotiation \cup {"enter"} BY <2>1 DEF Negotiation
  <2>4. QED BY <1>0, <1>2, <1>3, <1>4, <2>1, <2>2, <2>3, WorkStep
<1>8. QED BY <1>6, <1>7 DEF ExecuteSucceeds

\* selectionCleanup: what runs stays counted as running, and the side has failed.
LEMMA ExecutorCloseFailsInv == ASSUME IInv, NEW t \in Sides, ExecutorCloseFails(t) PROVE IInv'
<1> DEFINE q == [run[t] EXCEPT !.pc = "close", !.asleep = FALSE]
           w == [work[t] EXCEPT !.broken = TRUE]
<1>0. run[t].pc = "executing" /\ run[t].pc \notin Negotiation
  BY DEF ExecutorCloseFails, At, Negotiation
<1>1. run[t].queue # <<>> BY <1>0, SideFacts DEF RoundSound
<1>2. q \in RunStates /\ q.pc = "close" /\ ~q.asleep /\ q.queue # <<>>
  BY <1>1, SideTypes DEF RunStates, RunnerStates
<1>3. /\ w \in WorkStates /\ w.running = work[t].running /\ w.open = work[t].open
      /\ w.n = work[t].n /\ w.strategy = work[t].strategy
  BY SideTypes DEF WorkStates
<1>4. /\ run' = [run EXCEPT ![t] = q] /\ work' = [work EXCEPT ![t] = w]
      /\ UNCHANGED <<round, sent>> /\ StopLocked(t, "cleanup")
  BY SideTypes DEF ExecutorCloseFails, Goto
<1> HIDE DEF q, w
<1>5. WorkSound(round[t], w) BY <1>3, SideFacts DEF WorkSound
<1>6. q.pc \notin Negotiation \cup {"enter"} BY <1>2 DEF Negotiation
<1>7. "cleanup" \in Classes /\ "cleanup" # "conflict" BY DEF Classes
<1>8. QED BY <1>2, <1>3, <1>4, <1>5, <1>6, <1>7, StopStep

\* closeSelectionStrategy
LEMMA CloseStrategyInv == ASSUME IInv, NEW t \in Sides, CloseStrategy(t) PROVE IInv'
<1>0. run[t].pc = "close" /\ run[t].pc \notin Negotiation /\ ~run[t].asleep /\ UNCHANGED <<round, sent>>
  BY SideFacts DEF CloseStrategy, At, Negotiation, RoundSound
<1>1. run[t].queue # <<>> BY <1>0, SideFacts DEF RoundSound
<1>2. PICK pc \in {"try", "bound", "ended"} :
        run' = [run EXCEPT ![t].pc = pc, ![t].queue = Tail(@)]
  BY DEF CloseStrategy, Home
<1> DEFINE q == [run[t] EXCEPT !.pc = pc, !.queue = Tail(@)]
<1>3. run[t] \in RunStates /\ Tail(run[t].queue) \in Lists
  BY <1>1, SideTypes DEF RunStates, Lists
<1>4. q \in RunStates /\ q.pc = pc /\ ~q.asleep BY <1>0, <1>3 DEF RunStates, RunnerStates
<1>5. run' = [run EXCEPT ![t] = q] BY <1>2, SideTypes
<1> HIDE DEF q
<1>6. q.pc \notin Negotiation \cup {"enter"} /\ q.pc \notin {"executing", "close"}
  BY <1>4 DEF Negotiation
<1>7. CASE /\ work' = [work EXCEPT ![t].open = @ /\ work[t].strategy # Head(run[t].queue)]
           /\ UNCHANGED <<agr, box, future>>
  <2> DEFINE w == [work[t] EXCEPT !.open = @ /\ work[t].strategy # Head(run[t].queue)]
  <2>1. /\ w \in WorkStates /\ w.running = work[t].running /\ (w.open => work[t].open)
        /\ w.n = work[t].n /\ w.strategy = work[t].strategy
    BY SideTypes DEF WorkStates
  <2>2. work' = [work EXCEPT ![t] = w] BY <1>7, SideTypes
  <2> HIDE DEF w
  <2>3. WorkSound(round[t], w) BY <2>1, SideFacts DEF WorkSound
  <2>4. QED BY <1>0, <1>4, <1>5, <1>6, <1>7, <2>1, <2>2, <2>3, WorkStep
<1>8. CASE work' = [work EXCEPT ![t].broken = TRUE] /\ StopLocked(t, "cleanup")
  <2> DEFINE w == [work[t] EXCEPT !.broken = TRUE]
  <2>1. /\ w \in WorkStates /\ w.running = work[t].running /\ w.open = work[t].open
        /\ w.n = work[t].n /\ w.strategy = work[t].strategy
    BY SideTypes DEF WorkStates
  <2>2. work' = [work EXCEPT ![t] = w] BY <1>8, SideTypes
  <2> HIDE DEF w
  <2>3. WorkSound(round[t], w) BY <2>1, SideFacts DEF WorkSound
  <2>4. "cleanup" \in Classes /\ "cleanup" # "conflict" BY DEF Classes
  <2>5. QED BY <1>0, <1>4, <1>5, <1>6, <1>8, <2>1, <2>2, <2>3, <2>4, StopStep
<1>9. QED BY <1>7, <1>8 DEF CloseStrategy

-----------------------------------------------------------------------------
(* Deliveries, deadlines and Close *)

\* A side that is stopped by a delivery or by Close.
LEMMA StopInPlace ==
    ASSUME IInv, NEW t \in Sides, NEW class \in Classes, class # "conflict",
           StopLocked(t, class), UNCHANGED Lookout
    PROVE  IInv'
<1>1. /\ run' = [run EXCEPT ![t] = run[t]] /\ work' = [work EXCEPT ![t] = work[t]]
      /\ UNCHANGED <<round, sent>> /\ run[t] \in RunStates /\ work[t] \in WorkStates
  BY SideTypes DEF Lookout
<1>2. run[t].pc \in {"executing", "close"} => run[t].queue # <<>> BY SideFacts DEF RoundSound
<1>3. WorkSound(round[t], work[t]) BY SideFacts
<1>4. QED BY <1>1, <1>2, <1>3, StopStep

\* A delivery, a deadline: the agreement and its inboxes change, and with them
\* what the runner will find, but nothing it stands on.
LEMMA DeliveryStep ==
    ASSUME IInv, NEW t \in Sides, NEW a \in AgrStates, a.err = agr[t].err,
           agr' = [agr EXCEPT ![t] = a], NEW b \in Boxes, box' = [box EXCEPT ![t] = b],
           NEW f \in Boxes, future' = [future EXCEPT ![t] = f], UNCHANGED Lookout,
           BoxSound(sent, t, b, round[t].n), BoxSound(sent, t, f, round[t].n + 1),
           WakeSound(run[t], a, b)
    PROVE  IInv'
<1>1. /\ run' = [run EXCEPT ![t] = run[t]] /\ work' = [work EXCEPT ![t] = work[t]]
      /\ UNCHANGED <<round, sent>> /\ run[t] \in RunStates /\ work[t] \in WorkStates
  BY SideTypes DEF Lookout
<1>2. /\ RoundSound(sent, t, round[t], run[t], a.err # Nothing) /\ a.err # "conflict"
      /\ WorkSound(round[t], work[t])
  BY SideFacts
<1>3. QED BY <1>1, <1>2, QuietStep

\* receiveSelectionCapability
LEMMA ReceiveCapabilityInv ==
    ASSUME IInv, NEW t \in Sides, NEW m, ReceiveCapability(t, m), UNCHANGED Lookout
    PROVE  IInv'
<1>1. CASE StopLocked(t, "missing")
  <2>1. "missing" \in Classes /\ "missing" # "conflict" BY DEF Classes
  <2>2. QED BY <1>1, <2>1, StopInPlace
<1>2. CASE agr' = [agr EXCEPT ![t].heard = TRUE, ![t].woken = TRUE] /\ UNCHANGED <<box, future>>
  <2> DEFINE a == [agr[t] EXCEPT !.heard = TRUE, !.woken = TRUE]
  <2>1. a \in AgrStates /\ a.err = agr[t].err /\ a.woken BY SideTypes DEF AgrStates
  <2>2. /\ agr' = [agr EXCEPT ![t] = a] /\ box' = [box EXCEPT ![t] = box[t]]
        /\ future' = [future EXCEPT ![t] = future[t]]
    BY <1>2, SideTypes
  <2> HIDE DEF a
  <2>3. WakeSound(run[t], a, box[t]) BY <2>1 DEF WakeSound
  <2>4. box[t] \in Boxes /\ future[t] \in Boxes BY SideTypes
  <2>5. QED BY <2>1, <2>2, <2>3, <2>4, SideFacts, DeliveryStep
<1>3. QED BY <1>1, <1>2 DEF ReceiveCapability

\* A message that arrives is the one its inbox holds already, if it holds one.
LEMMA AlwaysFits ==
    ASSUME IInv, NEW t \in Sides, NEW m \in sent, m.type \in {"proposal", "confirm"},
           m.from = Peer(t), NEW b, BoxSound(sent, t, b, m.n)
    PROVE  Fits(b, m)
<1>1. Single(sent) BY DEF IInv, MessagesSound, Single
<1>2. ASSUME m.type = "proposal", b.proposal # Nothing PROVE b.proposal = m
  BY <1>1, <1>2 DEF BoxSound, Single
<1>3. ASSUME m.type = "confirm", b.confirm # Nothing PROVE b.confirm = m
  <2>1. /\ b.confirm \in sent /\ b.confirm.type = "confirm" /\ b.confirm.from = m.from
        /\ b.confirm.n = m.n
    BY <1>3 DEF BoxSound
  <2>2. /\ Agreed(sent, m.n, m.prev, m.digest, m.strategy)
        /\ Agreed(sent, m.n, b.confirm.prev, b.confirm.digest, b.confirm.strategy)
    BY <1>3, <2>1 DEF IInv, MessagesSound
  <2>3. /\ m.prev = b.confirm.prev /\ m.digest = b.confirm.digest
        /\ m.strategy = b.confirm.strategy
    BY <1>1, <2>2, AgreedOnce
  <2>4. m \in Confirmations /\ b.confirm \in Confirmations
    BY <1>3, <2>1, SideTypes DEF Messages, Proposals
  <2>5. QED BY <1>3, <2>1, <2>3, <2>4 DEF Confirmations
<1>4. QED BY <1>2, <1>3 DEF Fits

\* The inbox with it is sound, and within the limit.
LEMMA PutIs ==
    ASSUME IInv, NEW t \in Sides, NEW m \in sent, m.type \in {"proposal", "confirm"},
           m.from = Peer(t), NEW b \in Boxes, BoxSound(sent, t, b, m.n), ~OverLimit(b)
    PROVE  Put(b, m) \in Boxes /\ BoxSound(sent, t, Put(b, m), m.n)
<1>1. m.type = "proposal" => m \in Proposals
  BY SideTypes DEF Messages, Confirmations
<1>2. m.type = "confirm" => m \in Confirmations
  BY SideTypes DEF Messages, Proposals
<1>3. b.received + 1 \in 0 .. ReceiveLimit BY SelectionConstants DEF Boxes, OverLimit
<1>4. Put(b, m) \in Boxes BY <1>1, <1>2, <1>3 DEF Put, Boxes
<1>5. BoxSound(sent, t, Put(b, m), m.n) BY DEF Put, BoxSound
<1>6. QED BY <1>4, <1>5

\* receiveSelectionControl: loss, repetition and reordering bring no message
\* of another ordinal than this and the next, and none that contradicts.
LEMMA ReceiveControlInv ==
    ASSUME IInv, NEW t \in Sides, NEW m \in sent, m.from = Peer(t), ReceiveControl(t, m),
           UNCHANGED Lookout
    PROVE  IInv'
<1> DEFINE current == m.n = round[t].n
           b == IF current THEN box[t] ELSE future[t]
<1>0. m.type \in {"proposal", "confirm"} /\ ~Failed(t) /\ m.n >= round[t].n
  BY DEF ReceiveControl
<1>1. m.n <= round[t].n + 1 BY <1>0, NobodyAhead DEF IInv
<1>2. round[t].n \in Nat /\ m.n \in Nat
  BY <1>0, SideTypes DEF RoundStates, Messages, Proposals, Confirmations
<1>3. current \/ m.n = round[t].n + 1 BY <1>0, <1>1, <1>2
<1>4. b \in Boxes /\ BoxSound(sent, t, b, m.n)
  <2>1. CASE current BY <2>1, SideTypes, SideFacts
  <2>2. CASE ~current BY <1>3, <2>2, SideTypes, SideFacts
  <2>3. QED BY <2>1, <2>2
<1>5. Fits(b, m)
  <2> HIDE DEF b
  <2>1. QED BY <1>0, <1>4, AlwaysFits
<1>6. ~(/\ current /\ round[t].confirmed /\ m.type = "confirm"
        /\ m.digest # round[t].digest \/ m.strategy # round[t].strategy)
  BY SideFacts, ConfirmAgrees DEF RoundSound
<1>7. CASE StopLocked(t, "invalid")
  <2>1. "invalid" \in Classes /\ "invalid" # "conflict" BY DEF Classes
  <2>2. QED BY <1>7, <2>1, StopInPlace
<1>8. CASE /\ ~OverLimit(b) /\ agr' = WakeRunner(t)
           /\ box' = IF current THEN [box EXCEPT ![t] = Put(b, m)] ELSE box
           /\ future' = IF current THEN future ELSE [future EXCEPT ![t] = Put(b, m)]
  <2> DEFINE a == [agr[t] EXCEPT !.woken = TRUE]
             bb == IF current THEN Put(b, m) ELSE box[t]
             ff == IF current THEN future[t] ELSE Put(b, m)
  <2>1. a \in AgrStates /\ a.err = agr[t].err /\ a.woken BY SideTypes DEF AgrStates
  <2>2. Put(b, m) \in Boxes /\ BoxSound(sent, t, Put(b, m), m.n)
    <3> HIDE DEF b
    <3>1. QED BY <1>0, <1>4, <1>8, PutIs
  <2> HIDE DEF b
  <2>3. /\ agr' = [agr EXCEPT ![t] = a] /\ box' = [box EXCEPT ![t] = bb]
        /\ future' = [future EXCEPT ![t] = ff]
    BY <1>8, SideTypes DEF WakeRunner
  <2>4. bb \in Boxes /\ ff \in Boxes BY <2>2, SideTypes
  <2>5. BoxSound(sent, t, bb, round[t].n) /\ BoxSound(sent, t, ff, round[t].n + 1)
    <3>1. CASE current BY <2>2, <3>1, SideFacts
    <3>2. CASE ~current BY <1>3, <2>2, <3>2, SideFacts
    <3>3. QED BY <3>1, <3>2
  <2> HIDE DEF a, bb, ff
  <2>6. WakeSound(run[t], a, bb) BY <2>1 DEF WakeSound
  <2>7. QED BY <2>1, <2>3, <2>4, <2>5, <2>6, DeliveryStep
<1>9. ~(m.n > round[t].n + 1) BY <1>1, <1>2
<1>10. QED
  <2>1. CASE OverLimit(b) BY <1>7, <1>9, <2>1 DEF ReceiveControl
  <2>2. CASE ~OverLimit(b) BY <1>5, <1>6, <1>8, <1>9, <2>2 DEF ReceiveControl
  <2>3. QED BY <2>1, <2>2

\* A delivery
LEMMA ReceiveInv == ASSUME IInv, NEW t \in Sides, Receive(t) PROVE IInv'
<1>1. PICK m \in sent : m.from = Peer(t) /\ (ReceiveCapability(t, m) \/ ReceiveControl(t, m))
  BY DEF Receive
<1>2. UNCHANGED Lookout BY DEF Receive
<1>3. QED BY <1>1, <1>2, ReceiveCapabilityInv, ReceiveControlInv

\* A deadline that passes wakes nobody by itself.
LEMMA DeadlinePassesInv == ASSUME IInv, NEW t \in Sides, DeadlinePasses(t) PROVE IInv'
<1> DEFINE a == [agr[t] EXCEPT !.late = TRUE]
<1>1. a \in AgrStates /\ a.err = agr[t].err /\ a.woken = agr[t].woken /\ a.heard = agr[t].heard
  BY SideTypes DEF AgrStates
<1>2. /\ agr' = [agr EXCEPT ![t] = a] /\ box' = [box EXCEPT ![t] = box[t]]
      /\ future' = [future EXCEPT ![t] = future[t]] /\ UNCHANGED Lookout
  BY SideTypes DEF DeadlinePasses
<1> HIDE DEF a
<1>3. WakeSound(run[t], a, box[t]) BY <1>1, SideFacts DEF WakeSound
<1>4. box[t] \in Boxes /\ future[t] \in Boxes BY SideTypes
<1>5. QED BY <1>1, <1>2, <1>3, <1>4, SideFacts, DeliveryStep

\* Session.Close, or a message that is no message of this pair
LEMMA StopSelectionInv == ASSUME IInv, NEW t \in Sides, StopSelection(t) PROVE IInv'
<1>1. PICK class \in {"closed", "foreign"} : StopLocked(t, class) BY DEF StopSelection
<1>2. class \in Classes /\ class # "conflict" BY DEF Classes
<1>3. UNCHANGED Lookout BY DEF StopSelection
<1>4. QED BY <1>1, <1>2, <1>3, StopInPlace

-----------------------------------------------------------------------------
(* The theorems *)

\* The two sessions start with the invariant.
LEMMA InitInv == Init => IInv
<1> SUFFICES ASSUME Init PROVE IInv OBVIOUS
<1>1. /\ run \in [Sides -> RunStates] /\ agr \in [Sides -> AgrStates]
      /\ round \in [Sides -> RoundStates] /\ work \in [Sides -> WorkStates]
  BY SelectionConstants
     DEF Init, RunStates, AgrStates, RoundStates, WorkStates, RunnerStates, Lists, Digests
<1>2. box \in [Sides -> Boxes] /\ future \in [Sides -> Boxes] /\ sent \subseteq Messages
  BY EmptyIs DEF Init
<1>3. TypeOK BY <1>1, <1>2, TypeIs
<1>4. MessagesSound BY DEF Init, MessagesSound
<1>5. ASSUME NEW s \in Sides PROVE SideSound(s)
  <2>1. RoundSound(sent, s, round[s], run[s], Failed(s))
    BY DEF Init, RoundSound, Negotiation, Failed
  <2>2. BoxSound(sent, s, box[s], round[s].n) /\ BoxSound(sent, s, future[s], round[s].n + 1)
    BY EmptyIs DEF Init
  <2>3. WorkSound(round[s], work[s]) BY DEF Init, WorkSound
  <2>4. QED BY <2>1, <2>2, <2>3 DEF SideSound
<1>6. NoFalseConflict BY SelectionConstants DEF Init, NoFalseConflict, Classes
<1>7. WakeNotLost BY DEF Init, WakeNotLost
<1>8. QED BY <1>3, <1>4, <1>5, <1>6, <1>7 DEF IInv

\* Every step of either session keeps it.
LEMMA NextInv == IInv /\ [Next]_vars => IInv'
<1> SUFFICES ASSUME IInv, [Next]_vars PROVE IInv' OBVIOUS
<1>1. CASE Next
  <2>1. PICK t \in Sides :
          \/ BeginPass(t) \/ RunnerStep(t)
          \/ Receive(t) \/ DeadlinePasses(t) \/ StopSelection(t)
    BY <1>1 DEF Next
  <2>2. CASE BeginPass(t) BY <2>2, BeginPassInv
  <2>3. CASE ReadCapability(t) BY <2>3, ReadCapabilityInv
  <2>4. CASE TakeToken(t) BY <2>4, TakeTokenInv
  <2>5. CASE TakeDeadline(t) BY <2>5, TakeDeadlineInv
  <2>6. CASE Resolve(t) BY <2>6, ResolveInv
  <2>7. CASE SendProposal(t) BY <2>7, SendProposalInv
  <2>8. CASE ReadProposal(t) BY <2>8, ReadProposalInv
  <2>9. CASE SendConfirm(t) BY <2>9, SendConfirmInv
  <2>10. CASE ReadConfirm(t) BY <2>10, ReadConfirmInv
  <2>11. CASE Commit(t) BY <2>11, CommitInv
  <2>12. CASE Try(t) BY <2>12, TryInv
  <2>13. CASE Enter(t) BY <2>13, EnterInv
  <2>14. CASE ExecuteFails(t) BY <2>14, ExecuteFailsInv
  <2>15. CASE ExecuteSucceeds(t) BY <2>15, ExecuteSucceedsInv
  <2>16. CASE ExecutorCloseFails(t) BY <2>16, ExecutorCloseFailsInv
  <2>17. CASE CloseStrategy(t) BY <2>17, CloseStrategyInv
  <2>18. CASE Receive(t) BY <2>18, ReceiveInv
  <2>19. CASE DeadlinePasses(t) BY <2>19, DeadlinePassesInv
  <2>20. CASE StopSelection(t) BY <2>20, StopSelectionInv
  <2>21. QED
    BY <2>1, <2>2, <2>3, <2>4, <2>5, <2>6, <2>7, <2>8, <2>9, <2>10, <2>11, <2>12, <2>13,
       <2>14, <2>15, <2>16, <2>17, <2>18, <2>19, <2>20
    DEF RunnerStep, agreeCandidates
<1>2. CASE UNCHANGED vars
  <2>1. UNCHANGED <<run, agr, round, box, future, work, sent>> BY <1>2 DEF vars
  <2>2. TypeOK' BY <2>1, TypeIs, TypeIsNext DEF IInv
  <2>3. MessagesSound' BY <2>1 DEF IInv, MessagesSound
  <2>4. \A s \in Sides : SideSound(s)' BY <2>1 DEF IInv, SideSound, Failed
  <2>5. NoFalseConflict' BY <2>1 DEF IInv, NoFalseConflict
  <2>6. WakeNotLost' BY <2>1, WakeIs DEF IInv
  <2>7. QED BY <2>2, <2>3, <2>4, <2>5, <2>6 DEF IInv
<1>3. QED BY <1>1, <1>2

\* What executes has been confirmed by both, so neither has gone on.
LEMMA ExecutesTogetherHolds == ASSUME IInv PROVE ExecutesTogether
<1> SUFFICES ASSUME NEW s \in Sides, work[s].running
             PROVE  /\ \A p \in Sides : Confirmed(sent, p, work[s].n, round[s].digest, work[s].strategy)
                    /\ work[Peer(s)].running
                          \/ (work[Peer(s)].open /\ work[Peer(s)].strategy \notin Factories)
                          => work[Peer(s)].n = work[s].n
  BY DEF ExecutesTogether, Confirmed
<1>1. round[s].confirmed /\ work[s].n = round[s].n /\ work[s].strategy = round[s].strategy
  BY SideFacts DEF WorkSound
<1>2. /\ Confirmed(sent, s, round[s].n, round[s].digest, round[s].strategy)
      /\ Confirmed(sent, Peer(s), round[s].n, round[s].digest, round[s].strategy)
  BY <1>1, SideFacts DEF RoundSound
<1>3. \A p \in Sides : Confirmed(sent, p, work[s].n, round[s].digest, work[s].strategy)
  BY <1>1, <1>2, Peers
<1>4. ASSUME work[Peer(s)].running
                \/ (work[Peer(s)].open /\ work[Peer(s)].strategy \notin Factories)
      PROVE  work[Peer(s)].n = work[s].n
  <2>0. Peer(s) \in Sides /\ Peer(Peer(s)) = s BY Peers
  <2>1. round[Peer(s)].confirmed /\ work[Peer(s)].n = round[Peer(s)].n
    BY <1>4, <2>0, SideFacts DEF WorkSound
  <2>2. Confirmed(sent, s, round[Peer(s)].n, round[Peer(s)].digest, round[Peer(s)].strategy)
    BY <2>0, <2>1, SideFacts DEF RoundSound
  <2>3. round[s].n \in Nat /\ round[Peer(s)].n \in Nat BY <2>0, SideTypes DEF RoundStates
  <2>4. round[Peer(s)].n <= round[s].n
    BY <2>2, <2>3 DEF Confirmed, IInv, MessagesSound
  <2>5. round[s].n <= round[Peer(s)].n
    BY <1>2, <2>3 DEF Confirmed, IInv, MessagesSound
  <2>6. QED BY <1>1, <2>1, <2>3, <2>4, <2>5
<1>5. QED BY <1>3, <1>4

\* The inductive invariant of the selection agreement holds at every step of
\* the two sessions, for any candidate lists and any number of rounds: their
\* messages, rounds, inboxes and executions fit together.
THEOREM Invariance == Spec => []IInv
<1>1. Init => IInv BY InitInv
<1>2. IInv /\ [Next]_vars => IInv' BY NextInv
<1>3. QED BY <1>1, <1>2, PTL DEF Spec

\* Whatever is lost, repeated and reordered, an ordinal has one commitment, what
\* executes is confirmed by both sides and of one ordinal, honest sides never
\* accuse each other, and no wake-up is lost (selection_agreement.go,
\* selection_wire.go).
THEOREM SelectionIsSafe == Spec => []SelectionSafe
<1>1. IInv => SelectionSafe
  <2> SUFFICES ASSUME IInv PROVE SelectionSafe OBVIOUS
  <2>1. OneCommitment BY OneCommitmentHolds DEF IInv
  <2>2. ExecutesTogether BY ExecutesTogetherHolds
  <2>3. QED BY <2>1, <2>2 DEF IInv, SelectionSafe
<1>2. QED BY <1>1, Invariance, PTL
=============================================================================
