---------------------------- MODULE PublicServers ----------------------------
(***************************************************************************)
(* The two small public servers: the test signal server (signalserver), an *)
(* in-memory mailbox where two operators swap one payload each, and the    *)
(* STUN responder (stunserver).  Both put a token bucket per source and a  *)
(* global one before their work (admission.go of each).                    *)
(*                                                                         *)
(* The STUN responder is one loop that reads the clock as it handles a     *)
(* datagram.  A signal request reads the clock, waits for the lock, is     *)
(* admitted, decodes its body without the lock and takes the lock again    *)
(* for the exchange, still with the time it read first.                    *)
(***************************************************************************)
EXTENDS Integers, SequencesExt

CONSTANTS Kinds,       \* servers of the instance: "signal", "stun"
          Clients,     \* records [source, code, role], role 1 or 2
          GlobalRate, SourceRate,   \* tokens a tick, and the bucket's capacity
          MaxSources,  \* MaxSourceBuckets
          IdleLimit,   \* SourceIdleLimit
          MaxCodes,    \* MaxActiveCodes
          TTL,         \* MailboxTTL
          Hold,        \* ticks a signal request may wait for the lock
          ReadTimeout, \* ticks its body may take
          MaxRequests, \* requests of each client
          MaxTime, None

VARIABLES ssKind, ssClock,
          ssGlobal,    \* [tokens, last]
          ssSources,   \* the source table in its list order: [source, tokens, last, seen]
          ssBoxes,     \* mailboxes: [code, expires, slot], slot[role] = [payload, retrieved]
          ssRequest,   \* each client's request: [stage, now, sent]
          ssAdmitted,  \* history: <<source, real time>> of every admission
          ssDelivered, \* history: [to, payload, at, box] of every 200 answer
          ssOpened     \* history: the mailbox each code last opened: [at, first]
ssVars == <<ssKind, ssClock, ssGlobal, ssSources, ssBoxes, ssRequest, ssAdmitted, ssDelivered, ssOpened>>

----------------------------------------------------------------------------
(* Admission.                                                              *)

NewBucket(rate, now) == [tokens |-> rate, last |-> now]
\* refill: a time before the last one adds nothing.
Refill(b, rate, now) ==
  IF now < b.last THEN b
  ELSE [b EXCEPT !.tokens = LET sum == @ + (now - b.last) * rate IN IF sum > rate THEN rate ELSE sum, !.last = now]
Spend(b) == [b EXCEPT !.tokens = @ - 1]

\* removeExpired: from the front of the list, up to the first source still in use.
RemoveExpired(sources, now) ==
  LET young == {k \in DOMAIN sources : now - sources[k].seen < IdleLimit} IN
  IF young = {} THEN <<>> ELSE SubSeq(sources, CHOOSE k \in young : \A j \in young : k <= j, Len(sources))

\* The entry of a known source is moved to the back before its bucket is asked.
Known(source) == \E k \in DOMAIN ssSources : ssSources[k].source = source
Entry(source) == CHOOSE s \in ToSet(ssSources) : s.source = source
Others(source) == SelectSeq(ssSources, LAMBDA s : s.source # source)
Bucket(s) == [tokens |-> s.tokens, last |-> s.last]
Row(source, b, now) == [source |-> source, tokens |-> b.tokens, last |-> b.last, seen |-> now]

\* allow for a known source.  The STUN server charges both buckets only when both
\* have a token; the signal server takes the source's token first.
AllowKnown(source, now) ==
  LET own == Refill(Bucket(Entry(source)), SourceRate, now)
      global == Refill(ssGlobal, GlobalRate, now) IN
  IF own.tokens < 1
  THEN [ok |-> FALSE, global |-> ssGlobal, sources |-> Append(Others(source), Row(source, own, now))]
  ELSE IF global.tokens < 1
  THEN [ok |-> FALSE, global |-> global,
        sources |-> Append(Others(source), Row(source, IF ssKind = "signal" THEN Spend(own) ELSE own, now))]
  ELSE [ok |-> TRUE, global |-> Spend(global), sources |-> Append(Others(source), Row(source, Spend(own), now))]

\* allow for a new source: idle entries are dropped first; a full table refuses,
\* and then the signal server has already spent a global token.
AllowNew(source, now) ==
  LET global == Refill(ssGlobal, GlobalRate, now)
      kept == RemoveExpired(ssSources, now) IN
  IF global.tokens < 1 THEN [ok |-> FALSE, global |-> global, sources |-> ssSources]
  ELSE IF Len(kept) >= MaxSources
  THEN [ok |-> FALSE, global |-> IF ssKind = "signal" THEN Spend(global) ELSE global, sources |-> kept]
  ELSE [ok |-> TRUE, global |-> Spend(global),
        sources |-> Append(kept, Row(source, Spend(NewBucket(SourceRate, now)), now))]

allow(source, now) == IF Known(source) THEN AllowKnown(source, now) ELSE AllowNew(source, now)

----------------------------------------------------------------------------
(* The mailbox.                                                            *)

\* removeExpiredLocked.
Live(boxes, now) == SelectSeq(boxes, LAMBDA b : now < b.expires)
\* findMailboxLocked: 0 for none.
Find(boxes, code) ==
  IF \E k \in DOMAIN boxes : boxes[k].code = code THEN CHOOSE k \in DOMAIN boxes : boxes[k].code = code ELSE 0

EmptySlot == [payload |-> None, retrieved |-> FALSE]

\* exchange: [boxes, answer], answer the peer's payload or None (204).  A second
\* submission is not stored; a payload is handed out once to each side; the box
\* is removed when both have theirs.
Stored(box, role, payload) ==
  IF box.slot[role].payload = None THEN [box EXCEPT !.slot[role].payload = payload] ELSE box

\* Mutant: an answer may be fetched more than once.
MayRetrieveAgain(box, role) == box.slot[3 - role].payload # None

MayRetrieve(box, role) == box.slot[3 - role].payload # None /\ ~box.slot[role].retrieved

exchange(code, role, payload, now) ==
  LET boxes == Live(ssBoxes, now)
      k == Find(boxes, code) IN
  IF k = 0
  THEN [answer |-> None,
        boxes |-> IF Len(boxes) >= MaxCodes THEN boxes
                  ELSE Append(boxes, Stored([code |-> code, expires |-> now + TTL,
                                             slot |-> [r \in {1, 2} |-> EmptySlot]], role, payload))]
  ELSE LET box == Stored(boxes[k], role, payload) IN
       IF ~MayRetrieve(box, role) THEN [answer |-> None, boxes |-> [boxes EXCEPT ![k] = box]]
       ELSE [answer |-> box.slot[3 - role].payload,
             boxes |-> IF box.slot[3 - role].retrieved THEN RemoveAt(boxes, k)
                       ELSE [boxes EXCEPT ![k] = [box EXCEPT !.slot[role].retrieved = TRUE]]]

----------------------------------------------------------------------------
(* Requests.                                                               *)

\* ServeHTTP reads the clock, then waits for the lock.
Arrive(c) ==
  /\ ssRequest[c].stage = "idle" /\ ssRequest[c].sent < MaxRequests
  /\ ssRequest' = [ssRequest EXCEPT ![c] = [stage |-> "waiting", now |-> ssClock, sent |-> @.sent + 1]]
  /\ UNCHANGED <<ssKind, ssClock, ssGlobal, ssSources, ssBoxes, ssAdmitted, ssDelivered, ssOpened>>

\* The first locked section: 429, or on to the body.
Admit(c) ==
  LET result == allow(c.source, ssRequest[c].now) IN
  /\ ssKind = "signal" /\ ssRequest[c].stage = "waiting"
  /\ ssGlobal' = result.global /\ ssSources' = result.sources
  /\ ssAdmitted' = IF result.ok THEN Append(ssAdmitted, <<c.source, ssClock>>) ELSE ssAdmitted
  /\ ssRequest' = [ssRequest EXCEPT ![c].stage = IF result.ok THEN "body" ELSE "idle"]
  /\ UNCHANGED <<ssKind, ssClock, ssBoxes, ssDelivered, ssOpened>>

\* The body is read and valid, and exchanged; or it is refused (recordInvalid).
Exchange(c) ==
  /\ ssKind = "signal" /\ ssRequest[c].stage = "body"
  /\ LET payload == <<c, ssRequest[c].sent>>
         result == exchange(c.code, c.role, payload, ssRequest[c].now)
         opened == Find(Live(ssBoxes, ssRequest[c].now), c.code) = 0 /\ Find(result.boxes, c.code) # 0 IN
     /\ ssBoxes' = result.boxes
     /\ ssOpened' = IF opened THEN [ssOpened EXCEPT ![c.code] = ssClock] ELSE ssOpened
     /\ ssDelivered' = IF result.answer = None THEN ssDelivered
                       ELSE Append(ssDelivered, [to |-> c, payload |-> result.answer, at |-> ssClock, box |-> ssOpened[c.code]])
  /\ ssRequest' = [ssRequest EXCEPT ![c].stage = "idle"]
  /\ UNCHANGED <<ssKind, ssClock, ssGlobal, ssSources, ssAdmitted>>

Invalid(c) ==
  /\ ssKind = "signal" /\ ssRequest[c].stage = "body"
  /\ ssRequest' = [ssRequest EXCEPT ![c].stage = "idle"]
  /\ UNCHANGED <<ssKind, ssClock, ssGlobal, ssSources, ssBoxes, ssAdmitted, ssDelivered, ssOpened>>

\* handlePacket of the STUN loop, with the time of its handling.
HandlePacket(c) ==
  LET result == allow(c.source, ssClock) IN
  /\ ssKind = "stun" /\ ssRequest[c].stage = "waiting"
  /\ ssGlobal' = result.global /\ ssSources' = result.sources
  /\ ssAdmitted' = IF result.ok THEN Append(ssAdmitted, <<c.source, ssClock>>) ELSE ssAdmitted
  /\ ssRequest' = [ssRequest EXCEPT ![c].stage = "idle"]
  /\ UNCHANGED <<ssKind, ssClock, ssBoxes, ssDelivered, ssOpened>>

\* Time passes; net/http's ReadTimeout ends a request whose body is late.
Tick ==
  /\ ssClock < MaxTime
  /\ ssKind = "signal" => \A c \in Clients :
       /\ ssRequest[c].stage = "waiting" => ssClock - ssRequest[c].now < Hold
       /\ ssRequest[c].stage = "body" => ssClock - ssRequest[c].now < ReadTimeout
  /\ ssClock' = ssClock + 1
  /\ UNCHANGED <<ssKind, ssGlobal, ssSources, ssBoxes, ssRequest, ssAdmitted, ssDelivered, ssOpened>>

Init ==
  /\ ssKind \in Kinds /\ ssClock = 0
  /\ ssGlobal = NewBucket(GlobalRate, 0) /\ ssSources = <<>> /\ ssBoxes = <<>>
  /\ ssRequest = [c \in Clients |-> [stage |-> "idle", now |-> 0, sent |-> 0]]
  /\ ssAdmitted = <<>> /\ ssDelivered = <<>>
  /\ ssOpened = [code \in {c.code : c \in Clients} |-> 0]

ServeHTTP(c) == Admit(c) \/ Exchange(c) \/ Invalid(c)
Next == Tick \/ \E c \in Clients : Arrive(c) \/ ServeHTTP(c) \/ HandlePacket(c)

Spec == Init /\ [][Next]_ssVars

----------------------------------------------------------------------------
Within(times, from, to) == Len(SelectSeq(times, LAMBDA a : a[2] >= from /\ a[2] <= to))
Lag == IF ssKind = "signal" THEN Hold ELSE 0

\* Over every window of real time no more requests are admitted than the bucket
\* holds and the window refills, in all and from each source, although a source
\* may be dropped from the table and come back with a full bucket; requests that
\* waited for the lock add at most what their lag refills (admission.go).
RateBounded ==
  \A from \in 0..ssClock, to \in 0..ssClock : from <= to =>
    /\ Within(ssAdmitted, from, to) <= GlobalRate * (1 + to - from + Lag)
    /\ \A c \in Clients : Within(SelectSeq(ssAdmitted, LAMBDA a : a[1] = c.source), from, to)
                            <= SourceRate * (1 + to - from + Lag)

\* A payload goes once to each side of one mailbox, comes from the other side of
\* the same code, and never outlives the mailbox by more than the time a request
\* may carry its first clock reading (server.go exchange).
DeliveredOnce ==
  \A j \in DOMAIN ssDelivered :
    LET d == ssDelivered[j] IN
    /\ d.payload[1].code = d.to.code /\ d.payload[1].role = 3 - d.to.role
    /\ d.at <= d.box + TTL + ReadTimeout
    /\ \A k \in DOMAIN ssDelivered : k # j /\ ssDelivered[k].payload = d.payload => ssDelivered[k].to.role # d.to.role

\* Tables stay within their limits and hold a code or a source once.
TablesBounded ==
  /\ Len(ssBoxes) <= MaxCodes /\ Len(ssSources) <= MaxSources
  /\ \A j, k \in DOMAIN ssBoxes : ssBoxes[j].code = ssBoxes[k].code => j = k
  /\ \A j, k \in DOMAIN ssSources : ssSources[j].source = ssSources[k].source => j = k

ServersSafe == RateBounded /\ DeliveredOnce /\ TablesBounded
=============================================================================
