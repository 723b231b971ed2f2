----------------------------- MODULE HardNatPlan -----------------------------
(***************************************************************************)
(* How the two ends of a hard-NAT attempt come to one candidate plan:      *)
(* each observes its own NAT (hardnatobserve.Collect), infers a state      *)
(* model from that evidence alone, freezes a source commitment, sends it   *)
(* in compact form, rebuilds the peer's and computes the bilateral plan    *)
(* (internal/v2/hardnatplan, called by gateb.freezeAndExchangePlan).       *)
(*                                                                         *)
(* Digests are abstracted to the values they cover, the planner key to a   *)
(* random function of its context; the numbers of the code are scaled by   *)
(* the constants and keep their relations (a window of predictions never   *)
(* spans the port space).  The NAT is the environment: it maps by its      *)
(* class, numbers ports by a stride and wraps past the last port; another  *)
(* host behind it may take a port at any time.                             *)
(***************************************************************************)
EXTENDS Integers, SequencesExt

CONSTANTS Profiles,     \* profiles of the instance: predictive, asymmetric, hard
          NatPairs,     \* pairs [i, r] of NATs [mapping, filtering, stride]
          Starts,       \* where a NAT's port counter may stand
          PortMax,      \* 65535
          DynamicMin,   \* DynamicPortMin
          Samples,      \* ObservationSocketCount = MinSuccessfulAllocationSamples
          Window,       \* PredictiveWindowPorts
          Slots,        \* socket slots the predictive window is spread over (8)
          MapSlots,     \* sockets of the mapping set (128)
          TargetCount,  \* ports the target set tries (512)
          PerSocket,    \* hard-campaign ports per socket (1024)
          MaxDelta, MaxSpread,  \* MaxMonotonicDelta, MaxMonotonicDeltaSpread
          Keys,         \* planner keys
          MaxCompeting, \* ports taken by other hosts
          MaxLost,      \* lost answers
          None

Ends == {"i", "r"}
Peer(e) == IF e = "i" THEN "r" ELSE "i"

VARIABLES hpProfile, \* the profile both artifacts name
          hpNat,     \* each end's NAT: [class, next, map], map from (slot, key) to port
          hpSeen,    \* answers each end collected, in order of issue
          hpEnd,     \* [stage, model, local, peer, plan]
          hpWire,    \* the compact source payload each end has sent, or None
          hpKeyOf,   \* the key the random function gave to each context so far
          hpStray,   \* ends whose NAT another host used during or after the observation
          hpLost
hpVars == <<hpProfile, hpNat, hpSeen, hpEnd, hpWire, hpKeyOf, hpStray, hpLost>>

----------------------------------------------------------------------------
(* The observation.                                                        *)

\* Endpoints: primary, same address other port, other address same port, other.
Addr(k) == k \div 2
\* issueTransactions: the five RFC 5780 steps on socket 0, then one allocation
\* sample on each socket; "from" is the endpoint a reply must come from.
RFC5780 == << [slot |-> 0, to |-> 0, from |-> 0, needed |-> TRUE],
              [slot |-> 0, to |-> 1, from |-> 1, needed |-> TRUE],
              [slot |-> 0, to |-> 2, from |-> 2, needed |-> TRUE],
              [slot |-> 0, to |-> 0, from |-> 3, needed |-> FALSE],
              [slot |-> 0, to |-> 0, from |-> 1, needed |-> FALSE] >>
allocationTarget(slot) == slot % 4
Transactions ==
  RFC5780 \o [o \in 1..Samples |-> [slot |-> o - 1, to |-> allocationTarget(o - 1),
                                    from |-> allocationTarget(o - 1), needed |-> TRUE]]

\* addPort: the cyclic successor in 1..PortMax; port 0 is never produced.
addPort(port, delta) == ((port - 1 + delta) % PortMax) + 1

\* forwardPortDelta: the same port again counts as a whole turn.
forwardPortDelta(previous, next) == IF next > previous THEN next - previous ELSE (PortMax - previous) + next

\* The NAT: the key a mapping is stored under, and what it has been opened to.
NatKey(nat, t) == CASE nat.class.mapping = "eim" -> <<t.slot, 0>>
                    [] nat.class.mapping = "adm" -> <<t.slot, 1 + Addr(t.to)>>
                    [] OTHER -> <<t.slot, 3 + t.to>>
Mapped(nat, t) == IF NatKey(nat, t) \in DOMAIN nat.map THEN nat.map[NatKey(nat, t)] ELSE nat.next
Translate(nat, t) ==
  IF NatKey(nat, t) \in DOMAIN nat.map THEN nat
  ELSE [nat EXCEPT !.map = (NatKey(nat, t) :> nat.next) @@ @, !.next = addPort(@, nat.class.stride)]
\* The destinations sent through the mapping that t uses, t included.
OpenedTo(nat, t, n) ==
  {Transactions[k].to : k \in {k \in 1..n : NatKey(nat, Transactions[k]) = NatKey(nat, t)}}
Passes(nat, t, n) ==
  CASE nat.class.filtering = "eif" -> TRUE
    [] nat.class.filtering = "adf" -> \E k \in OpenedTo(nat, t, n) : Addr(k) = Addr(t.from)
    [] OTHER -> t.from \in OpenedTo(nat, t, n)

\* exchange: one request, one answer or, after perReplyDeadline, none.
Exchange(e) ==
  LET n == Len(hpSeen[e]) + 1
      t == Transactions[n] IN
  /\ hpEnd[e].stage = "observe" /\ n <= Len(Transactions)
  /\ hpNat' = [hpNat EXCEPT ![e] = Translate(@, t)]
  /\ \E received \in {Passes(hpNat[e], t, n), FALSE} :
       /\ Passes(hpNat[e], t, n) /\ ~received => hpLost < MaxLost
       /\ hpLost' = hpLost + (IF Passes(hpNat[e], t, n) /\ ~received THEN 1 ELSE 0)
       /\ hpSeen' = [hpSeen EXCEPT ![e] = Append(@, IF received THEN Mapped(hpNat[e], t) ELSE 0)]
       \* ErrRequiredReplyAbsent
       /\ hpEnd' = IF t.needed /\ ~received THEN [hpEnd EXCEPT ![e].stage = "failed"] ELSE hpEnd
  /\ UNCHANGED <<hpProfile, hpWire, hpKeyOf, hpStray>>

\* Another host behind the NAT opens a mapping.
Compete(e) ==
  /\ Cardinality(hpStray) < MaxCompeting /\ e \notin hpStray
  /\ hpEnd[e].stage \in {"observe", "frozen", "planned"}
  /\ hpNat' = [hpNat EXCEPT ![e].next = addPort(@, hpNat[e].class.stride)]
  /\ hpStray' = hpStray \cup {e}
  /\ UNCHANGED <<hpProfile, hpSeen, hpEnd, hpWire, hpKeyOf, hpLost>>

----------------------------------------------------------------------------
(* Inference.                                                              *)

\* RFC5780Machine.Result over a transcript whose five steps were accepted.
MachineResult(seen) ==
  [mapping |-> IF seen[1] = seen[2] /\ seen[1] = seen[3] THEN "eim"
               ELSE IF seen[1] = seen[2] THEN "adm" ELSE "apdm",
   filtering |-> IF seen[4] # 0 THEN "eif" ELSE IF seen[5] # 0 THEN "adf" ELSE "apdf"]

AllocationPorts(seen) == SubSeq(seen, 6, Len(seen))

\* classifyAllocation: the class and the median delta.
classifyAllocation(ports) ==
  LET deltas == [k \in 1..(Len(ports) - 1) |-> forwardPortDelta(ports[k], ports[k + 1])]
      sorted == SortSeq(deltas, <)
      minimum == sorted[1]
      maximum == sorted[Len(sorted)] IN
  [class |-> IF minimum = maximum /\ maximum <= MaxDelta THEN "sequential"
             ELSE IF maximum <= MaxDelta /\ maximum - minimum <= MaxSpread THEN "monotonic" ELSE "random",
   step |-> sorted[(Len(sorted) \div 2) + 1]]

\* predictiveSourceSchedule: a window of steps past the last sample.
predictiveSourceSchedule(last, step) == [k \in 1..Window |-> addPort(last, k * step)]

\* reusableRFC5780Endpoint: the mapped port of the primary step, for an EIM mapping.
reusableRFC5780Endpoint(seen) == IF MachineResult(seen).mapping = "eim" THEN seen[1] ELSE 0

\* The reusable endpoint must be the one socket 0's own allocation sample shows.
InferStateModel(e) ==
  LET seen == hpSeen[e]
      ports == AllocationPorts(seen)
      behaviour == MachineResult(seen)
      allocation == classifyAllocation(ports) IN
  [mapping |-> behaviour.mapping, filtering |-> behaviour.filtering, allocation |-> allocation.class,
   predicted |-> IF allocation.class = "random" THEN <<>>
                 ELSE predictiveSourceSchedule(ports[Len(ports)], allocation.step),
   endpoint |-> reusableRFC5780Endpoint(seen),
   witnessed |-> reusableRFC5780Endpoint(seen) \in {0, ports[1]}]

\* normalizeEvidence: every issued transaction was seen; then the hard campaign's
\* own demands in Collect.
Collected(e) == Len(hpSeen[e]) = Len(Transactions)
HardCampaign(e, model) ==
  hpProfile = "hard" => /\ model.mapping = "apdm" /\ model.allocation = "random"
                        /\ \A port \in ToSet(AllocationPorts(hpSeen[e])) : port >= DynamicMin

\* The planner's roles: the initiator is the mapping set, the responder the target set.
Role(e) == IF hpProfile = "asymmetric" THEN (IF e = "i" THEN "mapping" ELSE "target") ELSE e

validateModelForProfile(role, model) ==
  CASE hpProfile = "predictive" -> model.mapping # "eim" /\ model.allocation # "random" /\ Len(model.predicted) = Window
    [] hpProfile = "asymmetric" -> IF role = "mapping" THEN model.mapping # "eim"
                                   ELSE model.mapping = "eim" /\ model.endpoint # 0
    [] OTHER -> model.mapping # "eim" /\ model.allocation = "random"

----------------------------------------------------------------------------
(* Commitments.                                                            *)

HardSockets == (PortMax - DynamicMin + 1) \div PerSocket

\* shapeFor: the sockets and the number of candidates of a direction.
shapeFor(role) ==
  CASE hpProfile = "predictive" -> [sockets |-> Slots, candidates |-> Window]
    [] hpProfile = "asymmetric" -> [sockets |-> MapSlots, candidates |-> IF role = "mapping" THEN MapSlots ELSE TargetCount]
    [] OTHER -> [sockets |-> HardSockets, candidates |-> PortMax - DynamicMin + 1]

\* sourceSlotsFor; slots count from 0.  Port 0 means "not predicted".
sourceSlotsFor(role, predicted, endpoint) ==
  CASE hpProfile = "predictive" -> [k \in 1..Len(predicted) |-> [slot |-> (k - 1) % Slots, port |-> predicted[k]]]
    [] hpProfile = "asymmetric" /\ role = "target" -> << [slot |-> 0, port |-> endpoint] >>
    [] OTHER -> [k \in 1..shapeFor(role).sockets |-> [slot |-> k - 1, port |-> 0]]

\* validateSourceSlots (with the length sourceSlotsFor gives).
validSourceSlots(c) ==
  /\ Len(c.slots) = (IF hpProfile = "predictive" THEN Window
                     ELSE IF c.role = "target" THEN 1 ELSE shapeFor(c.role).sockets)
  /\ hpProfile = "predictive" =>
       /\ \A k \in DOMAIN c.slots : c.slots[k].port # 0 /\ c.slots[k].slot = (k - 1) % Slots
       /\ IsInjective([k \in DOMAIN c.slots |-> c.slots[k].port])
  /\ c.role = "target" => c.slots[1].port = c.endpoint /\ c.slots[1].slot < shapeFor("target").sockets

\* validateLocalCommitment.  The evidence digest stands for the evidence itself.
validateLocalCommitment(c) == validSourceSlots(c) /\ (c.endpoint # 0 <=> c.role = "target")

\* BuildLocalCommitment: only the target set names the endpoint it receives on.
BuildLocalCommitment(e, model) ==
  LET endpoint == IF Role(e) = "target" THEN model.endpoint ELSE 0 IN
  [role |-> Role(e), endpoint |-> endpoint, evidence |-> hpSeen[e],
   slots |-> sourceSlotsFor(Role(e), model.predicted, endpoint)]

\* CompactSourceInputFor keeps the ports, the endpoint and its socket slot.
CompactSourceInputFor(c) ==
  [role |-> c.role, endpoint |-> c.endpoint, evidence |-> c.evidence,
   slot |-> IF c.role = "target" THEN c.slots[1].slot ELSE 0,
   ports |-> IF hpProfile = "predictive" THEN [k \in 1..Window |-> c.slots[k].port] ELSE <<>>]

\* Collect's end and the first half of freezeAndExchangePlan: infer, check the
\* profile, commit, and send the source payload.
Freeze(e) ==
  LET model == InferStateModel(e)
      commitment == BuildLocalCommitment(e, model) IN
  /\ hpEnd[e].stage = "observe" /\ Collected(e)
  /\ IF model.witnessed /\ HardCampaign(e, model) /\ validateModelForProfile(Role(e), model)
        /\ validateLocalCommitment(commitment)
     THEN /\ hpEnd' = [hpEnd EXCEPT ![e].stage = "frozen", ![e].model = model, ![e].local = commitment]
          /\ hpWire' = [hpWire EXCEPT ![e] = CompactSourceInputFor(commitment)]
     ELSE /\ hpEnd' = [hpEnd EXCEPT ![e].stage = "failed", ![e].model = model]
          /\ UNCHANGED hpWire
  /\ UNCHANGED <<hpProfile, hpNat, hpSeen, hpKeyOf, hpStray, hpLost>>

\* ReconstructLocalCommitment: the same slots from the compact form.
ReconstructLocalCommitment(w) ==
  [role |-> w.role, endpoint |-> w.endpoint, evidence |-> w.evidence,
   slots |-> sourceSlotsFor(w.role, w.ports, w.endpoint)]

----------------------------------------------------------------------------
(* The bilateral plan.                                                     *)

\* canonicalCommitments: by role, whichever order they are given in.
canonicalCommitments(left, right) ==
  IF left.role = Role("i") THEN <<left, right>> ELSE <<right, left>>

\* prfIndex: any function of the key, the domain and the ordinal.
prfIndex(key, domain, ordinal, bound) == ((key + domain) * (ordinal + 1)) % bound
\* shuffleUint16: Fisher-Yates from the last value down.
shuffleUint16(key, domain, values) ==
  FoldLeft(LAMBDA seq, k : LET index == Len(values) - k
                               selected == prfIndex(key, domain, index, index + 1) IN
                           [seq EXCEPT ![index + 1] = seq[selected + 1], ![selected + 1] = seq[index + 1]],
           values, [k \in 1..(Len(values) - 1) |-> k])
\* The domain label: the role is part of every label but the predictive pairing's.
Domain(role) == CASE role \in {"r", "target"} -> 2 [] OTHER -> 1

portRange(minimum, maximum) == [k \in 1..(maximum - minimum + 1) |-> minimum + k - 1]

\* Mutant: without the inverse.
PairingOneWay(role, key) == shuffleUint16(key, 0, [k \in 1..Window |-> k])

\* The pairing of the window: the initiator's permutation, the responder's inverse.
Pairing(role, key) ==
  LET permutation == shuffleUint16(key, 0, [k \in 1..Window |-> k]) IN
  IF role = "r" THEN [k \in 1..Window |-> CHOOSE j \in 1..Window : permutation[j] = k] ELSE permutation

buildDirectionalCandidates(local, peer, key) ==
  CASE hpProfile = "predictive" ->
         [k \in 1..Window |-> [slot |-> local.slots[k].slot, source |-> local.slots[k].port,
                               target |-> peer.slots[Pairing(local.role, key)[k]].port]]
    [] local.role = "mapping" ->
         LET slots == shuffleUint16(key, Domain(local.role), [k \in 1..MapSlots |-> local.slots[k].slot]) IN
         [k \in 1..MapSlots |-> [slot |-> slots[k], source |-> 0, target |-> peer.endpoint]]
    [] local.role = "target" ->
         LET ports == shuffleUint16(key, Domain(local.role), portRange(1, PortMax)) IN
         [k \in 1..TargetCount |-> [slot |-> local.slots[1].slot, source |-> local.endpoint, target |-> ports[k]]]
    [] OTHER ->
         LET ports == shuffleUint16(key, Domain(local.role), portRange(DynamicMin, PortMax)) IN
         [k \in DOMAIN ports |-> [slot |-> (k - 1) \div PerSocket, source |-> 0, target |-> ports[k]]]

\* validatePlanCandidates.
validPlanCandidates(candidates, source) ==
  /\ Len(candidates) = shapeFor(source.role).candidates
  /\ IsInjective([k \in DOMAIN candidates |-> <<candidates[k].slot, candidates[k].target>>])
  /\ \A k \in DOMAIN candidates :
       /\ candidates[k].target # 0 /\ candidates[k].slot < shapeFor(source.role).sockets
       /\ candidates[k].source = (IF hpProfile = "predictive" THEN source.slots[k].port ELSE source.endpoint)

\* BuildBilateralPlan: both directions from the same two commitments and key.
BuildBilateralPlan(both, key) ==
  [roles |-> <<both[1].role, both[2].role>>,
   plans |-> [d \in {1, 2} |-> buildDirectionalCandidates(both[d], both[3 - d], key)]]

\* VerifyExecutablePlanAgainstCommitment, for the direction of the commitment.
VerifyPlanAgainstCommitment(plan, source) ==
  \E d \in {1, 2} : plan.roles[d] = source.role /\ validPlanCandidates(plan.plans[d], source)

\* The second half of freezeAndExchangePlan: the peer's payload has arrived.
ExchangePlan(e) ==
  LET peer == ReconstructLocalCommitment(hpWire[Peer(e)])
      both == canonicalCommitments(hpEnd[e].local, peer)
      context == <<both[1].evidence, both[2].evidence>> IN
  /\ hpEnd[e].stage = "frozen" /\ hpWire[Peer(e)] # None
  /\ \E key \in Keys :
       LET plan == BuildBilateralPlan(both, key)
           valid == /\ peer.role = Role(Peer(e)) /\ validateLocalCommitment(peer)
                    /\ VerifyPlanAgainstCommitment(plan, hpEnd[e].local)
                    /\ VerifyPlanAgainstCommitment(plan, peer) IN
       /\ context \in DOMAIN hpKeyOf => hpKeyOf[context] = key
       /\ hpKeyOf' = (context :> key) @@ hpKeyOf
       /\ hpEnd' = [hpEnd EXCEPT ![e].stage = IF valid THEN "planned" ELSE "failed", ![e].peer = peer,
                                 ![e].plan = IF valid THEN plan ELSE None]
  /\ UNCHANGED <<hpProfile, hpNat, hpSeen, hpWire, hpStray, hpLost>>

\* Before firing the evidence is inferred again at the present time: it either
\* has expired or gives the very same model (revalidateFreshEvidence).
Revalidate(e) ==
  /\ hpEnd[e].stage = "planned"
  /\ \E expired \in BOOLEAN :
       hpEnd' = [hpEnd EXCEPT ![e].stage = IF expired \/ InferStateModel(e) # hpEnd[e].model THEN "failed" ELSE "fired"]
  /\ UNCHANGED <<hpProfile, hpNat, hpSeen, hpWire, hpKeyOf, hpStray, hpLost>>

Init ==
  /\ hpProfile \in Profiles
  /\ \E pair \in NatPairs, start \in Starts :
       hpNat = [e \in Ends |-> [class |-> pair[e], next |-> start, map |-> <<>>]]
  /\ hpSeen = [e \in Ends |-> <<>>]
  /\ hpEnd = [e \in Ends |-> [stage |-> "observe", model |-> None, local |-> None, peer |-> None, plan |-> None]]
  /\ hpWire = [e \in Ends |-> None]
  /\ hpKeyOf = <<>> /\ hpStray = {} /\ hpLost = 0

freezeAndExchangePlan(e) == Freeze(e) \/ ExchangePlan(e)
Next == \E e \in Ends : Exchange(e) \/ Compete(e) \/ freezeAndExchangePlan(e) \/ Revalidate(e)

Spec == Init /\ [][Next]_hpVars

----------------------------------------------------------------------------
Planned(e) == hpEnd[e].plan # None

\* Both ends that plan hold the same bilateral plan, whichever of them was the
\* first argument, and each rebuilt exactly what the other committed to
\* (planner.go canonicalCommitments, compact.go).
SamePlan ==
  /\ Planned("i") /\ Planned("r") => hpEnd["i"].plan = hpEnd["r"].plan
  /\ \A e \in Ends : hpEnd[e].peer # None => hpEnd[e].peer = hpEnd[Peer(e)].local

\* A predictive plan pairs the two windows: every candidate aims at a port from
\* which some candidate of the other direction comes back at it, so that two
\* port-filtering NATs open to each other (buildDirectionalCandidates).
Reciprocal ==
  \A e \in Ends : Planned(e) /\ hpProfile = "predictive" =>
    LET plans == hpEnd[e].plan.plans IN
    \A d \in {1, 2} : \A k \in 1..Window : \E j \in 1..Window :
      plans[3 - d][j].source = plans[d][k].target /\ plans[3 - d][j].target = plans[d][k].source

\* An asymmetric plan lets the sets meet: the mapping set aims at the port the
\* target set sends from.
SetsMeet ==
  \A e \in Ends : Planned(e) /\ hpProfile = "asymmetric" =>
    \A m \in ToSet(hpEnd[e].plan.plans[1]), t \in ToSet(hpEnd[e].plan.plans[2]) : m.target = t.source

\* The committed window is the NAT's own future: while no other host takes a
\* port, the next ports of the NAT are the predicted ones in their order, past
\* the wrap too, although the first sample reuses a mapping of the RFC 5780
\* steps (classifyAllocation, predictiveSourceSchedule).
WindowIsNext ==
  \A e \in Ends : hpEnd[e].local # None /\ hpProfile = "predictive" /\ e \notin hpStray =>
    \A k \in 1..Window : hpEnd[e].local.slots[k].port = addPort(hpNat[e].next, (k - 1) * hpNat[e].class.stride)

\* The model tells the NAT's mapping class, and never promises a looser filter
\* than the NAT has when mappings depend on the endpoint: a lost answer can only
\* make it look stricter (RFC5780Machine.Result).
Looseness(f) == CASE f = "eif" -> 2 [] f = "adf" -> 1 [] OTHER -> 0
ModelHonest ==
  \A e \in Ends : hpEnd[e].model # None =>
    /\ hpEnd[e].model.mapping = hpNat[e].class.mapping
    /\ hpNat[e].class.mapping # "eim" =>
         Looseness(hpEnd[e].model.filtering) <= Looseness(hpNat[e].class.filtering)

PlanSafe == SamePlan /\ Reciprocal /\ SetsMeet /\ WindowIsNext /\ ModelHonest

=============================================================================
