------------------------------ MODULE LegacyIce ------------------------------
(***************************************************************************)
(* Two executors of pkg/solver/strategy/legacyice, the initiator's and the *)
(* responder's, running one plan: the offer, the answer and the candidate  *)
(* messages they exchange, the ICE agent each one makes (pkg/nat), the     *)
(* connect goroutine, the grace timer, the cancelled context and Close.    *)
(*                                                                         *)
(* The messages are handed over by concurrent callers, so they arrive in   *)
(* any order, and the rendezvous may lose them.  An agent is a number: the *)
(* n-th agent its executor made.  The credentials an agent was given are   *)
(* the number of the peer's agent they came from.                          *)
(***************************************************************************)
EXTENDS Naturals, Sequences, FiniteSets, SequencesExt

CONSTANTS
    Modes,          \* execution modes of the plan
    Gathers,        \* what the ICE library can gather, per end: sets of [type, ip]
    Trusting,       \* ends that have configured trusted CIDRs
    Rounds,         \* bound: asynchronous rounds of candidate messages, per end
    MaxLost,        \* bound: messages the rendezvous loses
    Cancels         \* ends whose context may be cancelled

VARIABLES
    liMode,         \* execCfg.Mode, the same plan family at both ends
    liLocal,        \* what the library gathers, per end
    liEx,           \* the executors
    liAgents,       \* the agents each executor made
    liNet,          \* messages on their way
    liLost

vars == <<liMode, liLocal, liEx, liAgents, liNet, liLost>>

Ends == {"i", "r"}
Other(e) == IF e = "i" THEN "r" ELSE "i"

-----------------------------------------------------------------------------
(* Candidates. *)

\* "private" stands for every class that is not public, "listed" for such an
\* address in the CIDRs that the ends of Trusting have configured.
nonPublicCandidateIP(ip) == ip \in {"private", "listed"}

candidateIPInCIDRs(e, ip) == ip = "listed" /\ e \in Trusting

publicDirectRejects(e, c) == ~candidateIPInCIDRs(e, c.ip) /\ nonPublicCandidateIP(c.ip)

remoteCandidateKept(e, c) ==
    CASE liMode = "public_direct" -> c.type # "relay" /\ ~publicDirectRejects(e, c)
      [] liMode = "relay_only" -> c.type = "relay"
      [] OTHER -> TRUE

localCandidateKept(e, c) ==
    liMode = "public_direct" => c.type # "relay" /\ ~publicDirectRejects(e, c)

candidateTypeGathered(c) ==
    CASE liMode = "relay_only" -> c.type = "relay"
      [] liMode = "public_direct" -> c.type # "relay"
      [] OTHER -> TRUE

\* What the agent of an end gathers in this mode.
Gathered(e) == {c \in liLocal[e]: candidateTypeGathered(c)}

filterLocalCandidates(e) == {c \in Gathered(e): localCandidateKept(e, c)}
filterRemoteCandidates(e, cs) == {c \in cs: remoteCandidateKept(e, c)}

connectionTypeFromPair(pair) ==
    IF "relay" \in {pair.local.type, pair.remote.type} THEN "relay" ELSE "direct"

candidateDependent(e, c) == c.type # "relay" /\ publicDirectRejects(e, c)

\* rememberPublicDirectLocalBases: the private host is the base of a public
\* candidate the agent gathered.
HasLocalBase(e) ==
    liMode = "public_direct" /\ \E c \in Gathered(e): c.type = "srflx" /\ ~candidateDependent(e, c)

localCandidateDependent(e, c) ==
    candidateDependent(e, c) /\ ~(c.type = "host" /\ HasLocalBase(e))

pathPolicyRole(e, pair) ==
    IF \/ connectionTypeFromPair(pair) = "relay"
       \/ localCandidateDependent(e, pair.local) \/ candidateDependent(e, pair.remote)
    THEN "primary" ELSE "protected_direct"

-----------------------------------------------------------------------------
NewAgent == [open |-> TRUE, gathered |-> FALSE, creds |-> 0, remote |-> {}, pair |-> <<>>]

NewExecutor ==
    [pc |-> "start",        \* Execute: start, offer, wait, ok, err
     agent |-> 0,           \* e.agent
     closed |-> FALSE, cancelled |-> FALSE,
     creds |-> FALSE, cands |-> FALSE,
     pending |-> {},
     conn |-> 0, stage |-> "no",    \* the connect goroutine: dial, release, unlock
     res |-> 0, failed |-> FALSE,   \* resultCh and errCh, of capacity one
     ret |-> 0,             \* what Execute returned
     h |-> "no",            \* HandleMessage, under messageMu: answer, connect
     grace |-> FALSE, doom |-> FALSE,   \* the timer of waitForPublicDirectRemoteCandidates
     left |-> 0, start |-> 0,       \* rounds of candidate messages to come
     sent |-> 0, told |-> {}]       \* history of those rounds

Init ==
    /\ liMode \in Modes
    /\ liLocal \in Gathers
    /\ liEx = [e \in Ends |-> NewExecutor]
    /\ liAgents = [e \in Ends |-> <<>>]
    /\ liNet = {} /\ liLost = 0

Ex(e, r) == liEx' = [liEx EXCEPT ![e] = r]

\* ensureAgent: the agent of the executor, made if there is none.
HasAgent(e) == liEx[e].agent # 0
AgentOf(e) == IF HasAgent(e) THEN liEx[e].agent ELSE Len(liAgents[e]) + 1
EnsuredAgents(e) == IF HasAgent(e) THEN liAgents[e] ELSE Append(liAgents[e], NewAgent)

SetAgent(e, a, r) == liAgents' = [liAgents EXCEPT ![e] = [EnsuredAgents(e) EXCEPT ![a] = r]]

Message(e, type, a, cs) == [to |-> Other(e), type |-> type, creds |-> a, cands |-> cs]

-----------------------------------------------------------------------------
(* Candidate messages: rounds over the candidates in their order of        *)
(* priority, each from where the last one was cut off.                     *)

\* publicDirectSignalCandidateRank; the class of the address breaks ties, for
\* the priority and the address.
Rank(c) ==
    LET type == [srflx |-> 1, prflx |-> 2, host |-> 3, relay |-> 5]
        ip == [public |-> 0, listed |-> 1, private |-> 2]
    IN 3 * type[c.type] + ip[c.ip]

\* prioritizePublicDirectSignalCandidates
Prioritized(e) == SetToSortSeq(filterLocalCandidates(e), LAMBDA c, d: Rank(c) < Rank(d))

normalizeCandidateStart(start, total) == IF total = 0 THEN 0 ELSE start % total
nextCandidateStart(start, sent, total) == normalizeCandidateStart(start + sent, total)

\* sendCandidateMessageRoundFrom: k candidates before the deadline of the round.
Window(e, start, k) ==
    LET s == Prioritized(e) IN {s[((start + n) % Len(s)) + 1]: n \in 0..(k - 1)}

Told(e, r, k) ==
    LET n == Cardinality(filterLocalCandidates(e)) IN
    [r EXCEPT !.start = nextCandidateStart(r.start, k, n), !.sent = @ + k,
              !.told = @ \cup Window(e, r.start, k)]

CandidateMessages(e, cs) == {Message(e, "candidate", 0, {c}): c \in cs}

\* sendCandidateMessages: the first round is sent by the caller, the others by
\* a goroutine.
FirstRound(e, r, k) ==
    IF liMode # "public_direct" THEN r
    ELSE [Told(e, r, k) EXCEPT !.left = Rounds[e]]

RoundLengths(e) ==
    IF liMode = "public_direct" THEN 0..Cardinality(filterLocalCandidates(e)) ELSE {0}

\* sendCandidateMessageRetries, which ends when the executor is closed.
CandidateRound(e) ==
    /\ liEx[e].left > 0
    /\ \/ /\ liEx[e].closed
          /\ Ex(e, [liEx[e] EXCEPT !.left = 0])
          /\ UNCHANGED liNet
       \/ /\ ~liEx[e].closed
          /\ \E k \in RoundLengths(e):
                /\ Ex(e, [Told(e, liEx[e], k) EXCEPT !.left = @ - 1])
                /\ liNet' = liNet \cup CandidateMessages(e, Window(e, liEx[e].start, k))
    /\ UNCHANGED <<liMode, liLocal, liAgents, liLost>>

-----------------------------------------------------------------------------
(* Execute. *)

\* ensureAgent, then the initiator's offer.
ExecuteStart(e) ==
    /\ liEx[e].pc = "start"
    /\ \/ /\ liEx[e].closed
          /\ Ex(e, [liEx[e] EXCEPT !.pc = "err"])
          /\ UNCHANGED liAgents
       \/ /\ ~liEx[e].closed
          /\ Ex(e, [liEx[e] EXCEPT !.agent = AgentOf(e),
                                   !.pc = IF e = "i" THEN "offer" ELSE "wait"])
          /\ liAgents' = [liAgents EXCEPT ![e] = EnsuredAgents(e)]
    /\ UNCHANGED <<liMode, liLocal, liNet, liLost>>

\* sendOffer: gathers, filters, sends the offer and the first candidate round.
SendOffer(e) ==
    /\ liEx[e].pc = "offer"
    /\ \/ /\ \/ liEx[e].closed \/ liEx[e].cancelled
             \/ filterLocalCandidates(e) = {}
          /\ Ex(e, [liEx[e] EXCEPT !.pc = "err"])
          /\ UNCHANGED <<liAgents, liNet>>
       \/ /\ ~liEx[e].closed /\ ~liEx[e].cancelled
          /\ filterLocalCandidates(e) # {}
          /\ LET a == AgentOf(e) IN
             /\ SetAgent(e, a, [EnsuredAgents(e)[a] EXCEPT !.gathered = TRUE])
             /\ \E k \in RoundLengths(e):
                /\ Ex(e, FirstRound(e, [liEx[e] EXCEPT !.agent = a, !.pc = "wait"], k))
                /\ liNet' = liNet \cup {Message(e, "offer", a, filterLocalCandidates(e))}
                                  \cup CandidateMessages(e, Window(e, 0, k))
    /\ UNCHANGED <<liMode, liLocal, liLost>>

\* The select of Execute: any ready case may be taken.
ExecuteReturns(e) ==
    /\ liEx[e].pc = "wait"
    /\ \/ /\ liEx[e].res # 0
          /\ Ex(e, [liEx[e] EXCEPT !.pc = "ok", !.ret = liEx[e].res, !.res = 0])
       \/ /\ liEx[e].failed
          /\ Ex(e, [liEx[e] EXCEPT !.pc = "err", !.failed = FALSE])
       \/ /\ liEx[e].cancelled
          /\ Ex(e, [liEx[e] EXCEPT !.pc = "err"])
    /\ UNCHANGED <<liMode, liLocal, liAgents, liNet, liLost>>

\* The context of the plan ends: a timeout, a sibling's success, Session.Close.
Cancel(e) ==
    /\ e \in Cancels /\ ~liEx[e].cancelled /\ liEx[e].pc \notin {"ok", "err"}
    /\ Ex(e, [liEx[e] EXCEPT !.cancelled = TRUE])
    /\ UNCHANGED <<liMode, liLocal, liAgents, liNet, liLost>>

\* Close, by executePlan when Execute returned or by Session.Close.
Close(e) ==
    /\ ~liEx[e].closed /\ (liEx[e].pc \in {"ok", "err"} \/ liEx[e].cancelled)
    /\ Ex(e, [liEx[e] EXCEPT !.closed = TRUE, !.agent = 0])
    /\ liAgents' = IF ~HasAgent(e) THEN liAgents
                   ELSE [liAgents EXCEPT ![e][liEx[e].agent].open = FALSE]
    /\ UNCHANGED <<liMode, liLocal, liNet, liLost>>

-----------------------------------------------------------------------------
(* HandleMessage. *)

Take(m) == liNet' = liNet \ {m}

\* The first half of the offer and answer cases: credentials, the candidates of
\* the message and the ones that came early.
HandleDescription(e, m) ==
    /\ m \in liNet /\ m.to = e /\ m.type \in {"offer", "answer"} /\ liEx[e].h = "no"
    /\ Take(m)
    /\ LET a == AgentOf(e)
           kept == filterRemoteCandidates(e, m.cands)
           all == liEx[e].pending \cup kept
           agent == [EnsuredAgents(e)[a] EXCEPT !.creds = m.creds]
           ready == [liEx[e] EXCEPT !.agent = a, !.creds = TRUE]
       IN \/ /\ liEx[e].closed
             /\ UNCHANGED <<liEx, liAgents>>
          \/ /\ ~liEx[e].closed /\ all = {}
             /\ SetAgent(e, a, agent)
             /\ Ex(e, IF liMode = "public_direct" THEN [ready EXCEPT !.grace = TRUE]
                      ELSE [ready EXCEPT !.failed = TRUE])
          \/ /\ ~liEx[e].closed /\ all # {}
             /\ SetAgent(e, a, [agent EXCEPT !.remote = @ \cup all])
             /\ Ex(e, [ready EXCEPT !.pending = {}, !.cands = TRUE,
                                    !.h = IF m.type = "offer" THEN "answer" ELSE "connect"])
    /\ UNCHANGED <<liMode, liLocal, liLost>>

\* sendAnswer; its error is returned to the caller of HandleMessage only.
SendAnswer(e) ==
    /\ liEx[e].h = "answer"
    /\ \/ /\ liEx[e].closed \/ filterLocalCandidates(e) = {}
          /\ Ex(e, [liEx[e] EXCEPT !.h = "no"])
          /\ UNCHANGED <<liAgents, liNet>>
       \/ /\ ~liEx[e].closed /\ filterLocalCandidates(e) # {}
          /\ LET a == AgentOf(e) IN
             /\ SetAgent(e, a, [EnsuredAgents(e)[a] EXCEPT !.gathered = TRUE])
             /\ \E k \in RoundLengths(e):
                /\ Ex(e, FirstRound(e, [liEx[e] EXCEPT !.agent = a, !.h = "connect"], k))
                /\ liNet' = liNet \cup {Message(e, "answer", a, filterLocalCandidates(e))}
                                  \cup CandidateMessages(e, Window(e, 0, k))
    /\ UNCHANGED <<liMode, liLocal, liLost>>

\* The candidate case: queued until the credentials are known.
HandleCandidate(e, m) ==
    /\ m \in liNet /\ m.to = e /\ m.type = "candidate" /\ liEx[e].h = "no"
    /\ Take(m)
    /\ LET a == AgentOf(e)
           kept == filterRemoteCandidates(e, m.cands)
           ready == [liEx[e] EXCEPT !.agent = a]
       IN \/ /\ liEx[e].closed
             /\ UNCHANGED <<liEx, liAgents>>
          \/ /\ ~liEx[e].closed /\ (kept = {} \/ ~liEx[e].creds)
             /\ Ex(e, [ready EXCEPT !.pending = @ \cup kept])
             /\ SetAgent(e, a, EnsuredAgents(e)[a])
          \/ /\ ~liEx[e].closed /\ kept # {} /\ liEx[e].creds
             /\ Ex(e, [ready EXCEPT !.cands = TRUE, !.h = "connect"])
             /\ SetAgent(e, a, [EnsuredAgents(e)[a] EXCEPT !.remote = @ \cup kept])
    /\ UNCHANGED <<liMode, liLocal, liLost>>

\* The rendezvous loses a message.
Lose(m) ==
    /\ m \in liNet /\ liLost < MaxLost
    /\ Take(m) /\ liLost' = liLost + 1
    /\ UNCHANGED <<liMode, liLocal, liEx, liAgents>>

\* The grace timer: it looks whether candidates came, then fails the plan.
GraceExpires(e) ==
    /\ liEx[e].grace
    /\ Ex(e, [liEx[e] EXCEPT !.grace = FALSE,
                             !.doom = ~(liEx[e].closed \/ (liEx[e].creds /\ liEx[e].cands))])
    /\ UNCHANGED <<liMode, liLocal, liAgents, liNet, liLost>>

failRemoteCandidates(e) ==
    /\ liEx[e].doom
    /\ Ex(e, [liEx[e] EXCEPT !.doom = FALSE, !.failed = TRUE])
    /\ UNCHANGED <<liMode, liLocal, liAgents, liNet, liLost>>

-----------------------------------------------------------------------------
(* The connect goroutine. *)

startConnect(e) ==
    /\ liEx[e].h = "connect"
    /\ Ex(e, IF liEx[e].conn # 0 \/ liEx[e].closed \/ ~HasAgent(e)
             THEN [liEx[e] EXCEPT !.h = "no"]
             ELSE [liEx[e] EXCEPT !.h = "no", !.conn = liEx[e].agent, !.stage = "dial"])
    /\ UNCHANGED <<liMode, liLocal, liAgents, liNet, liLost>>

Agent(e, a) == liAgents[e][a]
Dialling(e) == liEx[e].stage = "dial" /\ Agent(e, liEx[e].conn).open

\* Both agents run their checks and select a pair one of them was told of.
Link ==
    /\ Dialling("i") /\ Dialling("r")
    /\ LET a == liEx["i"].conn  b == liEx["r"].conn IN
       /\ Agent("i", a).creds = b /\ Agent("r", b).creds = a
       /\ Agent("i", a).gathered /\ Agent("r", b).gathered
       /\ Agent("i", a).pair = <<>>
       /\ \E l \in Gathered("i"), k \in Gathered("r"):
            /\ k \in Agent("i", a).remote \/ l \in Agent("r", b).remote
            /\ liAgents' = [liAgents EXCEPT !["i"][a].pair = <<l, k>>, !["r"][b].pair = <<k, l>>]
    /\ UNCHANGED <<liMode, liLocal, liEx, liNet, liLost>>

\* Connect returns an error: no credentials, a closed agent, a timeout.
ConnectFails(e) ==
    /\ liEx[e].stage = "dial"
    /\ Agent(e, liEx[e].conn).pair = <<>> \/ liEx[e].closed
    /\ Ex(e, [liEx[e] EXCEPT !.failed = TRUE, !.stage = "unlock"])
    /\ UNCHANGED <<liMode, liLocal, liAgents, liNet, liLost>>

\* releaseTransport: the agent is no longer the executor's.
ConnectSucceeds(e) ==
    /\ liEx[e].stage = "dial" /\ Agent(e, liEx[e].conn).pair # <<>>
    /\ Ex(e, [liEx[e] EXCEPT !.agent = IF @ = liEx[e].conn THEN 0 ELSE @, !.stage = "release"])
    /\ UNCHANGED <<liMode, liLocal, liAgents, liNet, liLost>>

\* The result is dropped if one is already waiting.
DeliverResult(e) ==
    /\ liEx[e].stage = "release"
    /\ Ex(e, [liEx[e] EXCEPT !.res = IF @ = 0 THEN liEx[e].conn ELSE @, !.stage = "unlock"])
    /\ UNCHANGED <<liMode, liLocal, liAgents, liNet, liLost>>

ConnectDone(e) ==
    /\ liEx[e].stage = "unlock"
    /\ Ex(e, [liEx[e] EXCEPT !.conn = 0, !.stage = "no"])
    /\ UNCHANGED <<liMode, liLocal, liAgents, liNet, liLost>>

Execute(e) == ExecuteStart(e) \/ SendOffer(e) \/ ExecuteReturns(e)
HandleMessage(e) == \E m \in liNet: HandleDescription(e, m) \/ HandleCandidate(e, m)
Connecting(e) == startConnect(e) \/ ConnectFails(e) \/ ConnectSucceeds(e) \/ DeliverResult(e) \/ ConnectDone(e)

Next ==
    \/ \E e \in Ends:
        \/ Execute(e) \/ HandleMessage(e) \/ Connecting(e) \/ Cancel(e) \/ Close(e)
        \/ CandidateRound(e) \/ SendAnswer(e) \/ GraceExpires(e) \/ failRemoteCandidates(e)
    \/ Link
    \/ \E m \in liNet: Lose(m)

Spec == Init /\ [][Next]_vars

-----------------------------------------------------------------------------
(* Properties. *)

OpenAgents(e) == {a \in 1..Len(liAgents[e]): Agent(e, a).open}

\* Once an executor is closed, every agent it made is closed or belongs to the
\* connect goroutine, the result channel or the caller of Execute; and when
\* Execute succeeded nothing is left in the result channel.
AgentsOwned ==
    \A e \in Ends:
        /\ liEx[e].closed => OpenAgents(e) \subseteq {liEx[e].conn, liEx[e].res, liEx[e].ret}
        /\ liEx[e].pc = "ok" => liEx[e].res = 0

\* The pair as an end sees it: a remote candidate it was never told of is
\* peer reflexive.
SeenPair(e) ==
    LET a == Agent(e, liEx[e].ret) IN
    [local |-> a.pair[1],
     remote |-> IF a.pair[2] \in a.remote THEN a.pair[2] ELSE [a.pair[2] EXCEPT !.type = "prflx"]]

\* Two ends that both succeed hold the two sides of one path, and they agree
\* whether it is relayed; neither protects a path that runs over a relay.
PathsMeet ==
    (\A e \in Ends: liEx[e].ret # 0) =>
        /\ Agent("i", liEx["i"].ret).creds = liEx["r"].ret
        /\ Agent("r", liEx["r"].ret).creds = liEx["i"].ret
        /\ connectionTypeFromPair(SeenPair("i")) = connectionTypeFromPair(SeenPair("r"))
        /\ \A e \in Ends: pathPolicyRole(e, SeenPair(e)) = "protected_direct" =>
                            \A x \in Ends: connectionTypeFromPair(SeenPair(x)) = "direct"

\* Rounds that are cut off still reach every candidate: as many messages as
\* there are candidates have told the peer of each one.
SignalCoverage ==
    \A e \in Ends: liEx[e].sent >= Cardinality(filterLocalCandidates(e)) /\ liEx[e].sent > 0
                    => liEx[e].told = filterLocalCandidates(e)

\* Execute forgets a path that was made only when its context ended, when the
\* grace timer had already given up, or when a late message made a second
\* agent whose connect failed.
PathsForgotten ==
    \A e \in Ends: liEx[e].pc = "err" /\ liEx[e].res # 0 =>
        liEx[e].cancelled \/ liMode = "public_direct" \/ Len(liAgents[e]) > 1

IceSafe == AgentsOwned /\ PathsMeet /\ SignalCoverage /\ PathsForgotten
=============================================================================
