--------------------------- MODULE ProbeController ---------------------------
(***************************************************************************)
(* The owner of the probe sockets of one attempt (internal/probeio):       *)
(* budgets, targets, verified replies, the one promotion of a socket into  *)
(* the transport lease issued for it, and the drain that the attempt waits *)
(* for.  A step is one critical section of the controller's or the lease's *)
(* mutex, or one call of a datagram or of the factory.                     *)
(*                                                                         *)
(* The governor is external: a trip or a close of the attempt makes its    *)
(* Stopping channel readable.  Packets carry only their source; the clock  *)
(* is "the attempt's duration is over" and the number of sends in the      *)
(* second that slides behind now.                                          *)
(***************************************************************************)
EXTENDS Naturals, FiniteSets

CONSTANTS
    Socks,          \* identities of sockets that may be opened
    Targets,        \* remote endpoints
    MaxSockets, MaxTargets, MaxTuples, MaxPackets, MaxRate,  \* the reservation
    WriteFailureLimit,
    Faulty,         \* BOOLEAN: writes, opens and the clock may fail
    NoSock

VARIABLES
    pcStopped, pcTripping, pcPromoted,
    pcSock,         \* "none", "opening", "late", "open", "promoting", "promoted", "closed"
    pcOpen,         \* sockets whose datagram is open
    pcCloser,       \* who closes the datagram of a closed socket
    pcTargets, pcVerified, pcFails,     \* per socket
    pcOps,          \* operations in flight: <<socket, "send">>, <<socket, "read">>,
                    \* <<socket, "verify", target>>
    pcSent, pcRate, \* packets sent, in all and in the last second
    pcStale,        \* the observation generation has moved on
    pcExpired,      \* the attempt's duration is over
    pcAttempt,      \* "live" or "stopping"
    pcStop,         \* stopLocal: "no", "detached", "done"
    pcHandoff, pcDrained,
    pcPromote,      \* the promotion after its commit: [pc, sock], pc one of
                    \* "siblings", "attach", "release", "caller", "done"
    tlState, tlSock, tlDetached, tlDrained     \* the transport lease

ctl == <<pcStopped, pcTripping, pcPromoted>>
socks == <<pcSock, pcOpen, pcCloser, pcTargets, pcVerified, pcFails, pcOps>>
meter == <<pcSent, pcRate>>
env == <<pcStale, pcExpired, pcAttempt>>
drains == <<pcStop, pcHandoff, pcDrained>>
lease == <<tlState, tlSock, tlDetached, tlDrained>>
probeVars == <<ctl, socks, meter, env, drains, pcPromote, lease>>

NoPromotion == [pc |-> "none", sock |-> NoSock]

ProbeInit ==
    /\ pcStopped = FALSE /\ pcTripping = FALSE /\ pcPromoted = FALSE
    /\ pcSock = [s \in Socks |-> "none"] /\ pcOpen = {}
    /\ pcCloser = [s \in Socks |-> "none"]
    /\ pcTargets = [s \in Socks |-> {}] /\ pcVerified = [s \in Socks |-> {}]
    /\ pcFails = [s \in Socks |-> 0] /\ pcOps = {}
    /\ pcSent = 0 /\ pcRate = 0
    /\ pcStale = FALSE /\ pcExpired = FALSE /\ pcAttempt = "live"
    /\ pcStop = "no" /\ pcHandoff = FALSE /\ pcDrained = FALSE
    /\ pcPromote = NoPromotion
    /\ tlState = "issued" /\ tlSock = NoSock /\ tlDetached = FALSE /\ tlDrained = FALSE

-----------------------------------------------------------------------------
(* Guards and trips. *)

Pending == {s \in Socks: pcSock[s] = "opening"}
Listed == {s \in Socks: pcSock[s] \in {"open", "promoting"}}
OpsOf(s) == {op \in pcOps: op[1] = s}
TargetRefs == UNION {pcTargets[s]: s \in Socks}
Tuples == {p \in Socks \X Targets: p[2] \in pcTargets[p[1]]}
FiveTuples == Cardinality(Tuples)

\* guardViolationLocked: "closed" is an error of the call, "trip" an event.
Guard ==
    IF pcStopped \/ pcTripping \/ pcAttempt # "live" THEN "closed"
    ELSE IF pcStale \/ pcExpired THEN "trip"
    ELSE "ok"

\* trip: only the first one counts, and none after a stop.
Trip ==
    IF pcStopped \/ pcTripping THEN UNCHANGED <<pcTripping, pcAttempt>>
    ELSE pcTripping' = TRUE /\ pcAttempt' = "stopping"

\* handleViolation for the verdict v of a call.
HandleViolation(v) == IF v = "trip" THEN Trip ELSE UNCHANGED <<pcTripping, pcAttempt>>

NoTrip == UNCHANGED <<pcTripping, pcAttempt>>
Rest == UNCHANGED <<pcStopped, pcPromoted, pcStale, pcExpired, drains, pcPromote, lease>>

\* A socket leaves the table: its targets are released, `by` closes it.
Release(S, by) ==
    /\ pcSock' = [s \in Socks |-> IF s \in S THEN "closed" ELSE pcSock[s]]
    /\ pcCloser' = [s \in Socks |-> IF s \in S THEN by ELSE pcCloser[s]]
    /\ pcTargets' = [s \in Socks |-> IF s \in S THEN {} ELSE pcTargets[s]]
    /\ pcVerified' = [s \in Socks |-> IF s \in S THEN {} ELSE pcVerified[s]]

-----------------------------------------------------------------------------
(* Sockets. *)

\* OpenProbeSocket up to the factory call.
OpenBegin(s) ==
    /\ pcSock[s] = "none"
    /\ LET v == IF Guard = "ok" /\ Cardinality(Listed) + Cardinality(Pending) >= MaxSockets
                  THEN "trip" ELSE Guard
       IN /\ pcSock' = IF v = "ok" THEN [pcSock EXCEPT ![s] = "opening"] ELSE pcSock
          /\ HandleViolation(v)
    /\ UNCHANGED <<pcOpen, pcCloser, pcTargets, pcVerified, pcFails, pcOps, meter>>
    /\ Rest

\* The factory returns: the slot is counted, the guard asked again; a
\* datagram that came too late is closed after the lock is released.
OpenReturn(s) ==
    /\ pcSock[s] = "opening"
    /\ \/ /\ pcOpen' = pcOpen \cup {s}
          /\ pcSock' = [pcSock EXCEPT ![s] = IF Guard = "ok" THEN "open" ELSE "late"]
          /\ pcCloser' = [pcCloser EXCEPT ![s] = IF Guard = "ok" THEN "none" ELSE "late"]
          /\ HandleViolation(Guard)
       \/ /\ Faulty
          /\ pcSock' = [pcSock EXCEPT ![s] = "closed"]
          /\ \/ Trip          \* the operating system is out of resources
             \/ HandleViolation(Guard)
          /\ UNCHANGED <<pcOpen, pcCloser>>
    /\ UNCHANGED <<pcTargets, pcVerified, pcFails, pcOps, meter>>
    /\ Rest

\* RegisterTarget: a new endpoint and a new five-tuple, or a trip.
RegisterTarget(s, x) ==
    /\ pcSock[s] \in {"open", "promoting", "promoted", "closed"}
    /\ LET full == \/ x \notin TargetRefs /\ Cardinality(TargetRefs) >= MaxTargets
                   \/ FiveTuples >= MaxTuples
           v == IF Guard # "ok" THEN Guard
                ELSE IF pcSock[s] # "open" \/ x \in pcTargets[s] THEN "closed"
                ELSE IF full THEN "trip" ELSE "ok"
       IN /\ pcTargets' = IF v = "ok" THEN [pcTargets EXCEPT ![s] = @ \cup {x}]
                                      ELSE pcTargets
          /\ HandleViolation(v)
    /\ UNCHANGED <<pcSock, pcOpen, pcCloser, pcVerified, pcFails, pcOps, meter>>
    /\ Rest

\* SendProbe: reserveSendLocked counts the packet before the write.
SendOver == pcSent >= MaxPackets \/ pcRate >= MaxRate

SendBegin(s, x) ==
    /\ pcSock[s] # "none" /\ <<s, "send">> \notin pcOps
    /\ LET v == IF Guard # "ok" THEN Guard
                ELSE IF pcSock[s] # "open" \/ x \notin pcTargets[s] THEN "closed"
                ELSE IF SendOver THEN "trip" ELSE "ok"
       IN IF v = "ok"
          THEN /\ pcOps' = pcOps \cup {<<s, "send">>}
               /\ pcSent' = pcSent + 1 /\ pcRate' = pcRate + 1
               /\ NoTrip
          ELSE /\ HandleViolation(v)
               /\ UNCHANGED <<pcOps, meter>>
    /\ UNCHANGED <<pcSock, pcOpen, pcCloser, pcTargets, pcVerified, pcFails>>
    /\ Rest

\* The write returns: failures in a row and an exhausted system trip.
SendEnd(s) ==
    /\ <<s, "send">> \in pcOps
    /\ pcOps' = pcOps \ {<<s, "send">>}
    /\ \/ /\ s \in pcOpen
          /\ pcFails' = IF pcSock[s] = "open" THEN [pcFails EXCEPT ![s] = 0] ELSE pcFails
          /\ NoTrip
       \/ /\ pcSock[s] # "open"      \* the socket's context has ended
          /\ NoTrip
          /\ UNCHANGED pcFails
       \/ /\ Faulty /\ pcSock[s] = "open"
          /\ \/ pcFails' = [pcFails EXCEPT ![s] = @ + 1]
                /\ IF pcFails[s] + 1 >= WriteFailureLimit THEN Trip ELSE NoTrip
             \/ Trip /\ UNCHANGED pcFails
    /\ UNCHANGED <<pcSock, pcOpen, pcCloser, pcTargets, pcVerified, meter>>
    /\ Rest

\* ReceiveReply: one read at a time; the reply's source must be registered
\* and the socket open before and after the verifier runs.
ReceiveBegin(s) ==
    /\ pcSock[s] \in {"open", "promoting", "promoted", "closed"}
    /\ \A op \in OpsOf(s): op[2] = "send"
    /\ pcOps' = IF Guard = "ok" /\ pcSock[s] = "open" THEN pcOps \cup {<<s, "read">>} ELSE pcOps
    /\ HandleViolation(Guard)
    /\ UNCHANGED <<pcSock, pcOpen, pcCloser, pcTargets, pcVerified, pcFails, meter>>
    /\ Rest

StillOpen(s) == pcSock[s] = "open" /\ ~pcStopped /\ ~pcTripping

ReadReturns(s) ==
    /\ <<s, "read">> \in pcOps
    /\ \/ \E x \in Targets:
            /\ s \in pcOpen
            /\ pcOps' = (pcOps \ {<<s, "read">>}) \cup
                    (IF x \in pcTargets[s] /\ StillOpen(s) THEN {<<s, "verify", x>>} ELSE {})
       \/ /\ Faulty \/ pcSock[s] # "open"
          /\ pcOps' = pcOps \ {<<s, "read">>}
    /\ NoTrip
    /\ UNCHANGED <<pcSock, pcOpen, pcCloser, pcTargets, pcVerified, pcFails, meter>>
    /\ Rest

VerifyReturns(s, x) ==
    /\ <<s, "verify", x>> \in pcOps
    /\ pcOps' = pcOps \ {<<s, "verify", x>>}
    /\ \/ pcVerified' = IF StillOpen(s) THEN [pcVerified EXCEPT ![s] = @ \cup {x}]
                                        ELSE pcVerified
       \/ UNCHANGED pcVerified
    /\ NoTrip
    /\ UNCHANGED <<pcSock, pcOpen, pcCloser, pcTargets, pcFails, meter>>
    /\ Rest

\* Close of a handle: the slot is free before the datagram is closed.
SocketClose(s) ==
    /\ pcSock[s] = "open"
    /\ Release({s}, "self")
    /\ NoTrip
    /\ UNCHANGED <<pcOpen, pcFails, pcOps, meter>>
    /\ Rest

\* The datagram of a released socket is closed by whoever released it.
CloseDatagram(s) ==
    /\ pcCloser[s] # "none" /\ s \in pcOpen
    /\ pcOpen' = pcOpen \ {s}
    /\ pcSock' = [pcSock EXCEPT ![s] = "closed"]
    /\ NoTrip
    /\ UNCHANGED <<pcCloser, pcTargets, pcVerified, pcFails, pcOps, meter>>
    /\ Rest

-----------------------------------------------------------------------------
(* Promotion into the transport lease. *)

\* promote: nothing was promoted yet and the target is verified; the socket's
\* operations are cancelled.  (The lease that promoteToLease looked at before
\* may be closed by now: Attach asks it again.)
MayPromote(s, x) ==
    /\ Guard = "ok" /\ ~pcPromoted /\ pcSock[s] = "open"
    /\ x \in pcTargets[s] /\ x \in pcVerified[s]

PromoteBegin(s, x) ==
    /\ pcSock[s] \notin {"none", "opening", "late"}
    /\ pcSock' = IF MayPromote(s, x) THEN [pcSock EXCEPT ![s] = "promoting"] ELSE pcSock
    /\ HandleViolation(Guard)
    /\ UNCHANGED <<pcOpen, pcCloser, pcTargets, pcVerified, pcFails, pcOps, meter>>
    /\ Rest

\* After the socket's operations ended: the guard again, then the handoff.
\* Every sibling is released; a socket that lost the race to a stop is
\* closed by it.
PromoteCommit(s) ==
    /\ pcSock[s] = "promoting" /\ OpsOf(s) = {}
    /\ IF Guard = "ok"
       THEN LET siblings == Listed \ {s}
            IN /\ pcPromoted' = TRUE /\ pcStopped' = TRUE
               /\ pcSock' = [t \in Socks |-> IF t = s THEN "promoted"
                                ELSE IF t \in siblings THEN "closed" ELSE pcSock[t]]
               /\ pcCloser' = [t \in Socks |-> IF t \in siblings THEN "promote" ELSE pcCloser[t]]
               /\ pcTargets' = [t \in Socks |-> IF t \in Listed THEN {} ELSE pcTargets[t]]
               /\ pcVerified' = [t \in Socks |-> IF t \in Listed THEN {} ELSE pcVerified[t]]
               /\ pcPromote' = [pc |-> "siblings", sock |-> s]
               /\ NoTrip
       ELSE /\ Release({s}, "self")
            /\ HandleViolation(Guard)
            /\ UNCHANGED <<pcPromoted, pcStopped, pcPromote>>
    /\ UNCHANGED <<pcOpen, pcFails, pcOps, meter, pcStale, pcExpired, drains, lease>>

\* The probe deadline cannot be cleared: the socket is closed, the attempt goes on.
DeadlineFails(s) ==
    /\ Faulty /\ pcSock[s] = "promoting" /\ OpsOf(s) = {}
    /\ Release({s}, "self")
    /\ NoTrip
    /\ UNCHANGED <<pcOpen, pcFails, pcOps, meter>>
    /\ Rest

\* Siblings closed and idle: the watcher is told.  The transport then goes to a
\* lease (promoteToLease), straight to the caller (PromoteTerminal), or to the
\* caller after the attempt is released (Promote).
PromoteHandoff ==
    /\ pcPromote.pc = "siblings"
    /\ \A s \in Socks: pcCloser[s] = "promote" => s \notin pcOpen /\ OpsOf(s) = {}
    /\ pcHandoff' = TRUE
    /\ \E next \in {"attach", "caller", "release"}: pcPromote' = [pcPromote EXCEPT !.pc = next]
    /\ UNCHANGED <<ctl, socks, meter, env, pcStop, pcDrained, lease>>

\* Promote releases the attempt; if that fails the datagram is closed.
ReleaseAttempt ==
    /\ pcPromote.pc = "release"
    /\ pcAttempt' = "stopping"
    /\ \/ pcPromote' = [pcPromote EXCEPT !.pc = "caller"] /\ UNCHANGED pcOpen
       \/ /\ Faulty
          /\ pcPromote' = [pcPromote EXCEPT !.pc = "done"]
          /\ pcOpen' = pcOpen \ {pcPromote.sock}
    /\ UNCHANGED <<ctl, pcSock, pcCloser, pcTargets, pcVerified, pcFails, pcOps, meter,
                   pcStale, pcExpired, drains, lease>>

\* The caller closes the transport that Promote or PromoteTerminal gave it.
CallerCloses ==
    /\ pcPromote.pc = "caller"
    /\ pcPromote' = [pcPromote EXCEPT !.pc = "done"]
    /\ pcOpen' = pcOpen \ {pcPromote.sock}
    /\ UNCHANGED <<ctl, pcSock, pcCloser, pcTargets, pcVerified, pcFails, pcOps, meter,
                   env, drains, lease>>

\* attach: the lease takes the transport, or the transport is closed.
Attach ==
    /\ pcPromote.pc = "attach"
    /\ IF tlState = "issued" /\ ~tlDetached
       THEN tlState' = "inactive" /\ tlSock' = pcPromote.sock /\ UNCHANGED pcOpen
       ELSE pcOpen' = pcOpen \ {pcPromote.sock} /\ UNCHANGED <<tlState, tlSock>>
    /\ pcPromote' = [pcPromote EXCEPT !.pc = "done"]
    /\ UNCHANGED <<ctl, pcSock, pcCloser, pcTargets, pcVerified, pcFails, pcOps, meter,
                   env, drains, tlDetached, tlDrained>>

-----------------------------------------------------------------------------
(* The transport lease. *)

\* Adopt, MarkStandby, MarkChallengePassed: one order only.
LeaseStep(from, to) ==
    /\ tlState = from
    /\ tlState' = to
    /\ UNCHANGED <<ctl, socks, meter, env, drains, pcPromote, tlSock, tlDetached, tlDrained>>

Adopt == LeaseStep("inactive", "adopted")
MarkStandby == LeaseStep("adopted", "standby")
MarkChallengePassed == LeaseStep("standby", "passed")

DetachAfterFinish ==
    /\ tlState = "passed" /\ ~tlDetached
    /\ tlDetached' = TRUE /\ tlDrained' = TRUE
    /\ UNCHANGED <<ctl, socks, meter, env, drains, pcPromote, tlState, tlSock>>

\* closeOwned, once: the transport it owns is closed and the drain completed.
LeaseClose ==
    /\ tlState # "closed"
    /\ tlState' = "closed" /\ tlDrained' = TRUE
    /\ pcOpen' = pcOpen \ {tlSock}
    /\ tlSock' = NoSock
    /\ UNCHANGED <<ctl, pcSock, pcCloser, pcTargets, pcVerified, pcFails, pcOps, meter,
                   env, drains, pcPromote, tlDetached>>

\* watchAttempt: a stopping attempt closes the lease unless it was detached.
LeaseWatch ==
    /\ pcAttempt = "stopping" /\ ~tlDetached
    /\ LeaseClose

-----------------------------------------------------------------------------
(* Lifecycle. *)

\* stopLocal, once: by the watcher, or by RevokeForTerminal.
StopLocal ==
    /\ pcStop = "no"
    /\ pcStop' = "detached"
    /\ pcStopped' = TRUE
    /\ Release(Listed, "stop")
    /\ UNCHANGED <<pcTripping, pcPromoted, pcOpen, pcFails, pcOps, meter, env, pcHandoff,
                   pcDrained, pcPromote, lease>>

WatchStopping == pcAttempt = "stopping" /\ ~pcDrained /\ ~pcHandoff /\ StopLocal
RevokeForTerminal == StopLocal

WatchTimer ==
    /\ pcExpired /\ ~pcDrained /\ ~pcHandoff /\ ~pcTripping /\ ~pcStopped
    /\ Trip
    /\ UNCHANGED <<socks, meter>>
    /\ Rest

\* Poison: a reviewed reason trips the attempt at any time.
Poison ==
    /\ Faulty /\ ~pcTripping /\ ~pcStopped
    /\ Trip
    /\ UNCHANGED <<socks, meter>>
    /\ Rest

\* Mutant: stopLocal returns before openers and operations have ended.
StopDoneEarly ==
    /\ pcStop = "detached"
    /\ \A s \in Socks: pcCloser[s] = "stop" => s \notin pcOpen
    /\ pcStop' = "done"
    /\ UNCHANGED <<ctl, socks, meter, env, pcHandoff, pcDrained, pcPromote, lease>>

\* stopLocal returns: what it closed, the openers and the operations ended.
StopDone ==
    /\ pcStop = "detached"
    /\ \A s \in Socks: pcCloser[s] = "stop" => s \notin pcOpen
    /\ Pending = {} /\ pcOps = {}
    /\ pcStop' = "done"
    /\ UNCHANGED <<ctl, socks, meter, env, pcHandoff, pcDrained, pcPromote, lease>>

\* The watcher leaves and completes the controller's drain.
WatchDone ==
    /\ ~pcDrained /\ (pcStop = "done" \/ pcHandoff)
    /\ pcDrained' = TRUE
    /\ UNCHANGED <<ctl, socks, meter, env, pcStop, pcHandoff, pcPromote, lease>>

\* The attempt is closed or tripped elsewhere, the generation moves on, the
\* duration passes, the oldest send leaves the last second.
AttemptStops ==
    /\ pcAttempt = "live"
    /\ pcAttempt' = "stopping"
    /\ UNCHANGED <<ctl, socks, meter, pcStale, pcExpired, drains, pcPromote, lease>>

GenerationAdvances ==
    /\ Faulty /\ ~pcStale /\ pcStale' = TRUE
    /\ UNCHANGED <<ctl, socks, meter, pcExpired, pcAttempt, drains, pcPromote, lease>>

DurationPasses ==
    /\ Faulty /\ ~pcExpired /\ pcExpired' = TRUE
    /\ UNCHANGED <<ctl, socks, meter, pcStale, pcAttempt, drains, pcPromote, lease>>

SecondPasses ==
    /\ pcRate > 0 /\ pcRate' = pcRate - 1
    /\ UNCHANGED <<ctl, socks, pcSent, env, drains, pcPromote, lease>>

\* The calls of the controller, each step by step.
OpenProbeSocket(s) == OpenBegin(s) \/ OpenReturn(s)
SendProbe(s) == SendEnd(s) \/ \E x \in Targets: SendBegin(s, x)
ReceiveReply(s) == ReceiveBegin(s) \/ ReadReturns(s) \/ \E x \in Targets: VerifyReturns(s, x)
promote(s) == PromoteCommit(s) \/ DeadlineFails(s) \/ \E x \in Targets: PromoteBegin(s, x)

ProbeNext ==
    \/ \E s \in Socks:
        \/ OpenProbeSocket(s) \/ SendProbe(s) \/ ReceiveReply(s) \/ promote(s)
        \/ SocketClose(s) \/ CloseDatagram(s)
        \/ \E x \in Targets: RegisterTarget(s, x)
    \/ PromoteHandoff \/ Attach \/ ReleaseAttempt \/ CallerCloses
    \/ Adopt \/ MarkStandby \/ MarkChallengePassed
    \/ DetachAfterFinish \/ LeaseClose \/ LeaseWatch
    \/ WatchStopping \/ RevokeForTerminal \/ WatchTimer \/ Poison \/ StopDone \/ WatchDone
    \/ AttemptStops \/ GenerationAdvances \/ DurationPasses \/ SecondPasses

ProbeSpec == ProbeInit /\ [][ProbeNext]_probeVars

-----------------------------------------------------------------------------
\* The stages of a promotion in which it, or its caller, has the socket.
InPromotion == {"siblings", "attach", "release", "caller"}

\* One owner for every datagram, through every race of promotion, stop and
\* trip: an open datagram belongs to an opener, to the table, to the party
\* closing it, to the promotion under way, to its caller or to the lease; the
\* lease holds only the promoted socket, and only one is ever promoted.
OneOwner ==
    /\ \A s \in pcOpen:
        \/ pcSock[s] \in {"open", "promoting"} \/ pcCloser[s] # "none"
        \/ /\ pcSock[s] = "promoted"
           /\ \/ pcPromote.sock = s /\ pcPromote.pc \in InPromotion
              \/ tlSock = s
    /\ tlSock # NoSock => tlSock \in pcOpen /\ pcSock[tlSock] = "promoted" /\ tlState # "closed"
    /\ Cardinality({s \in Socks: pcSock[s] = "promoted"}) <= 1

\* The reservation holds whatever the interleaving, and a drain completed by
\* a stop means that no operation and no opener is left.
Reserved ==
    /\ pcSent <= MaxPackets /\ pcRate <= MaxRate
    /\ Cardinality(TargetRefs) <= MaxTargets /\ FiveTuples <= MaxTuples
    /\ Cardinality(Listed) + Cardinality(Pending) <= MaxSockets
    /\ \A s \in Socks: pcVerified[s] \subseteq pcTargets[s]
    /\ pcStop = "done" => pcOps = {} /\ Pending = {}

\* A datagram has one owner through every race of promotion, stop and trip, and no
\* reservation of sockets, targets, tuples and packets is exceeded (probeio.go).
SocketsAccounted == OneOwner /\ Reserved

\* What terminal_revoke.go and terminal_revocation_signal.go say of the drain:
\* when it is complete every probe handle is closed.
DrainedMeansClosed ==
    pcDrained => \A s \in pcOpen: pcSock[s] = "promoted"
=============================================================================
