------------------------------ MODULE TcpFlow ------------------------------
(***************************************************************************)
(* One routed TCP flow (pkg/dataplane/routed/tcp_forward.go).              *)
(*                                                                         *)
(* An initiator "i" accepted a local connection and asks a responder "r"   *)
(* to dial its target.  Each end sends one frame at a time, numbered, and  *)
(* waits for its ACK; a frame is retransmitted until the ACK, a deadline   *)
(* or the end of the flow.  The routed data plane may lose, reorder and    *)
(* duplicate frames: tfNet is the set of all frames ever sent, any of      *)
(* which may be handed over again at any time or never, so a              *)
(* retransmission is a stuttering step.                                    *)
(*                                                                         *)
(* A chunk of payload is the number of the local read that produced it.    *)
(***************************************************************************)
EXTENDS Naturals, Sequences, FiniteSets

CONSTANTS
    DataI,      \* chunks the initiator's local connection delivers before EOF
    DataR,      \* chunks the responder's target delivers before EOF
    QueueCap,   \* tcpInboundQueueSize
    MaxFaults   \* bound on deadlines, local I/O errors and cancellations

VARIABLES
    tfEnd,      \* the tcpFlow of each end
    tfOpening,  \* the responder's forwarder.opening holds the key
    tfClosed,   \* forwarder.closed of each end
    tfNet,      \* frames sent so far
    tfFaults

vars == <<tfEnd, tfOpening, tfClosed, tfNet, tfFaults>>

Ends == {"i", "r"}
Other(e) == IF e = "i" THEN "r" ELSE "i"
Chunks(e) == IF e = "i" THEN DataI ELSE DataR

\* pend is the frame send() waits for: its type, the task that called send()
\* and whether acknowledge() has recorded the ACK.
NoSend == [type |-> "none", by |-> "none", acked |-> FALSE]

\* newTCPFlow: open is openResultType ("none" while not openTerminal), reader
\* and writer are the tasks start() launches, out is what was written to the
\* local connection.
NewFlow(life, recv, opened) ==
    [life |-> life, task |-> "opening", pend |-> NoSend, sent |-> 0, recv |-> recv,
     opened |-> opened, open |-> "none", reader |-> "off", read |-> 0,
     inq |-> <<>>, lfin |-> FALSE, rfin |-> FALSE, rfinq |-> FALSE, out |-> <<>>,
     failing |-> FALSE]

Frame(to, type, seq, val) == [to |-> to, type |-> type, seq |-> seq, val |-> val]
Ack(e, m) == Frame(Other(e), "ack", m.seq, 0)

Init ==
    /\ tfEnd = [e \in Ends |-> NewFlow("none", 0, FALSE)]
    /\ tfOpening = FALSE
    /\ tfClosed = [e \in Ends |-> FALSE]
    /\ tfNet = {}
    /\ tfFaults = 0

(***************************************************************************)
(* Helpers of a flow.                                                      *)
(***************************************************************************)

\* completeOpen: the first result decides; opened only by an OPEN_OK frame.
CompleteOpen(f, result) ==
    IF f.open # "none" THEN f
    ELSE [f EXCEPT !.open = result, !.opened = @ \/ result = "openok"]

\* shutdown: done is closed, every task of the flow leaves, the key is free.
Shutdown(f) ==
    [CompleteOpen(f, "local") EXCEPT
        !.life = "done", !.task = "ended", !.pend = NoSend, !.reader = "off",
        !.failing = FALSE]

\* fail: an asynchronous RESET, then shutdown (FailSend, SendEnds).
Fail(f) == [CompleteOpen(f, "local") EXCEPT !.failing = TRUE]

\* start: one reader and one writer, at most once.
StartFlow(f) == [f EXCEPT !.task = "started", !.reader = "reading"]

\* send, up to the first transmission: sendMu is free and the flow not done.
CanSend(f) == f.life = "live" /\ f.pend = NoSend
BeginSend(f, type, by) == [f EXCEPT !.pend = [type |-> type, by |-> by, acked |-> FALSE]]
SentFrame(e, type, val) == Frame(Other(e), type, tfEnd[e].sent + 1, val)

Put(e, f) == tfEnd' = [tfEnd EXCEPT ![e] = f]
Emit(ms) == tfNet' = tfNet \cup ms
Fault == tfFaults < MaxFaults /\ tfFaults' = tfFaults + 1
Quiet == UNCHANGED <<tfOpening, tfClosed>>

(***************************************************************************)
(* Opening.                                                                *)
(***************************************************************************)

\* handleAccepted: register the flow and send OPEN.
Accept ==
    /\ tfEnd["i"].life = "none" /\ ~tfClosed["i"]
    /\ Put("i", BeginSend(NewFlow("live", 0, FALSE), "open", "opener"))
    /\ Emit({Frame("r", "open", 1, 0)})
    /\ Quiet /\ UNCHANGED tfFaults

\* handleAccepted after OPEN was acknowledged: the open result decides.
OpenResult ==
    LET f == tfEnd["i"] IN
    /\ f.life = "live" /\ f.task = "waiting" /\ f.open # "none"
    /\ Put("i", IF f.open = "openok" THEN StartFlow(f) ELSE Shutdown(f))
    /\ Quiet /\ UNCHANGED <<tfNet, tfFaults>>

\* handleAccepted: openDeadline fires.  A result recorded before the deadline
\* still wins.
OpenDeadline ==
    LET f == tfEnd["i"] IN
    /\ f.life = "live" /\ f.task = "waiting" /\ Fault
    /\ Put("i", IF f.open = "openok" THEN StartFlow(f) ELSE Shutdown(f))
    /\ Quiet /\ UNCHANGED tfNet

\* handleAccepted: the listener's context ends while the flow is opening.
OpenCancelled ==
    /\ tfEnd["i"].life = "live" /\ tfEnd["i"].task = "waiting" /\ Fault
    /\ Put("i", [Fail(tfEnd["i"]) EXCEPT !.task = "ended"])
    /\ Quiet /\ UNCHANGED tfNet

\* handleOpen when there is no target or the dial fails: OPEN_ERROR, unacknowledged.
RefuseOpen ==
    /\ tfOpening /\ Fault
    /\ tfOpening' = FALSE
    /\ Emit({Frame("i", "openerr", 1, 0)})
    /\ UNCHANGED <<tfEnd, tfClosed>>

\* handleOpen: dial, promoteOpening and OPEN_OK.  A forwarder that closed
\* meanwhile drops the connection.
HandleOpen ==
    /\ tfOpening
    /\ tfOpening' = FALSE
    /\ IF tfClosed["r"]
       THEN UNCHANGED <<tfEnd, tfNet>>
       ELSE /\ Put("r", BeginSend(NewFlow("live", 1, TRUE), "openok", "opener"))
            /\ Emit({Frame("i", "openok", 1, 0)})
    /\ UNCHANGED <<tfClosed, tfFaults>>

(***************************************************************************)
(* handleFrame.                                                            *)
(***************************************************************************)

\* enqueueSequenced and enqueue: only the next sequence number is queued, and
\* recvSeq advances only when it was; a full queue withholds the ACK.
EnqueueSequenced(f, m) ==
    IF m.seq < f.recv + 1 THEN [flow |-> f, ack |-> TRUE]
    ELSE IF m.seq > f.recv + 1 THEN [flow |-> f, ack |-> FALSE]
    ELSE IF ~f.opened \/ f.rfin \/ f.rfinq THEN [flow |-> Fail(f), ack |-> FALSE]
    ELSE IF Len(f.inq) >= QueueCap THEN [flow |-> f, ack |-> FALSE]
    ELSE [flow |-> [f EXCEPT !.recv = m.seq, !.rfinq = (m.type = "fin"),
                             !.inq = Append(@, IF m.type = "fin" THEN 0 ELSE m.val)],
          ack |-> TRUE]

\* observeSequence's duplicate branch: a repeated open result is acknowledged
\* only when it is the one that decided.
DuplicateAcked(f, m) ==
    m.type \in {"openok", "openerr"} => f.open = m.type

\* The frames that carry their own sequence and are not queued.
ObserveSequence(e, f, m) ==
    LET g == [f EXCEPT !.recv = m.seq] IN
    IF m.seq < f.recv + 1 THEN [flow |-> f, ack |-> DuplicateAcked(f, m)]
    ELSE IF m.seq > f.recv + 1 THEN [flow |-> f, ack |-> FALSE]
    ELSE CASE m.type = "reset" -> [flow |-> Shutdown(g), ack |-> TRUE]
           [] m.type = "openok" /\ e = "i" ->
                [flow |-> CompleteOpen(g, "openok"), ack |-> g.open = "none"]
           [] m.type = "openerr" /\ e = "i" /\ ~g.opened ->
                IF g.open # "none" THEN [flow |-> g, ack |-> FALSE]
                ELSE [flow |-> Shutdown(CompleteOpen(g, "openerr")), ack |-> TRUE]
           [] OTHER -> [flow |-> Fail(g), ack |-> FALSE]

\* acknowledge: only the ACK of the pending sequence number counts.
HandleAck(e, m) ==
    /\ m.type = "ack"
    /\ tfEnd[e].life = "live" /\ tfEnd[e].pend # NoSend /\ ~tfEnd[e].pend.acked
    /\ m.seq = tfEnd[e].sent + 1
    /\ Put(e, [tfEnd[e] EXCEPT !.pend.acked = TRUE])
    /\ UNCHANGED <<tfOpening, tfNet>>

\* OPEN: claimOpening; a duplicate is acknowledged and otherwise ignored.
HandleOpenFrame(e, m) ==
    /\ m.type = "open"
    /\ tfOpening' = (tfOpening \/ tfEnd[e].life # "live")
    /\ Emit({Ack(e, m)})
    /\ UNCHANGED tfEnd

\* A frame for a flow this end no longer (or not yet) has.
HandleUnknown(e, m) ==
    /\ m.type = "reset" /\ tfEnd[e].life # "live"
    /\ Emit({Ack(e, m)})
    /\ UNCHANGED <<tfEnd, tfOpening>>

HandleSequenced(e, m) ==
    LET f == tfEnd[e]
        res == IF m.type \in {"data", "fin"} THEN EnqueueSequenced(f, m)
                                             ELSE ObserveSequence(e, f, m)
    IN /\ f.life = "live" /\ m.type \notin {"ack", "open"}
       /\ Put(e, res.flow)
       /\ Emit(IF res.ack THEN {Ack(e, m)} ELSE {})
       /\ UNCHANGED tfOpening

HandleFrame(m) ==
    /\ ~tfClosed[m.to]
    /\ \/ HandleAck(m.to, m)
       \/ HandleOpenFrame(m.to, m)
       \/ HandleUnknown(m.to, m)
       \/ HandleSequenced(m.to, m)
    /\ UNCHANGED <<tfClosed, tfFaults>>

(***************************************************************************)
(* send's outcomes.                                                        *)
(***************************************************************************)

\* The caller of send() after its frame was acknowledged.
AfterSend(f) ==
    LET g == [f EXCEPT !.sent = @ + 1, !.pend = NoSend]
    IN CASE f.pend.by = "fail" -> Shutdown(g)
         [] f.pend.type = "open" -> [g EXCEPT !.task = "waiting"]
         [] f.pend.type = "openok" -> StartFlow(g)
         [] f.pend.type = "fin" ->
              IF f.rfin THEN Shutdown([g EXCEPT !.lfin = TRUE])
              ELSE [g EXCEPT !.lfin = TRUE, !.reader = "off"]
         [] OTHER -> [g EXCEPT !.reader = "reading"]

\* finishAcknowledged; finishAcknowledgedAtDeadline is the same step.
SendEnds(e) ==
    /\ tfEnd[e].pend.acked
    /\ Put(e, AfterSend(tfEnd[e]))
    /\ Quiet /\ UNCHANGED <<tfNet, tfFaults>>

\* The deadline without an ACK: every caller of send() shuts the flow down.
SendDeadline(e) ==
    /\ tfEnd[e].pend # NoSend /\ ~tfEnd[e].pend.acked /\ Fault
    /\ Put(e, Shutdown(tfEnd[e]))
    /\ Quiet /\ UNCHANGED tfNet

\* fail's RESET, once sendMu is free.
FailSend(e) ==
    /\ tfEnd[e].failing /\ CanSend(tfEnd[e])
    /\ Put(e, BeginSend(tfEnd[e], "reset", "fail"))
    /\ Emit({SentFrame(e, "reset", 0)})
    /\ Quiet /\ UNCHANGED tfFaults

(***************************************************************************)
(* readLocal and writeLocal.                                               *)
(***************************************************************************)

ReadLocal(e) ==
    LET f == tfEnd[e]
        eof == f.read = Chunks(e)
    IN /\ f.reader = "reading" /\ CanSend(f)
       /\ Put(e, [BeginSend(f, IF eof THEN "fin" ELSE "data", "reader") EXCEPT
                    !.reader = "sending", !.read = IF eof THEN @ ELSE @ + 1])
       /\ Emit({SentFrame(e, IF eof THEN "fin" ELSE "data", IF eof THEN 0 ELSE f.read + 1)})
       /\ Quiet /\ UNCHANGED tfFaults

ReadError(e) ==
    /\ tfEnd[e].life = "live" /\ tfEnd[e].reader = "reading" /\ Fault
    /\ Put(e, [Fail(tfEnd[e]) EXCEPT !.reader = "off"])
    /\ Quiet /\ UNCHANGED tfNet

\* writeLocal: a FIN (0) half-closes the connection and may end the flow.
WriteLocal(e) ==
    LET f == tfEnd[e]
        g == [f EXCEPT !.inq = Tail(@)]
    IN /\ f.life = "live" /\ f.task = "started" /\ f.inq # <<>>
       /\ Put(e, IF Head(f.inq) # 0 THEN [g EXCEPT !.out = Append(@, Head(f.inq))]
                 ELSE IF f.lfin THEN Shutdown([g EXCEPT !.rfin = TRUE])
                 ELSE [g EXCEPT !.rfin = TRUE])
       /\ Quiet /\ UNCHANGED <<tfNet, tfFaults>>

WriteError(e) ==
    /\ tfEnd[e].life = "live" /\ tfEnd[e].task = "started" /\ tfEnd[e].inq # <<>> /\ Fault
    /\ Put(e, [Fail(tfEnd[e]) EXCEPT !.task = "ended"])
    /\ Quiet /\ UNCHANGED tfNet

\* TCPForwarder.Close: unregister, then shut every flow down.
CloseForwarder(e) ==
    /\ ~tfClosed[e] /\ Fault
    /\ tfClosed' = [tfClosed EXCEPT ![e] = TRUE]
    /\ Put(e, IF tfEnd[e].life = "live" THEN Shutdown(tfEnd[e]) ELSE tfEnd[e])
    /\ UNCHANGED <<tfOpening, tfNet>>

HandleFrameAt(e) == \E m \in tfNet : m.to = e /\ HandleFrame(m)
handleAccepted == Accept \/ OpenResult
OpenerStep == handleAccepted \/ HandleOpen
FlowStep(e) == SendEnds(e) \/ FailSend(e) \/ ReadLocal(e) \/ WriteLocal(e)
FaultStep ==
    \/ OpenDeadline \/ OpenCancelled \/ RefuseOpen
    \/ \E e \in Ends : SendDeadline(e) \/ ReadError(e) \/ WriteError(e) \/ CloseForwarder(e)

Next ==
    \/ OpenerStep \/ FaultStep
    \/ \E e \in Ends : FlowStep(e) \/ HandleFrameAt(e)

Spec == Init /\ [][Next]_vars

(***************************************************************************)
(* Properties.                                                             *)
(***************************************************************************)

\* What a local connection was written is a prefix, in order and without a
\* repetition, of what the other end read, whatever the network duplicates
\* or reorders and whichever queue was full.
InOrder ==
    \A e \in Ends : \A k \in DOMAIN tfEnd[e].out : tfEnd[e].out[k] = k

\* A connection that saw end-of-file had received every chunk before it.
EofComplete ==
    \A e \in Ends : tfEnd[e].rfin => Len(tfEnd[e].out) = Chunks(Other(e))

\* A responder only passes its OPEN_OK when the initiator took that result and
\* neither timed out nor gave up first.  The ACK of an OPEN_ERROR has the same
\* number: after a refusal, a repeated OPEN can be dialled and pass on it.
OpenAgreed ==
    /\ tfEnd["r"].sent >= 1
    /\ \A m \in tfNet : m.type # "openerr"
    => tfEnd["i"].open = "openok"

\* The three together: what TCP promised the two local applications.
StreamSafe == InOrder /\ EofComplete /\ OpenAgreed

\* The application at e has its end-of-file and its flow is gone.
Ended(e) == tfEnd[e].life = "done" /\ tfEnd[e].rfin
=============================================================================
