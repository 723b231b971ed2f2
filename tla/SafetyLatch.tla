----------------------------- MODULE SafetyLatch -----------------------------
(***************************************************************************)
(* What the persistent safety trip of internal/governor promises, with no  *)
(* file, no write and no crash in sight.                                   *)
(*                                                                         *)
(* The latch is up when every restart of the machine finds active work     *)
(* blocked.  It may rise at any time.  It falls only while an operator's   *)
(* reset of one acknowledged trip is under way; nothing else (a crash, a   *)
(* failed write, a later trip) may bring it down.                          *)
(***************************************************************************)
VARIABLES
    up,         \* every restart finds active work blocked
    ack         \* an acknowledged, sequence-bound reset is under way

latchVars == <<up, ack>>

LatchInit == up = FALSE /\ ack = FALSE

\* A trip's latch reaches stable storage.
Raise == up' = TRUE /\ UNCHANGED ack

\* An operator's reset names the current trip and is accepted.
Acknowledge == up /\ ~ack /\ ack' = TRUE /\ UNCHANGED up

\* The accepted reset takes the latch down.
Lower == ack /\ up' = FALSE /\ UNCHANGED ack

\* The reset ends, whether it succeeded, failed or died with its process.
\* A power loss may end it and decide the latch at the same time.
EndReset == ack /\ ack' = FALSE /\ up' \in {up, TRUE}

LatchNext == Raise \/ Acknowledge \/ Lower \/ EndReset

LatchSpec == LatchInit /\ [][LatchNext]_latchVars
=============================================================================
