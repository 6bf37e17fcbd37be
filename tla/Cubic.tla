------------------------------- MODULE Cubic -------------------------------
(***************************************************************************)
(* The loss-based controller (src/congestion.rs): slow start, fast         *)
(* recovery with NewReno partial ACKs, CUBIC congestion avoidance.         *)
(*                                                                         *)
(* The cubic curve itself is floating point: its value is the argument     *)
(* target.  Everything that is done with it, and all other arithmetic, is  *)
(* the code's, in u32: saturating_add where the code saturates, modulo U32 *)
(* where it multiplies.  epoch stands for epoch_ms # 0.                    *)
(***************************************************************************)
EXTENDS Integers

CONSTANTS
    Mss,            \* 1460 in the code
    InitSsthresh,   \* 65535 in the code
    DupThresh,      \* DUP_ACK_THRESHOLD: 3 in the code
    U32             \* 2^32

Larger(a, b) == IF a < b THEN b ELSE a

saturating_add(a, b) == IF a + b < U32 THEN a + b ELSE U32 - 1

saturating_sub(a, b) == IF a < b THEN 0 ELSE a - b

Cubic ==
    [cwnd : 0 .. U32 - 1, ssthresh : 0 .. U32 - 1, dup_acks : 0 .. DupThresh + 1,
     in_recovery : BOOLEAN, w_max : 0 .. U32 - 1, epoch : BOOLEAN]

default ==
    [cwnd |-> Mss, ssthresh |-> InitSsthresh, dup_acks |-> 0, in_recovery |-> FALSE,
     w_max |-> 0, epoch |-> FALSE]

\* A counter of duplicate ACKs; nothing tells values above the threshold apart.
Count(n) == IF n > DupThresh THEN n ELSE n + 1

\* Mutant: no floor of two segments.
ReducedUnfloored(w) == ((w * 7) % U32) \div 10

\* The multiplicative decrease: 7/10 of the window, at least two segments.
Reduced(w) == LET r == ((w * 7) % U32) \div 10
              IN  IF r < 2 * Mss THEN 2 * Mss ELSE r

\* Congestion avoidance: towards the curve, or a Reno step on its plateau.  The
\* first ACK of an epoch anchors W_max; at now_ms = 0 the epoch does not start.
Avoid(c, target, started) ==
    LET step == IF target > c.cwnd
                THEN (target - c.cwnd) \div Larger(c.cwnd \div Mss, 1)
                ELSE (Mss * Mss) \div c.cwnd
    IN  [c EXCEPT !.epoch = @ \/ started,
                  !.w_max = IF c.epoch THEN @ ELSE Larger(@, c.cwnd),
                  !.cwnd = saturating_add(@, Larger(step, 1))]

\* Mutant: recovery ends and the window stays inflated.
on_ack_inflated(c, acked, target, started) ==
    [c EXCEPT !.dup_acks = 0, !.in_recovery = FALSE, !.epoch = FALSE]

on_ack(c, acked, target, started) ==
    LET d == [c EXCEPT !.dup_acks = 0]
    IN  IF c.in_recovery
        THEN [d EXCEPT !.in_recovery = FALSE, !.cwnd = c.ssthresh, !.epoch = FALSE]
        ELSE IF acked = 0 THEN d
        ELSE IF c.cwnd < c.ssthresh THEN [d EXCEPT !.cwnd = saturating_add(@, Mss)]
        ELSE Avoid(d, target, started)

\* Does this duplicate ACK ask for a fast retransmit?
fires(c) == Count(c.dup_acks) = DupThresh

on_dup_ack(c) ==
    LET d == [c EXCEPT !.dup_acks = Count(@)]
    IN  IF fires(c)
        THEN [d EXCEPT !.w_max = c.cwnd, !.ssthresh = Reduced(c.cwnd), !.epoch = FALSE,
                       !.cwnd = (Reduced(c.cwnd) + DupThresh * Mss) % U32,
                       !.in_recovery = TRUE]
        ELSE IF c.in_recovery THEN [d EXCEPT !.cwnd = saturating_add(@, Mss)] ELSE d

on_partial_ack(c, acked) ==
    [c EXCEPT !.dup_acks = 0,
              !.cwnd = Larger(saturating_add(saturating_sub(@, acked), Mss), Mss)]

\* Mutant: the CUBIC epoch survives a timeout.
on_timeout_same_epoch(c) ==
    [default EXCEPT !.w_max = c.cwnd, !.ssthresh = Reduced(c.cwnd), !.epoch = c.epoch]

on_timeout(c) == [default EXCEPT !.w_max = c.cwnd, !.ssthresh = Reduced(c.cwnd)]

=============================================================================
