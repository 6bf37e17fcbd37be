-------------------------------- MODULE Bbr --------------------------------
(***************************************************************************)
(* The model-based controller (src/bbr.rs): the windowed-max bandwidth     *)
(* filter, the RTprop estimate, the round counter and the mode machine.    *)
(*                                                                         *)
(* Stamps are kept as ages: dt is the time since the previous ACK, which   *)
(* is when delivered_time_ms was set, and every stamp that on_ack reads is *)
(* compared with now_ms only.  Ages beyond the bound they are compared     *)
(* with are one value.  Gains are in hundredths, rates in bytes per        *)
(* RateScale milliseconds.                                                 *)
(***************************************************************************)
EXTENDS Integers, Sequences

CONSTANTS
    Mss,
    DupThresh,      \* DUP_ACK_THRESHOLD: 3 in the code
    RateScale,      \* 1000 in the code: rates are per second
    MaxRtt,         \* no RTT sample is larger
    BwWindow,       \* BW_WINDOW_ROUNDS: 10 in the code
    RtpropWindow,   \* RTPROP_WINDOW_MS: 10000 in the code
    ProbeRttTime,   \* PROBE_RTT_DURATION_MS: 200 in the code
    FullBwCount     \* FULL_BW_COUNT: 3 in the code

NoRtt == -1   \* None, and the initial u64::MAX of rtprop_ms

HighGain == 289
DrainGain == 35
CwndGain == 200
ProbeBwGains == << 125, 75, 100, 100, 100, 100, 100, 100 >>

MinPipeCwnd == 4 * Mss

AtMost(a, b) == IF a < b THEN a ELSE b

-----------------------------------------------------------------------------
(* WindowedMax: a deque of samples whose values decrease from the front.    *)

\* How many samples are left once those at the back that v covers are popped.
Uncovered(dq, v) ==
    CHOOSE n \in 0 .. Len(dq) :
        (n = 0 \/ dq[n].rate > v) /\ \A i \in n + 1 .. Len(dq) : dq[i].rate <= v

\* The first sample that is not stale; the one just pushed never is.
FirstFresh(dq) ==
    CHOOSE n \in DOMAIN dq :
        dq[n].age <= BwWindow /\ \A i \in 1 .. n - 1 : dq[i].age > BwWindow

\* Mutant: samples never expire.
update_for_ever(dq, v) == SubSeq(dq, 1, Uncovered(dq, v)) \o << [age |-> 0, rate |-> v] >>

update(dq, v) ==
    LET pushed == SubSeq(dq, 1, Uncovered(dq, v)) \o << [age |-> 0, rate |-> v] >>
    IN  SubSeq(pushed, FirstFresh(pushed), Len(pushed))

get(dq) == IF dq = << >> THEN 0 ELSE Head(dq).rate

\* round_count += 1
NextRound(dq) == [i \in DOMAIN dq |-> [dq[i] EXCEPT !.age = AtMost(@ + 1, BwWindow + 1)]]

-----------------------------------------------------------------------------
default ==
    [mode |-> "Startup", cwnd |-> MinPipeCwnd, pacing_gain |-> HighGain, cwnd_gain |-> HighGain,
     dq |-> << >>, rtprop |-> NoRtt, rtprop_age |-> 0, has_delivery |-> FALSE, round_age |-> 0,
     full_bw |-> 0, full_bw_count |-> 0, filled_pipe |-> FALSE, cycle |-> 0, probe_rtt |-> 0,
     dup_acks |-> 0]

\* The connection is never in fast recovery under this controller.
in_recovery == FALSE

\* What the pacing gate of poll_transmit reads (in hundredths).
pacing_rate_bps(b) == b.pacing_gain * get(b.dq)

enter_probe_bw(b) ==
    [b EXCEPT !.mode = "ProbeBw", !.cwnd_gain = CwndGain, !.cycle = 2,
              !.pacing_gain = ProbeBwGains[3]]

maybe_enter_probe_rtt(b, expired) ==
    IF expired THEN [b EXCEPT !.mode = "ProbeRtt", !.pacing_gain = 100, !.cwnd_gain = 100,
                              !.probe_rtt = ProbeRttTime]
    ELSE b

\* Mutant: a round without growth is not counted, it only restarts the comparison.
UpdateStartupUncounted(b, round_start) ==
    LET s == [b EXCEPT !.pacing_gain = HighGain, !.cwnd_gain = HighGain]
    IN  IF ~round_start THEN s ELSE [s EXCEPT !.full_bw = get(b.dq), !.full_bw_count = 0]

UpdateStartup(b, round_start) ==
    LET s == [b EXCEPT !.pacing_gain = HighGain, !.cwnd_gain = HighGain]
    IN  IF ~round_start THEN s
        ELSE IF 100 * get(b.dq) >= 125 * b.full_bw
        THEN [s EXCEPT !.full_bw = get(b.dq), !.full_bw_count = 0]
        ELSE IF b.full_bw_count + 1 >= FullBwCount
        THEN [s EXCEPT !.full_bw_count = @ + 1, !.filled_pipe = TRUE, !.mode = "Drain"]
        ELSE [s EXCEPT !.full_bw_count = @ + 1]

UpdateDrain(b, round_start) ==
    LET d == [b EXCEPT !.pacing_gain = DrainGain, !.cwnd_gain = HighGain]
    IN  IF round_start THEN enter_probe_bw(d) ELSE d

UpdateProbeBw(b, round_start, expired) ==
    LET c == IF round_start THEN (b.cycle + 1) % Len(ProbeBwGains) ELSE b.cycle
    IN  maybe_enter_probe_rtt([b EXCEPT !.cwnd_gain = CwndGain, !.cycle = c,
                                        !.pacing_gain = ProbeBwGains[c + 1]], expired)

\* probe_rtt: how long the episode still lasts.
UpdateProbeRtt(b) ==
    LET p == [b EXCEPT !.pacing_gain = 100, !.cwnd_gain = 100]
        q == [p EXCEPT !.rtprop_age = 0]
    IN  IF b.probe_rtt > 0 THEN p
        ELSE IF b.filled_pipe THEN enter_probe_bw(q) ELSE [q EXCEPT !.mode = "Startup"]

update_model(b, round_start, expired) ==
    CASE b.mode = "Startup"  -> UpdateStartup(b, round_start)
      [] b.mode = "Drain"    -> UpdateDrain(b, round_start)
      [] b.mode = "ProbeBw"  -> UpdateProbeBw(b, round_start, expired)
      [] b.mode = "ProbeRtt" -> UpdateProbeRtt(b)

recompute_cwnd(b) ==
    LET rtprop == IF b.rtprop = NoRtt THEN 0 ELSE b.rtprop
        target == (b.cwnd_gain * get(b.dq) * rtprop) \div (100 * RateScale)
    IN  [b EXCEPT !.cwnd = IF b.mode = "ProbeRtt" \/ target < MinPipeCwnd
                           THEN MinPipeCwnd ELSE target]

\* The age of a stamp dt later, up to the bound it is compared with.
Older(age, dt, bound) == AtMost(age + dt, bound + 1)

\* The stamps as this ACK sees them; probe_rtt is what is left of the episode.
Aged(b, dt) ==
    [b EXCEPT !.rtprop_age = Older(@, dt, RtpropWindow), !.round_age = Older(@, dt, MaxRtt),
              !.probe_rtt = IF @ > dt THEN @ - dt ELSE 0]

rtprop_expired(aged) == aged.rtprop_age > RtpropWindow

\* Part 1 of on_ack: the RTprop sample.
Measured(aged, rtt) ==
    IF rtt # NoRtt /\ (rtt <= aged.rtprop \/ rtprop_expired(aged) \/ aged.rtprop = NoRtt)
    THEN [aged EXCEPT !.rtprop = rtt, !.rtprop_age = 0]
    ELSE aged

\* Part 2: a round lasts one RTprop, at least 1 ms.
RoundLength(b) == IF b.rtprop < 1 THEN 1 ELSE b.rtprop

StartsRound(b, rtt, dt) ==
    LET m == Measured(Aged(b, dt), rtt) IN m.round_age >= RoundLength(m)

CountRound(m, round_start) ==
    IF round_start THEN [m EXCEPT !.round_age = 0, !.dq = NextRound(@)] ELSE m

\* Part 3: does this ACK measure a delivery rate?  The first only seeds the interval.
Measures(b, acked, dt) == b.has_delivery /\ dt > 0 /\ acked > 0

Rate(acked, dt) == (acked * RateScale) \div dt

SampleRate(b, acked, dt) ==
    [b EXCEPT !.has_delivery = TRUE,
              !.dq = IF Measures(b, acked, dt) THEN update(@, Rate(acked, dt)) ELSE @]

on_ack(b, acked, rtt, dt) ==
    LET aged        == Aged([b EXCEPT !.dup_acks = 0], dt)
        round_start == StartsRound(b, rtt, dt)
        counted     == CountRound(Measured(aged, rtt), round_start)
    IN  recompute_cwnd(update_model(SampleRate(counted, acked, dt), round_start,
                                    rtprop_expired(aged)))

Count(n) == IF n > DupThresh THEN n ELSE n + 1

fires(b) == Count(b.dup_acks) = DupThresh

on_dup_ack(b) == [b EXCEPT !.dup_acks = Count(@)]

\* Mutant: the pipe still counts as filled after a timeout.
on_timeout_filled(b) ==
    [b EXCEPT !.mode = "Startup", !.cwnd = MinPipeCwnd, !.pacing_gain = HighGain,
              !.cwnd_gain = HighGain, !.full_bw = 0, !.full_bw_count = 0,
              !.cycle = 0, !.dup_acks = 0]

\* The filter, RTprop and the end of a PROBE_RTT episode are kept.
on_timeout(b) ==
    [b EXCEPT !.mode = "Startup", !.cwnd = MinPipeCwnd, !.pacing_gain = HighGain,
              !.cwnd_gain = HighGain, !.full_bw = 0, !.full_bw_count = 0,
              !.filled_pipe = FALSE, !.cycle = 0, !.dup_acks = 0]

=============================================================================
