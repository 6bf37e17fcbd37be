--------------------------- MODULE SenderControl ---------------------------
(***************************************************************************)
(* What a connection does with its RTT estimator and its congestion        *)
(* controller (src/tcp.rs, on_segment and on_tick): a new ACK samples the  *)
(* RTT and then grows the window or, in recovery and short of recover,     *)
(* counts as a partial ACK; duplicate ACKs are counted; a retransmission   *)
(* timeout collapses the window and backs the timer off.                   *)
(*                                                                         *)
(* The enum CongestionControl is the choice between C and B.               *)
(***************************************************************************)
EXTENDS RttEstimator, FiniteSets, Sequences

CONSTANTS
    Mss, InitSsthresh, U32, DupThresh,
    RateScale, MaxRtt, BwWindow, RtpropWindow, ProbeRttTime, FullBwCount,
    Acked,       \* how many bytes an ACK may acknowledge
    Targets,     \* values of the cubic curve
    Gaps,        \* times between two ACKs
    Flights,     \* values of FlightSize
    Paths        \* Paths[p]: the controller, what is measured, what goes wrong, how far the
                 \* window is followed

VARIABLES
    path,    \* the path of this behaviour, chosen in Init
    cc,      \* the controller's state
    left,    \* recover - SND.UNA: what a full ACK still has to acknowledge
    seen     \* every rate sample BBR has taken, with its age in rounds

C == INSTANCE Cubic
B == INSTANCE Bbr

ASSUME ControlAssumption ==
    /\ Mss \in Nat \ {0} /\ DupThresh \in Nat \ {0}
    /\ U32 \in Nat /\ InitSsthresh \in 2 * Mss .. U32 - 1
    /\ (DupThresh + 2) * Mss + U32 \div 10 < U32
    /\ Acked \subseteq Nat \ {0} /\ Targets \subseteq Mss .. U32 - 1
    /\ Gaps \subseteq Nat /\ Flights \subseteq Nat \ {0}
    /\ RateScale \in Nat \ {0} /\ BwWindow \in Nat
    /\ \A p \in DOMAIN Paths :
          /\ Paths[p].controller \in {"Cubic", "Bbr"}
          /\ Paths[p].samples \subseteq Samples \cap 0 .. MaxRtt
          /\ Paths[p].window \in Nat
          /\ Paths[p].faults \subseteq {"dupack", "timeout"}

controlVars == << srtt, rttvar, scale, path, cc, left, seen >>

IsCubic == Paths[path].controller = "Cubic"

\* Bound: the window is not followed any further.
InBounds == cc.cwnd <= Paths[path].window

ControlInit ==
    /\ Init
    /\ path \in DOMAIN Paths
    /\ cc = IF IsCubic THEN C!default ELSE B!default
    /\ left = 0
    /\ seen = {}

in_recovery == IF IsCubic THEN cc.in_recovery ELSE B!in_recovery

\* rtt.sample, unless Karn's algorithm or a missing timestamp leaves none.
Measure(rtt) == IF rtt = B!NoRtt THEN UNCHANGED << srtt, rttvar, scale >> ELSE Sample(rtt)

\* The samples of the last BwWindow rounds, as of the newest one.
Remember(acked, rtt, dt) ==
    LET rounds == IF B!StartsRound(cc, rtt, dt) THEN 1 ELSE 0
        aged   == {[s EXCEPT !.age = B!AtMost(@ + rounds, BwWindow + 1)] : s \in seen}
        fresh  == {s \in aged : s.age <= BwWindow}
    IN  seen' = IF B!Measures(cc, acked, dt)
                THEN fresh \cup {[age |-> 0, rate |-> B!Rate(acked, dt)]}
                ELSE aged

\* on_segment, an ACK for new data that stops short of recover.
PartialAck(acked, rtt) ==
    /\ in_recovery /\ acked < left /\ InBounds
    /\ Measure(rtt)
    /\ cc' = C!on_partial_ack(cc, acked)
    /\ left' = left - acked
    /\ UNCHANGED << path, seen >>

\* on_segment, any other ACK for new data: the two arms of CongestionControl::on_ack.
CubicAck(acked, rtt, target, started) ==
    /\ IsCubic /\ ~(in_recovery /\ acked < left) /\ InBounds
    /\ Measure(rtt)
    /\ cc' = C!on_ack(cc, acked, target, started)
    /\ left' = 0
    /\ UNCHANGED << path, seen >>

BbrAck(acked, rtt, dt) ==
    /\ ~IsCubic
    /\ Measure(rtt)
    /\ cc' = B!on_ack(cc, acked, rtt, dt)
    /\ Remember(acked, rtt, dt)
    /\ UNCHANGED << path, left >>

\* on_segment, a duplicate ACK: when it fires, recover is SND.NXT.
DupAck(flight) ==
    /\ "dupack" \in Paths[path].faults /\ InBounds
    /\ cc' = IF IsCubic THEN C!on_dup_ack(cc) ELSE B!on_dup_ack(cc)
    /\ left' = IF IsCubic /\ C!fires(cc) THEN flight ELSE left
    /\ UNCHANGED << srtt, rttvar, scale, path, seen >>

\* on_tick, the RTO.
Timeout ==
    /\ "timeout" \in Paths[path].faults
    /\ cc' = IF IsCubic THEN C!on_timeout(cc) ELSE B!on_timeout(cc)
    /\ BackOff
    /\ UNCHANGED << path, left, seen >>

RttSamples == Paths[path].samples \cup {B!NoRtt}

ControlNext ==
    \/ \E acked \in Acked, rtt \in RttSamples : PartialAck(acked, rtt)
    \/ \E acked \in Acked, rtt \in RttSamples :
          \/ \E target \in Targets, started \in BOOLEAN : CubicAck(acked, rtt, target, started)
          \/ \E dt \in Gaps : BbrAck(acked, rtt, dt)
    \/ \E flight \in Flights : DupAck(flight)
    \/ Timeout

ControlSpec == ControlInit /\ [][ControlNext]_controlVars

-----------------------------------------------------------------------------
(* Properties *)

(***************************************************************************)
(* CUBIC's window never closes: whatever mix of losses, partial ACKs and   *)
(* timeouts, and even after u32 arithmetic has wrapped, one segment may    *)
(* always be sent, and the Reno step of congestion avoidance never divides *)
(* by zero.                                                                *)
(***************************************************************************)
WindowNeverCloses == IsCubic => cc.cwnd >= Mss /\ cc.ssthresh >= 2 * Mss

(***************************************************************************)
(* A CUBIC epoch runs only in congestion avoidance: every loss ends it, so *)
(* the curve never resumes from a time before the loss.                    *)
(***************************************************************************)
EpochOnlyInAvoidance ==
    IsCubic /\ cc.epoch => ~cc.in_recovery /\ cc.cwnd >= cc.ssthresh /\ cc.w_max >= cc.ssthresh

(***************************************************************************)
(* Recovery, however often it was inflated, ends with a window no larger   *)
(* than the one in which the loss was noticed (two segments apart).        *)
(***************************************************************************)
RecoveryDeflates ==
    [][IsCubic /\ cc.in_recovery /\ ~cc'.in_recovery
          => cc'.cwnd <= C!Larger(cc.w_max, 2 * Mss)]_controlVars

(***************************************************************************)
(* "We use the simpler in_recovery flag, which prevents double-entry       *)
(* within an episode": while recovery lasts the window is cut only once.   *)
(***************************************************************************)
OneEntryPerEpisode ==
    [][IsCubic /\ cc.in_recovery /\ cc'.in_recovery => cc'.ssthresh = cc.ssthresh]_controlVars

(***************************************************************************)
(* The monotone deque is a correct filter: its front is the largest rate   *)
(* sampled in the last BwWindow rounds, which a dip does not lower and a   *)
(* stale sample does not keep up.                                          *)
(***************************************************************************)
FilterIsWindowMax ==
    ~IsCubic => /\ seen = {} <=> cc.dq = << >>
                /\ \A s \in seen : s.rate <= B!get(cc.dq)
                /\ seen # {} => \E s \in seen : s.rate = B!get(cc.dq)

(***************************************************************************)
(* The mode agrees with what the model has learned: STARTUP is left only   *)
(* with a full pipe and comes back only with an empty one; the window has  *)
(* a floor of four segments, and PROBE_RTT holds it there; and the pacing  *)
(* rate of PROBE_BW and PROBE_RTT is at most 1.25 times the estimate,      *)
(* whatever gain the mode before them used.                                *)
(***************************************************************************)
ModeMeansPipe ==
    ~IsCubic => /\ cc.filled_pipe <=> cc.mode # "Startup"
                /\ cc.cwnd >= B!MinPipeCwnd
                /\ cc.mode = "ProbeRtt" => cc.cwnd = B!MinPipeCwnd
                /\ cc.mode \in {"ProbeBw", "ProbeRtt"} => B!pacing_rate_bps(cc) <= 125 * B!get(cc.dq)

\* An ACK that comes a round trip or more after the one before it.
SpacedAck ==
    \E acked \in Acked, rtt \in RttSamples, dt \in Gaps :
        /\ dt > 0 /\ \A r \in Paths[path].samples : dt >= r
        /\ BbrAck(acked, rtt, dt)

\* Spaced ACKs keep coming and the timer fires no more.
Flowing == []<><<SpacedAck>>_controlVars /\ <>[][~Timeout]_controlVars

(***************************************************************************)
(* As long as ACKs flow BBR is not stuck in a phase: STARTUP finds its     *)
(* plateau, DRAIN and PROBE_RTT end.                                       *)
(***************************************************************************)
ReachesProbeBw == Flowing => []<>(IsCubic \/ cc.mode = "ProbeBw")

=============================================================================
