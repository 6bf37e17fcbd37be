---------------------------- MODULE RttEstimator ----------------------------
(***************************************************************************)
(* RTT estimation and the retransmission timeout (src/rtt.rs, RFC 6298),   *)
(* in integer milliseconds, with the truncation of the code's shifts.      *)
(***************************************************************************)
EXTENDS Integers

CONSTANTS
    Samples,   \* the round-trip times that may be measured
    MinRto,    \* 200 in the code
    MaxRto,    \* 60000 in the code
    MaxScale   \* largest back-off factor: 64 in the code

ASSUME RttAssumption ==
    /\ Samples \subseteq Nat
    /\ MinRto \in Nat /\ MaxRto \in Nat /\ MinRto <= MaxRto
    /\ MaxScale \in Nat /\ MaxScale > 0

VARIABLES
    srtt,     \* smoothed RTT, NoSample until the first measurement
    rttvar,   \* RTT variation
    scale     \* 2 ^ backoff_shift: the factor consecutive timeouts have built up

vars == << srtt, rttvar, scale >>

NoSample == -1

TypeOK == srtt \in Nat \cup {NoSample} /\ rttvar \in Nat /\ scale \in Nat \ {0}

Clamp(x, lo, hi) == IF x < lo THEN lo ELSE IF x > hi THEN hi ELSE x

AtLeast(a, b) == IF a < b THEN b ELSE a

AbsDiff(a, b) == IF a < b THEN b - a ELSE a - b

Init == srtt = NoSample /\ rttvar = 0 /\ scale = 1

\* Mutant: the new measurement is added undivided.
SampleUndivided(rtt) ==
    /\ scale' = 1
    /\ IF srtt = NoSample THEN srtt' = rtt ELSE srtt' = srtt - srtt \div 8 + rtt
    /\ rttvar' = rttvar

\* sample: the gains are 1/8 and 1/4, and a measurement undoes the back-off.
Sample(rtt) ==
    /\ scale' = 1
    /\ IF srtt = NoSample
       THEN srtt' = rtt /\ rttvar' = rtt \div 2
       ELSE /\ rttvar' = rttvar - rttvar \div 4 + AbsDiff(srtt, rtt) \div 4
            /\ srtt' = srtt - srtt \div 8 + rtt \div 8

\* Mutant: the variation is forgotten when the timer fires.
BackOffForgets == scale' = Clamp(2 * scale, 1, MaxScale) /\ rttvar' = 0 /\ srtt' = srtt

\* back_off: a retransmission timer fired.
BackOff ==
    /\ scale' = Clamp(2 * scale, 1, MaxScale)
    /\ UNCHANGED << srtt, rttvar >>

Next == BackOff \/ \E rtt \in Samples : Sample(rtt)

Spec == Init /\ [][Next]_vars

BaseRto == IF srtt = NoSample THEN MinRto
           ELSE Clamp(srtt + AtLeast(4 * rttvar, 1), MinRto, MaxRto)

\* Mutant: no ceiling after the back-off.
RtoUncapped == BaseRto * scale

rto == Clamp(BaseRto * scale, 0, MaxRto)

-----------------------------------------------------------------------------
(***************************************************************************)
(* Whatever has been measured and however often the timer has fired, the   *)
(* timeout on_tick uses stays between its floor and its ceiling.           *)
(***************************************************************************)
RtoInBounds == MinRto <= rto /\ rto <= MaxRto

(***************************************************************************)
(* Karn's back-off: while no fresh sample arrives the timeout never        *)
(* shrinks, so a congested path is not hit faster and faster.              *)
(***************************************************************************)
BackOffHolds == [][scale' # 1 => rto' >= rto]_vars

(***************************************************************************)
(* Integer smoothing does not drift: SRTT never leaves the range of the    *)
(* measurements, up to the 7 ms that truncation can cost at the bottom.    *)
(***************************************************************************)
SmoothedWithinSamples ==
    srtt # NoSample =>
        /\ \E s \in Samples : s <= srtt + 7
        /\ \E s \in Samples : srtt <= s

=============================================================================
