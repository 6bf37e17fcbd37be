--------------------------- MODULE ControlProofs ---------------------------
(***************************************************************************)
(* What holds of a connection's congestion controller, CUBIC or BBR, for   *)
(* every segment size, threshold, width of the integers, curve and window  *)
(* of the bandwidth filter, and of its estimator.                          *)
(***************************************************************************)
EXTENDS SenderControl, Arithmetic, SequenceTheorems, TLAPS

-----------------------------------------------------------------------------
(* The RTT estimator, for every set of measurements and every floor,      *)
(* ceiling and back-off limit                                              *)

\* The estimator's variables keep their types: no subtraction of sample goes
\* below zero (the code's u64 would panic or wrap there).
THEOREM RttType == Spec => []TypeOK
<1>1. Init => TypeOK
  BY DEF Init, TypeOK, NoSample
<1>2. TypeOK /\ [Next]_vars => TypeOK'
  <2> SUFFICES ASSUME TypeOK, [Next]_vars PROVE TypeOK'
    OBVIOUS
  <2>1. CASE BackOff
    BY <2>1, RttAssumption DEF TypeOK, BackOff, Clamp
  <2>2. ASSUME NEW rtt \in Samples, Sample(rtt) PROVE TypeOK'
    <3>1. rtt \in Nat
      BY RttAssumption
    <3>2. AbsDiff(srtt, rtt) \div 4 \in Nat \/ srtt = NoSample
      BY <3>1 DEF TypeOK, AbsDiff
    <3>3. CASE srtt = NoSample
      BY <2>2, <3>1, <3>3 DEF TypeOK, Sample
    <3>4. CASE srtt # NoSample
      BY <2>2, <3>1, <3>2, <3>4 DEF TypeOK, Sample
    <3> QED BY <3>3, <3>4
  <2>3. CASE UNCHANGED vars
    BY <2>3 DEF TypeOK, vars
  <2> QED BY <2>1, <2>2, <2>3 DEF Next
<1> QED BY <1>1, <1>2, PTL DEF Spec

\* Doubling never lowers a timeout.
LEMMA ScaleGrows ==
    ASSUME NEW a \in Nat, NEW n \in Nat \ {0}
    PROVE  a * n \in Nat /\ a <= a * n
OBVIOUS

\* Before back-off the timeout is clamped between its floor and its ceiling.
LEMMA BaseInBounds == TypeOK => BaseRto \in Nat /\ MinRto <= BaseRto /\ BaseRto <= MaxRto
BY RttAssumption DEF TypeOK, BaseRto, Clamp, AtLeast, NoSample

\* The timeout of an estimator on its own is within its floor and ceiling.
LEMMA RtoBoundsAlone == Spec => []RtoInBounds
<1>1. TypeOK => RtoInBounds
  <2> SUFFICES ASSUME TypeOK PROVE RtoInBounds
    OBVIOUS
  <2>1. BaseRto * scale \in Nat /\ BaseRto <= BaseRto * scale
    BY BaseInBounds, ScaleGrows DEF TypeOK
  <2> QED BY <2>1, BaseInBounds, RttAssumption DEF RtoInBounds, rto, Clamp
<1> QED BY <1>1, RttType, PTL

\* A larger back-off factor gives no smaller timeout.
LEMMA ScaleMonotone ==
    ASSUME NEW a \in Nat, NEW m \in Nat, NEW n \in Nat, m <= n
    PROVE  a * m \in Nat /\ a * n \in Nat /\ a * m <= a * n
OBVIOUS

\* The inductive strengthening of BackOffHolds: the factor is capped.
ScaleCapped == scale <= MaxScale

\* The back-off factor never exceeds its limit.
LEMMA ScaleInvariant == Spec => []ScaleCapped
<1>1. Init => ScaleCapped
  BY RttAssumption DEF Init, ScaleCapped
<1>2. TypeOK /\ ScaleCapped /\ [Next]_vars => ScaleCapped'
  BY RttAssumption DEF TypeOK, Next, BackOff, Sample, Clamp, vars, ScaleCapped
<1> QED BY <1>1, <1>2, RttType, PTL DEF Spec

\* Without a fresh sample the timeout of an estimator on its own never shrinks.
LEMMA RtoHoldsAlone == Spec => BackOffHolds
<1>1. TypeOK /\ ScaleCapped /\ [Next]_vars => [scale' # 1 => rto' >= rto]_vars
  <2> SUFFICES ASSUME TypeOK, ScaleCapped, Next, scale' # 1 PROVE rto' >= rto
    BY DEF vars
  <2>1. BackOff
    BY DEF Next, Sample
  <2>2. BaseRto' = BaseRto
    BY <2>1 DEF BackOff, BaseRto
  <2>3. scale' \in Nat /\ scale \in Nat /\ scale <= scale'
    BY <2>1, RttAssumption DEF BackOff, Clamp, TypeOK, ScaleCapped
  <2>4. /\ BaseRto * scale \in Nat /\ BaseRto * scale' \in Nat
        /\ BaseRto * scale <= BaseRto * scale'
    BY <2>3, BaseInBounds, ScaleMonotone
  <2> QED BY <2>2, <2>4, RttAssumption DEF rto, Clamp
<1> QED BY <1>1, ScaleInvariant, RttType, PTL DEF Spec, BackOffHolds

\* An integer is eight times its shift by three, and what is cut off is below eight.
LEMMA ShiftByThree ==
    ASSUME NEW a \in Nat
    PROVE  a \div 8 \in Nat /\ 8 * (a \div 8) <= a /\ a <= 8 * (a \div 8) + 7
OBVIOUS

\* One smoothing step moves SRTT towards the measurement and not past it, but for the 7 cut off.
LEMMA SmoothingStep ==
    ASSUME NEW a \in Nat, NEW r \in Nat
    PROVE  LET b == a - a \div 8 + r \div 8
           IN  /\ b \in Nat
               /\ b <= a \/ b <= r
               /\ a <= b \/ r <= b + 7
<1> DEFINE x == a \div 8
           y == r \div 8
<1>1. x \in Nat /\ 8 * x <= a /\ a <= 8 * x + 7
  BY ShiftByThree
<1>2. y \in Nat /\ 8 * y <= r /\ r <= 8 * y + 7
  BY ShiftByThree
<1> HIDE DEF x, y
<1>3. /\ a - x + y \in Nat
      /\ a - x + y <= a \/ a - x + y <= r
      /\ a <= a - x + y \/ r <= a - x + y + 7
  BY <1>1, <1>2
<1> QED BY <1>3 DEF x, y

\* SRTT of an estimator on its own stays within what has been measured.
LEMMA SmoothedAlone == Spec => []SmoothedWithinSamples
<1>1. Init => SmoothedWithinSamples
  BY DEF Init, SmoothedWithinSamples
<1>2. TypeOK /\ SmoothedWithinSamples /\ [Next]_vars => SmoothedWithinSamples'
  <2> SUFFICES ASSUME TypeOK, SmoothedWithinSamples, [Next]_vars
               PROVE  SmoothedWithinSamples'
    OBVIOUS
  <2>1. CASE srtt' = srtt
    BY <2>1 DEF SmoothedWithinSamples
  <2>2. ASSUME NEW rtt \in Samples, Sample(rtt) PROVE SmoothedWithinSamples'
    <3>1. rtt \in Nat /\ Samples \subseteq Nat
      BY RttAssumption
    <3>2. CASE srtt = NoSample
      BY <2>2, <3>1, <3>2 DEF Sample, SmoothedWithinSamples
    <3>3. CASE srtt # NoSample
      <4>1. srtt \in Nat /\ srtt' = srtt - srtt \div 8 + rtt \div 8
        BY <2>2, <3>3 DEF TypeOK, Sample
      <4>2. /\ srtt' \in Nat /\ (srtt' <= srtt \/ srtt' <= rtt)
            /\ (srtt <= srtt' \/ rtt <= srtt' + 7)
        BY <3>1, <4>1, SmoothingStep
      <4>3. PICK lo \in Samples, hi \in Samples : lo <= srtt + 7 /\ srtt <= hi
        BY <3>3 DEF SmoothedWithinSamples
      <4>4. (lo <= srtt' + 7 \/ rtt <= srtt' + 7) /\ (srtt' <= hi \/ srtt' <= rtt)
        BY <3>1, <4>1, <4>2, <4>3
      <4> QED BY <4>3, <4>4 DEF SmoothedWithinSamples
    <3> QED BY <3>2, <3>3
  <2> QED BY <2>1, <2>2 DEF Next, BackOff, vars
<1> QED BY <1>1, <1>2, RttType, PTL DEF Spec

-----------------------------------------------------------------------------
(* Arithmetic on windows *)

\* The initial threshold and the inflated window fit in a u32 (ControlAssumption without
\* the parts about the path).
LEMMA Constants ==
    /\ Mss \in Nat /\ Mss > 0 /\ DupThresh \in Nat /\ DupThresh > 0
    /\ U32 \in Nat /\ InitSsthresh \in 2 * Mss .. U32 - 1 /\ 2 * Mss < U32 /\ U32 > 0
    /\ DupThresh * Mss \in Nat /\ (DupThresh + 2) * Mss = DupThresh * Mss + 2 * Mss
    /\ (DupThresh + 2) * Mss + U32 \div 10 < U32
    /\ Acked \subseteq Nat /\ Targets \subseteq Nat
  <1>1. Mss \in Nat /\ DupThresh \in Nat BY ControlAssumption
  <1>2. DupThresh * Mss \in Nat /\ (DupThresh + 2) * Mss = DupThresh * Mss + 2 * Mss
    BY <1>1
  <1> QED BY <1>1, <1>2, ControlAssumption

\* A remainder is below the divisor and no more than what is divided.
LEMMA Remainder ==
    ASSUME NEW x \in Nat, NEW n \in Nat, n > 0
    PROVE  x % n \in 0 .. n - 1 /\ x % n <= x
  <1>1. x % n \in 0 .. n - 1 OBVIOUS
  <1>2. CASE x < n
    <2>1. x % n = x BY <1>2
    <2> QED BY <1>1, <2>1
  <1>3. CASE x >= n BY <1>1, <1>3
  <1> QED BY <1>2, <1>3

LEMMA Quotient ==
    ASSUME NEW x \in Nat, NEW n \in Nat, n > 0
    PROVE  x \div n \in Nat
  OBVIOUS

\* 7/10 of a window: no more than the window, or than two segments, and far from the wrap.
LEMMA ReducedFacts ==
    ASSUME NEW w \in 0 .. U32 - 1
    PROVE  /\ C!Reduced(w) \in Nat
           /\ C!Reduced(w) >= 2 * Mss
           /\ C!Reduced(w) <= C!Larger(w, 2 * Mss)
           /\ C!Reduced(w) <= 2 * Mss + U32 \div 10
           /\ C!Reduced(w) < U32
  <1> DEFINE x == (w * 7) % U32
  <1>1. x \in 0 .. U32 - 1 /\ x <= w * 7 BY Remainder, Constants
  <1>2. x \div 10 \in Nat /\ x \div 10 <= U32 \div 10 /\ x \div 10 <= w
    BY <1>1, Constants
  <1> HIDE DEF x
  <1>3. C!Reduced(w) = IF x \div 10 < 2 * Mss THEN 2 * Mss ELSE x \div 10
    BY DEF C!Reduced, x
  <1>4. U32 \div 10 < U32 /\ U32 \div 10 \in Nat BY Constants
  <1> QED BY <1>2, <1>3, <1>4, Constants DEF C!Larger

LEMMA SaturatingAdd ==
    ASSUME NEW a \in 0 .. U32 - 1, NEW b \in Nat
    PROVE  C!saturating_add(a, b) \in a .. U32 - 1
  BY Constants DEF C!saturating_add

\* The controller's state is one that CUBIC reaches.
CubicOK(c) ==
    /\ c \in C!Cubic
    /\ c.cwnd >= Mss /\ c.ssthresh >= 2 * Mss
    /\ c.epoch => ~c.in_recovery /\ c.cwnd >= c.ssthresh /\ c.w_max >= c.ssthresh
    /\ c.in_recovery => c.ssthresh <= C!Larger(c.w_max, 2 * Mss)

\* The fields of a controller that CUBIC reaches.
LEMMA Fields ==
    ASSUME NEW c, CubicOK(c)
    PROVE  /\ c \in C!Cubic
           /\ c.cwnd \in Mss .. U32 - 1 /\ c.ssthresh \in 2 * Mss .. U32 - 1
           /\ c.w_max \in 0 .. U32 - 1 /\ c.dup_acks \in 0 .. DupThresh + 1
           /\ c.epoch \in BOOLEAN /\ c.in_recovery \in BOOLEAN
           /\ c.cwnd \in 0 .. U32 - 1
  BY Constants DEF CubicOK, C!Cubic

LEMMA DefaultOK == CubicOK(C!default)
  BY Constants DEF CubicOK, C!default, C!Cubic

\* The count of duplicate ACKs stays just above the threshold at most.
LEMMA CountType ==
    ASSUME NEW n \in 0 .. DupThresh + 1
    PROVE  C!Count(n) \in 0 .. DupThresh + 1
  BY Constants DEF C!Count

\* A step of congestion avoidance only raises the window.
LEMMA AvoidOK ==
    ASSUME NEW c, CubicOK(c), ~c.in_recovery, c.cwnd >= c.ssthresh,
           NEW target \in Nat, NEW started \in BOOLEAN
    PROVE  CubicOK(C!Avoid(c, target, started))
  <1> DEFINE step == IF target > c.cwnd
                     THEN (target - c.cwnd) \div C!Larger(c.cwnd \div Mss, 1)
                     ELSE (Mss * Mss) \div c.cwnd
             up == C!saturating_add(c.cwnd, C!Larger(step, 1))
             wm == IF c.epoch THEN c.w_max ELSE C!Larger(c.w_max, c.cwnd)
             ep == c.epoch \/ started
             d == C!Avoid(c, target, started)
  <1>1. c \in C!Cubic /\ c.cwnd \in Nat /\ c.cwnd > 0 BY Constants DEF CubicOK, C!Cubic
  <1>2. c.cwnd \div Mss \in Nat BY <1>1, Constants, Quotient
  <1>3. C!Larger(c.cwnd \div Mss, 1) \in Nat /\ C!Larger(c.cwnd \div Mss, 1) > 0
    BY <1>2 DEF C!Larger
  <1>4. step \in Nat
    <2>1. CASE target > c.cwnd
      <3>1. target - c.cwnd \in Nat BY <1>1, <2>1
      <3> QED BY <2>1, <3>1, <1>3, Quotient
    <2>2. CASE ~(target > c.cwnd)
      <3>1. Mss * Mss \in Nat BY Constants
      <3> QED BY <2>2, <3>1, <1>1, Quotient
    <2> QED BY <2>1, <2>2
  <1> HIDE DEF step
  <1>5. C!Larger(step, 1) \in Nat BY <1>4 DEF C!Larger
  <1>6. up \in c.cwnd .. U32 - 1 BY <1>1, <1>5, SaturatingAdd DEF C!Cubic
  <1> HIDE DEF up
  <1>7. wm \in 0 .. U32 - 1 /\ wm >= c.ssthresh
    <2>1. CASE c.epoch BY <2>1, Fields DEF CubicOK
    <2>2. CASE ~c.epoch BY <2>2, Fields DEF C!Larger
    <2> QED BY <2>1, <2>2
  <1>8. ep \in BOOLEAN BY Fields
  <1>9. d = [c EXCEPT !.epoch = ep, !.w_max = wm, !.cwnd = up]
    BY DEF C!Avoid, step, up
  <1> HIDE DEF wm, ep, d
  <1>10. d \in C!Cubic
    <2>1. up \in 0 .. U32 - 1 BY <1>1, <1>6
    <2> QED BY <1>1, <1>7, <1>8, <1>9, <2>1 DEF C!Cubic
  <1>11. d.cwnd = up /\ d.ssthresh = c.ssthresh /\ d.in_recovery = c.in_recovery /\ d.w_max = wm
    BY <1>1, <1>9 DEF C!Cubic
  <1>12. d.cwnd >= d.ssthresh /\ d.cwnd >= Mss /\ d.ssthresh >= 2 * Mss /\ d.w_max >= d.ssthresh
    BY <1>6, <1>7, <1>11, Fields, Constants
  <1>13. ~d.in_recovery BY <1>11
  <1>14. CubicOK(d) BY <1>10, <1>12, <1>13 DEF CubicOK
  <1> QED BY <1>14 DEF d

\* A controller with another count of duplicate ACKs and another window.
Raised(c, n, w) == [c EXCEPT !.dup_acks = n, !.cwnd = w]

\* A larger window outside an epoch, with any count of duplicate ACKs, is fine.
LEMMA Raise ==
    ASSUME NEW c, CubicOK(c), ~c.epoch, NEW w \in Mss .. U32 - 1,
           NEW n \in 0 .. DupThresh + 1
    PROVE  CubicOK(Raised(c, n, w))
  <1> DEFINE d == Raised(c, n, w)
  <1>1. d \in C!Cubic
    <2>1. c \in C!Cubic BY Fields
    <2>2. w \in 0 .. U32 - 1 BY Constants
    <2> QED BY <2>1, <2>2 DEF C!Cubic, Raised
  <1>2. /\ d.cwnd = w /\ d.ssthresh = c.ssthresh /\ d.in_recovery = c.in_recovery
        /\ d.w_max = c.w_max /\ d.epoch = c.epoch
    BY Fields DEF C!Cubic, Raised
  <1> HIDE DEF d
  <1>3. d.cwnd >= Mss /\ d.ssthresh >= 2 * Mss BY <1>2, Fields, Constants
  <1>4. ~d.epoch BY <1>2
  <1>5. d.in_recovery => d.ssthresh <= C!Larger(d.w_max, 2 * Mss) BY <1>2 DEF CubicOK
  <1>6. CubicOK(d) BY <1>1, <1>3, <1>4, <1>5 DEF CubicOK
  <1> QED BY <1>6 DEF d

\* A controller outside recovery and outside an epoch is fine whatever its windows.
LEMMA Afresh ==
    ASSUME NEW c \in C!Cubic, c.cwnd >= Mss, c.ssthresh >= 2 * Mss, c.epoch = FALSE,
           c.in_recovery => c.ssthresh <= C!Larger(c.w_max, 2 * Mss)
    PROVE  CubicOK(c)
  BY DEF CubicOK

LEMMA AckOK ==
    ASSUME NEW c, CubicOK(c), NEW acked \in Nat, NEW target \in Nat, NEW started \in BOOLEAN
    PROVE  CubicOK(C!on_ack(c, acked, target, started))
  <1> DEFINE d == [c EXCEPT !.dup_acks = 0]
  <1>1. CubicOK(d) /\ d.in_recovery = c.in_recovery /\ d.cwnd = c.cwnd /\ d.ssthresh = c.ssthresh
    BY Constants DEF CubicOK, C!Cubic
  <1>2. CASE c.in_recovery
    <2>1. C!on_ack(c, acked, target, started)
             = [d EXCEPT !.in_recovery = FALSE, !.cwnd = c.ssthresh, !.epoch = FALSE]
      BY <1>2 DEF C!on_ack
    <2> DEFINE e == [d EXCEPT !.in_recovery = FALSE, !.cwnd = c.ssthresh, !.epoch = FALSE]
    <2>2. e \in C!Cubic
      <3>1. c \in C!Cubic /\ c.ssthresh \in 0 .. U32 - 1 BY Fields, Constants
      <3>2. 0 \in 0 .. DupThresh + 1 BY Constants
      <3> QED BY <3>1, <3>2 DEF C!Cubic
    <2>3. e.cwnd = c.ssthresh /\ e.ssthresh = c.ssthresh /\ e.epoch = FALSE
            /\ e.in_recovery = FALSE
      BY Fields DEF C!Cubic
    <2> HIDE DEF e
    <2>4. e.cwnd >= Mss /\ e.ssthresh >= 2 * Mss BY <2>3, Fields, Constants
    <2>5. CubicOK(e) BY <2>2, <2>3, <2>4, Afresh
    <2> QED BY <2>1, <2>5 DEF e
  <1>3. CASE ~c.in_recovery /\ acked = 0
    BY <1>1, <1>3 DEF C!on_ack
  <1>4. CASE ~c.in_recovery /\ acked # 0 /\ c.cwnd < c.ssthresh
    <2>1. C!on_ack(c, acked, target, started)
             = Raised(c, 0, C!saturating_add(c.cwnd, Mss))
      BY <1>4, Fields DEF C!on_ack, C!Cubic, Raised
    <2>2. C!saturating_add(c.cwnd, Mss) \in c.cwnd .. U32 - 1
      BY SaturatingAdd, Constants, Fields
    <2>3. ~c.epoch BY <1>4, Fields DEF CubicOK
    <2>4. C!saturating_add(c.cwnd, Mss) \in Mss .. U32 - 1 BY <2>2, Fields, Constants
    <2>5. 0 \in 0 .. DupThresh + 1 BY Constants
    <2> HIDE DEF d
    <2> QED BY <2>1, <2>3, <2>4, <2>5, Raise
  <1>5. CASE ~c.in_recovery /\ acked # 0 /\ ~(c.cwnd < c.ssthresh)
    <2>1. C!on_ack(c, acked, target, started) = C!Avoid(d, target, started)
      BY <1>5 DEF C!on_ack
    <2>2. d.cwnd >= d.ssthresh BY <1>1, <1>5 DEF CubicOK, C!Cubic
    <2> QED BY <1>1, <1>5, <2>1, <2>2, AvoidOK
  <1> QED BY <1>2, <1>3, <1>4, <1>5

LEMMA DupAckOK ==
    ASSUME NEW c, CubicOK(c)
    PROVE  CubicOK(C!on_dup_ack(c))
  <1> DEFINE d == [c EXCEPT !.dup_acks = C!Count(@)]
             r == C!Reduced(c.cwnd)
  <1>1. CubicOK(d) BY CountType DEF CubicOK, C!Cubic
  <1>2. c.cwnd \in 0 .. U32 - 1 BY DEF CubicOK, C!Cubic
  <1>3. CASE C!fires(c)
    <2>1. /\ r \in Nat /\ r >= 2 * Mss /\ r < U32
          /\ r <= C!Larger(c.cwnd, 2 * Mss) /\ r <= 2 * Mss + U32 \div 10
      BY <1>2, ReducedFacts
    <2> HIDE DEF r
    <2>2. r + DupThresh * Mss \in 0 .. U32 - 1 BY <2>1, Constants
    <2>3. (r + DupThresh * Mss) % U32 = r + DupThresh * Mss BY <2>2, Constants
    <2>4. C!on_dup_ack(c) = [d EXCEPT !.w_max = c.cwnd, !.ssthresh = r, !.epoch = FALSE,
                                      !.cwnd = r + DupThresh * Mss, !.in_recovery = TRUE]
      BY <1>3, <2>3 DEF C!on_dup_ack, r
    <2> DEFINE e == C!on_dup_ack(c)
    <2>5. e \in C!Cubic
      <3>1. d \in C!Cubic BY <1>1, Fields
      <3>2. r \in 0 .. U32 - 1 BY <2>1, Constants
      <3> HIDE DEF d
      <3> QED BY <1>2, <2>2, <2>4, <3>1, <3>2 DEF C!Cubic
    <2>6. /\ e.w_max = c.cwnd /\ e.ssthresh = r /\ e.epoch = FALSE
          /\ e.cwnd = r + DupThresh * Mss
      BY <2>4, <1>1, Fields DEF C!Cubic
    <2> HIDE DEF e
    <2>7. e.cwnd >= Mss /\ e.ssthresh >= 2 * Mss BY <2>1, <2>6, Constants
    <2>8. e.ssthresh <= C!Larger(e.w_max, 2 * Mss) BY <2>1, <2>6
    <2>9. CubicOK(e) BY <2>5, <2>6, <2>7, <2>8, Afresh
    <2> QED BY <2>9 DEF e
  <1>4. CASE ~C!fires(c) /\ c.in_recovery
    <2>1. C!on_dup_ack(c) = Raised(c, C!Count(c.dup_acks), C!saturating_add(c.cwnd, Mss))
      BY <1>4, Fields DEF C!on_dup_ack, C!Cubic, Raised
    <2>2. C!saturating_add(c.cwnd, Mss) \in Mss .. U32 - 1
      <3>1. C!saturating_add(c.cwnd, Mss) \in c.cwnd .. U32 - 1
        BY <1>2, SaturatingAdd, Constants
      <3> QED BY <3>1, Fields, Constants
    <2>3. ~c.epoch BY <1>4, Fields DEF CubicOK
    <2>4. C!Count(c.dup_acks) \in 0 .. DupThresh + 1 BY Fields, CountType
    <2> HIDE DEF d
    <2> QED BY <2>1, <2>2, <2>3, <2>4, Raise
  <1>5. CASE ~C!fires(c) /\ ~c.in_recovery
    BY <1>1, <1>5 DEF C!on_dup_ack
  <1> QED BY <1>3, <1>4, <1>5

LEMMA PartialAckOK ==
    ASSUME NEW c, CubicOK(c), c.in_recovery, NEW acked \in Nat
    PROVE  CubicOK(C!on_partial_ack(c, acked))
  <1> DEFINE w == C!Larger(C!saturating_add(C!saturating_sub(c.cwnd, acked), Mss), Mss)
  <1>1. C!saturating_sub(c.cwnd, acked) \in 0 .. U32 - 1
    BY Fields, Constants DEF C!saturating_sub
  <1>2. C!saturating_add(C!saturating_sub(c.cwnd, acked), Mss) \in 0 .. U32 - 1
    <2>1. C!saturating_add(C!saturating_sub(c.cwnd, acked), Mss)
             \in C!saturating_sub(c.cwnd, acked) .. U32 - 1
      BY <1>1, SaturatingAdd, Constants
    <2> QED BY <1>1, <2>1, Constants
  <1>3. w \in Mss .. U32 - 1 BY <1>2, Constants DEF C!Larger
  <1> HIDE DEF w
  <1>4. C!on_partial_ack(c, acked) = Raised(c, 0, w)
    BY DEF C!on_partial_ack, w, Raised
  <1>5. ~c.epoch BY Fields DEF CubicOK
  <1>6. 0 \in 0 .. DupThresh + 1 BY Constants
  <1> QED BY <1>3, <1>4, <1>5, <1>6, Raise

LEMMA TimeoutOK ==
    ASSUME NEW c, CubicOK(c)
    PROVE  CubicOK(C!on_timeout(c))
  <1> DEFINE r == C!Reduced(c.cwnd)
             e == C!on_timeout(c)
  <1>1. c.cwnd \in 0 .. U32 - 1 BY Fields
  <1>2. r \in 2 * Mss .. U32 - 1 BY <1>1, ReducedFacts, Constants
  <1>3. e = [cwnd |-> Mss, ssthresh |-> r, dup_acks |-> 0, in_recovery |-> FALSE,
             w_max |-> c.cwnd, epoch |-> FALSE]
    <2>1. e = [C!default EXCEPT !.w_max = c.cwnd, !.ssthresh = r] BY DEF C!on_timeout
    <2> HIDE DEF e, r
    <2> QED BY <2>1 DEF C!default
  <1> HIDE DEF r, e
  <1>4. e \in C!Cubic BY <1>1, <1>2, <1>3, Constants DEF C!Cubic
  <1>5. e.cwnd = Mss /\ e.ssthresh = r /\ e.epoch = FALSE /\ e.in_recovery = FALSE BY <1>3
  <1>6. e.cwnd >= Mss /\ e.ssthresh >= 2 * Mss BY <1>2, <1>5, Constants
  <1>7. CubicOK(e) BY <1>4, <1>5, <1>6, Afresh
  <1> QED BY <1>7 DEF e

-----------------------------------------------------------------------------
(* The specification *)

CubicInv == IsCubic => CubicOK(cc)

\* The inductive step.
LEMMA CubicInvStep == CubicInv /\ [ControlNext]_controlVars => CubicInv'
  <1> SUFFICES ASSUME CubicInv, IsCubic, [ControlNext]_controlVars
               PROVE  CubicInv'
    <2>1. [ControlNext]_controlVars => path' = path
      BY DEF ControlNext, PartialAck, CubicAck, BbrAck, DupAck, Timeout, controlVars
    <2> QED BY <2>1 DEF CubicInv, IsCubic
  <1>1. CubicOK(cc) BY DEF CubicInv
  <1>2. ASSUME NEW acked \in Acked, NEW rtt \in RttSamples, PartialAck(acked, rtt)
        PROVE  CubicOK(cc')
    BY <1>1, <1>2, PartialAckOK, Constants DEF PartialAck, in_recovery
  <1>3. ASSUME NEW acked \in Acked, NEW rtt \in RttSamples, NEW target \in Targets,
               NEW started \in BOOLEAN, CubicAck(acked, rtt, target, started)
        PROVE  CubicOK(cc')
    BY <1>1, <1>3, AckOK, Constants DEF CubicAck
  <1>4. ASSUME NEW flight \in Flights, DupAck(flight)
        PROVE  CubicOK(cc')
    BY <1>1, <1>4, DupAckOK DEF DupAck
  <1>5. CASE Timeout BY <1>1, <1>5, TimeoutOK DEF Timeout, CubicInv
  <1>6. CASE UNCHANGED controlVars BY <1>1, <1>6 DEF controlVars, CubicInv
  <1> QED BY <1>2, <1>3, <1>4, <1>5, <1>6 DEF ControlNext, BbrAck, CubicInv

LEMMA CubicInvHolds == ControlSpec => []CubicInv
  <1>1. ControlInit => CubicInv BY DefaultOK DEF ControlInit, CubicInv
  <1> QED BY <1>1, CubicInvStep, PTL DEF ControlSpec

(***************************************************************************)
(* CUBIC's window never closes (src/congestion.rs): after any sequence of  *)
(* ACKs, losses and timeouts one segment may be sent, although cwnd * 7    *)
(* wraps for large windows.                                                *)
(***************************************************************************)
THEOREM WindowHolds == ControlSpec => []WindowNeverCloses
  <1>1. CubicInv => WindowNeverCloses BY DEF CubicInv, CubicOK, WindowNeverCloses
  <1> QED BY <1>1, CubicInvHolds, PTL

(***************************************************************************)
(* A CUBIC epoch runs only in congestion avoidance (src/congestion.rs):    *)
(* whatever the order of losses, partial ACKs and timeouts, each of them   *)
(* ends it before the curve is used again.                                 *)
(***************************************************************************)
THEOREM EpochHolds == ControlSpec => []EpochOnlyInAvoidance
  <1>1. CubicInv => EpochOnlyInAvoidance BY DEF CubicInv, CubicOK, EpochOnlyInAvoidance
  <1> QED BY <1>1, CubicInvHolds, PTL

\* The steps that end a recovery end it with the threshold or with one segment.
LEMMA DeflatingStep ==
    ASSUME CubicInv, [ControlNext]_controlVars, IsCubic, cc.in_recovery, ~cc'.in_recovery
    PROVE  cc'.cwnd <= C!Larger(cc.w_max, 2 * Mss)
  <1>1. CubicOK(cc) BY DEF CubicInv
  <1>2. ASSUME NEW acked \in Acked, NEW rtt \in RttSamples, PartialAck(acked, rtt)
        PROVE  FALSE
    BY <1>1, <1>2 DEF PartialAck, C!on_partial_ack, CubicOK, C!Cubic
  <1>3. ASSUME NEW acked \in Acked, NEW rtt \in RttSamples, NEW target \in Targets,
               NEW started \in BOOLEAN, CubicAck(acked, rtt, target, started)
        PROVE  cc'.cwnd = cc.ssthresh
    BY <1>1, <1>3 DEF CubicAck, C!on_ack, CubicOK, C!Cubic
  <1>4. ASSUME NEW flight \in Flights, DupAck(flight)
        PROVE  FALSE
    BY <1>1, <1>4 DEF DupAck, C!on_dup_ack, CubicOK, C!Cubic
  <1>5. CASE Timeout
    <2>1. cc'.cwnd = Mss BY <1>5 DEF Timeout, C!on_timeout, C!default
    <2> QED BY <1>1, <2>1, Constants DEF C!Larger, CubicOK, C!Cubic
  <1>6. CASE UNCHANGED controlVars BY <1>6 DEF controlVars
  <1>7. cc.ssthresh <= C!Larger(cc.w_max, 2 * Mss) BY <1>1 DEF CubicOK
  <1> QED BY <1>2, <1>3, <1>4, <1>5, <1>6, <1>7 DEF ControlNext, BbrAck

(***************************************************************************)
(* Recovery deflates (src/congestion.rs, on_ack and on_timeout): however   *)
(* often duplicate ACKs inflated the window, the episode ends with one no  *)
(* larger than the window in which the loss was noticed.                   *)
(***************************************************************************)
THEOREM RecoveryDeflatesHolds == ControlSpec => RecoveryDeflates
  <1>1. CubicInv /\ [ControlNext]_controlVars
          => [IsCubic /\ cc.in_recovery /\ ~cc'.in_recovery
                => cc'.cwnd <= C!Larger(cc.w_max, 2 * Mss)]_controlVars
    BY DeflatingStep
  <1> QED BY <1>1, CubicInvHolds, PTL DEF ControlSpec, RecoveryDeflates

-----------------------------------------------------------------------------
(* The estimator *)

\* The path of a behaviour is one of Paths.
LEMMA PathIsKnown == ControlSpec => [](path \in DOMAIN Paths)
  <1>1. ControlInit => path \in DOMAIN Paths BY DEF ControlInit
  <1>2. path \in DOMAIN Paths /\ [ControlNext]_controlVars => (path \in DOMAIN Paths)'
    BY DEF ControlNext, PartialAck, CubicAck, BbrAck, DupAck, Timeout, controlVars
  <1> QED BY <1>1, <1>2, PTL DEF ControlSpec

\* A measurement is a step of the estimator, or none.
LEMMA MeasureStep ==
    ASSUME path \in DOMAIN Paths, NEW rtt \in RttSamples, Measure(rtt)
    PROVE  [Next]_vars
  <1>1. CASE rtt = B!NoRtt BY <1>1 DEF Measure, vars
  <1>2. CASE rtt # B!NoRtt
    <2>1. Paths[path].samples \subseteq Samples BY ControlAssumption
    <2>2. rtt \in Samples BY <1>2, <2>1 DEF RttSamples
    <2> QED BY <1>2, <2>2 DEF Measure, Next
  <1> QED BY <1>1, <1>2

\* The estimator inside a connection takes only steps of RttEstimator.
LEMMA EstimatorStep == ControlSpec => Spec
  <1>1. ControlInit => Init BY DEF ControlInit
  <1>2. path \in DOMAIN Paths /\ [ControlNext]_controlVars => [Next]_vars
    <2> SUFFICES ASSUME path \in DOMAIN Paths, [ControlNext]_controlVars
                 PROVE  [Next]_vars
      OBVIOUS
    <2>1. ASSUME NEW acked \in Acked, NEW rtt \in RttSamples, PartialAck(acked, rtt)
          PROVE  [Next]_vars
      BY <2>1, MeasureStep DEF PartialAck
    <2>2. ASSUME NEW acked \in Acked, NEW rtt \in RttSamples, NEW target \in Targets,
                 NEW started \in BOOLEAN, CubicAck(acked, rtt, target, started)
          PROVE  [Next]_vars
      BY <2>2, MeasureStep DEF CubicAck
    <2>3. ASSUME NEW acked \in Acked, NEW rtt \in RttSamples, NEW dt \in Gaps,
                 BbrAck(acked, rtt, dt)
          PROVE  [Next]_vars
      BY <2>3, MeasureStep DEF BbrAck
    <2>4. ASSUME NEW flight \in Flights, DupAck(flight)
          PROVE  [Next]_vars
      BY <2>4 DEF DupAck, vars
    <2>5. CASE Timeout BY <2>5 DEF Timeout, Next
    <2>6. CASE UNCHANGED controlVars BY <2>6 DEF controlVars, vars
    <2> QED BY <2>1, <2>2, <2>3, <2>4, <2>5, <2>6 DEF ControlNext
  <1> QED BY <1>1, <1>2, PathIsKnown, PTL DEF ControlSpec, Spec

(***************************************************************************)
(* The timeout on_tick compares with (src/rtt.rs, rto) is within its floor *)
(* and ceiling in every connection, under either controller.               *)
(***************************************************************************)
THEOREM RtoBounds == ControlSpec => []RtoInBounds
  BY EstimatorStep, RtoBoundsAlone, PTL

(***************************************************************************)
(* Between two fresh samples, whatever duplicate ACKs and unmeasured ACKs  *)
(* come, a connection's timeout never shrinks (src/rtt.rs, back_off).      *)
(***************************************************************************)
THEOREM RtoHolds == ControlSpec => BackOffHolds
  BY EstimatorStep, RtoHoldsAlone, PTL

(***************************************************************************)
(* SRTT stays within what has been measured (src/rtt.rs, sample): however  *)
(* long the samples go on, truncation does not accumulate beyond the 7 ms  *)
(* of one step.                                                            *)
(***************************************************************************)
THEOREM SmoothedHolds == ControlSpec => []SmoothedWithinSamples
  BY EstimatorStep, SmoothedAlone, PTL

-----------------------------------------------------------------------------
(* BBR: the bandwidth filter *)

BbrSample == [age : 0 .. BwWindow + 1, rate : Nat]

\* A monotone deque: from front to back the samples get newer and their rates fall.
Deque(dq) ==
    /\ dq \in Seq(BbrSample)
    /\ \A i, j \in 1 .. Len(dq) : i < j => dq[i].rate > dq[j].rate /\ dq[i].age >= dq[j].age

\* The deque filters S: it holds samples of S, and for each sample of S one that is no
\* older and no smaller.
Filters(dq, S) ==
    /\ Deque(dq)
    /\ S \subseteq BbrSample
    /\ \A i \in 1 .. Len(dq) : dq[i] \in S
    /\ \A s \in S : \E i \in 1 .. Len(dq) : dq[i].age <= s.age /\ dq[i].rate >= s.rate

\* What such a deque answers is the largest rate.
LEMMA FilterMax ==
    ASSUME NEW dq, NEW S, Filters(dq, S)
    PROVE  /\ S = {} <=> dq = << >>
           /\ \A s \in S : s.rate <= B!get(dq)
           /\ S # {} => \E s \in S : s.rate = B!get(dq)
           /\ B!get(dq) \in Nat
  <1>1. dq \in Seq(BbrSample) /\ Len(dq) \in Nat /\ (dq = << >> <=> Len(dq) = 0)
    BY EmptySeq, LenProperties DEF Filters, Deque
  <1>2. CASE Len(dq) = 0
    <2>1. 1 .. Len(dq) = {} BY <1>2
    <2>2. S = {} BY <2>1 DEF Filters
    <2> QED BY <1>1, <1>2, <2>2 DEF B!get
  <1>3. CASE Len(dq) # 0
    <2>1. 1 \in 1 .. Len(dq) BY <1>1, <1>3
    <2>2. B!get(dq) = dq[1].rate /\ dq[1] \in S /\ dq[1].rate \in Nat
      BY <1>1, <1>3, <2>1 DEF B!get, Filters, BbrSample
    <2>3. ASSUME NEW s \in S PROVE s.rate <= dq[1].rate
      <3>1. PICK i \in 1 .. Len(dq) : dq[i].rate >= s.rate BY DEF Filters
      <3>2. dq[i] \in BbrSample /\ s \in BbrSample BY DEF Filters
      <3>3. i = 1 \/ dq[1].rate > dq[i].rate BY <1>1, <2>1 DEF Filters, Deque
      <3> QED BY <2>2, <3>1, <3>2, <3>3 DEF BbrSample
    <2> QED BY <1>1, <1>3, <2>2, <2>3
  <1> QED BY <1>2, <1>3

\* The age of a sample n rounds on.
Aging(s, n) == [s EXCEPT !.age = B!AtMost(@ + n, BwWindow + 1)]

LEMMA AgingKeeps ==
    ASSUME NEW s \in BbrSample, NEW t \in BbrSample, NEW n \in {0, 1}
    PROVE  /\ Aging(s, n) \in BbrSample /\ Aging(s, n).rate = s.rate
           /\ s.age <= t.age => Aging(s, n).age <= Aging(t, n).age
           /\ n = 0 => Aging(s, n) = s
  <1>1. BwWindow \in Nat BY ControlAssumption
  <1>2. Aging(s, n) = [age |-> B!AtMost(s.age + n, BwWindow + 1), rate |-> s.rate]
    BY DEF Aging, BbrSample
  <1>3. Aging(t, n) = [age |-> B!AtMost(t.age + n, BwWindow + 1), rate |-> t.rate]
    BY DEF Aging, BbrSample
  <1>4. s.age \in 0 .. BwWindow + 1 /\ t.age \in 0 .. BwWindow + 1 /\ s.rate \in Nat
    BY DEF BbrSample
  <1>5. B!AtMost(s.age + n, BwWindow + 1) \in 0 .. BwWindow + 1
    BY <1>1, <1>4 DEF B!AtMost
  <1>6. s.age <= t.age => B!AtMost(s.age + n, BwWindow + 1) <= B!AtMost(t.age + n, BwWindow + 1)
    BY <1>1, <1>4 DEF B!AtMost
  <1>7. n = 0 => B!AtMost(s.age + n, BwWindow + 1) = s.age
    BY <1>1, <1>4 DEF B!AtMost
  <1>8. s = [age |-> s.age, rate |-> s.rate] BY DEF BbrSample
  <1> QED BY <1>2, <1>3, <1>4, <1>5, <1>6, <1>7, <1>8 DEF BbrSample

\* A round ages the deque and the samples alike.
LEMMA FiltersAged ==
    ASSUME NEW dq, NEW S, Filters(dq, S), NEW n \in {0, 1}
    PROVE  Filters(IF n = 1 THEN B!NextRound(dq) ELSE dq, {Aging(s, n) : s \in S})
  <1> DEFINE e == [i \in 1 .. Len(dq) |-> Aging(dq[i], n)]
             T == {Aging(s, n) : s \in S}
  <1>1. /\ dq \in Seq(BbrSample) /\ Len(dq) \in Nat /\ DOMAIN dq = 1 .. Len(dq)
        /\ \A i \in 1 .. Len(dq) : dq[i] \in BbrSample
    BY LenProperties DEF Filters, Deque
  <1>2. (IF n = 1 THEN B!NextRound(dq) ELSE dq) = e
    <2>1. CASE n = 1 BY <1>1, <2>1 DEF B!NextRound, Aging
    <2>2. CASE n = 0
      <3>1. \A i \in 1 .. Len(dq) : Aging(dq[i], n) = dq[i] BY <1>1, <2>2, AgingKeeps
      <3>2. dq = [i \in 1 .. Len(dq) |-> dq[i]] BY <1>1
      <3> QED BY <2>2, <3>1, <3>2
    <2> QED BY <2>1, <2>2
  <1>3. e \in Seq(BbrSample) /\ Len(e) = Len(dq)
    <2>1. \A i \in 1 .. Len(dq) : Aging(dq[i], n) \in BbrSample BY <1>1, AgingKeeps
    <2> QED BY <1>1, <2>1, IsASeq
  <1>4. \A i \in 1 .. Len(dq) : e[i] = Aging(dq[i], n) OBVIOUS
  <1> HIDE DEF e
  <1>5. Deque(e)
    BY <1>1, <1>3, <1>4, AgingKeeps, SMTT(40) DEF Filters, Deque
  <1>6. S \subseteq BbrSample BY DEF Filters
  <1>7. T \subseteq BbrSample BY <1>6, AgingKeeps
  <1>8. \A i \in 1 .. Len(e) : e[i] \in T BY <1>3, <1>4 DEF Filters
  <1>9. ASSUME NEW t \in T
        PROVE  \E i \in 1 .. Len(e) : e[i].age <= t.age /\ e[i].rate >= t.rate
    <2>1. PICK s \in S : t = Aging(s, n) OBVIOUS
    <2>2. PICK i \in 1 .. Len(dq) : dq[i].age <= s.age /\ dq[i].rate >= s.rate BY DEF Filters
    <2>3. e[i].age <= t.age /\ e[i].rate >= t.rate
      BY <1>1, <1>4, <1>6, <2>1, <2>2, AgingKeeps
    <2> QED BY <1>3, <2>3
  <1> HIDE DEF T
  <1>10. Filters(e, T) BY <1>5, <1>7, <1>8, <1>9 DEF Filters
  <1> QED BY <1>2, <1>10 DEF T

\* Which samples a new one leaves at the front.
LEMMA UncoveredIs ==
    ASSUME NEW dq, Deque(dq), NEW v \in Nat
    PROVE  LET n == B!Uncovered(dq, v)
           IN  /\ n \in 0 .. Len(dq)
               /\ n = 0 \/ dq[n].rate > v
               /\ \A i \in n + 1 .. Len(dq) : dq[i].rate <= v
  <1> DEFINE L == Len(dq)
             T == {0} \cup {i \in 1 .. L : dq[i].rate > v}
             P(n) == (n = 0 \/ dq[n].rate > v) /\ \A i \in n + 1 .. L : dq[i].rate <= v
  <1>1. L \in Nat BY LenProperties DEF Deque
  <1>2. \A i \in 1 .. L : dq[i].rate \in Nat
    <2>1. \A i \in 1 .. L : dq[i] \in BbrSample BY ElementOfSeq DEF Deque
    <2> QED BY <2>1 DEF BbrSample
  <1>3. T \in SUBSET (0 .. L) /\ T # {}
    <2> HIDE DEF L
    <2> QED BY <1>1
  <1>4. PICK x \in T : \A y \in T : y <= x
    <2> HIDE DEF T, L
    <2> QED BY <1>1, <1>3, GreatestNumber
  <1>5. x \in 0 .. L /\ P(x)
    <2>1. x \in 0 .. L BY <1>3
    <2>2. x = 0 \/ dq[x].rate > v OBVIOUS
    <2>3. ASSUME NEW i \in x + 1 .. L PROVE dq[i].rate <= v
      <3> HIDE DEF L
      <3>1. i \in 1 .. L /\ i > x BY <1>1, <2>1
      <3>2. i \notin T
        <4> HIDE DEF T
        <4> QED BY <1>1, <1>4, <2>1, <3>1
      <3> QED BY <1>2, <3>1, <3>2
    <2> QED BY <2>1, <2>2, <2>3
  <1>6. B!Uncovered(dq, v) = CHOOSE n \in 0 .. L : P(n) BY DEF B!Uncovered
  <1> HIDE DEF P
  <1>7. B!Uncovered(dq, v) \in 0 .. L /\ P(B!Uncovered(dq, v)) BY <1>5, <1>6
  <1> QED BY <1>7 DEF P

\* What is left once the stale samples at the front are dropped.
LEMMA FirstFreshIs ==
    ASSUME NEW dq \in Seq(BbrSample), Len(dq) > 0, dq[Len(dq)].age <= BwWindow
    PROVE  LET n == B!FirstFresh(dq)
           IN  /\ n \in 1 .. Len(dq)
               /\ dq[n].age <= BwWindow
               /\ \A i \in 1 .. n - 1 : dq[i].age > BwWindow
  <1> DEFINE L == Len(dq)
             T == {i \in 1 .. L : dq[i].age <= BwWindow}
             P(n) == dq[n].age <= BwWindow /\ \A i \in 1 .. n - 1 : dq[i].age > BwWindow
  <1>1. L \in Nat /\ DOMAIN dq = 1 .. L BY LenProperties
  <1>2. \A i \in 1 .. L : dq[i].age \in Int
    <2>1. \A i \in 1 .. L : dq[i] \in BbrSample BY ElementOfSeq
    <2> QED BY <2>1 DEF BbrSample
  <1>3. T \in SUBSET Nat /\ T # {}
    <2>1. L \in 1 .. L BY <1>1
    <2>2. L \in T BY <2>1
    <2>3. 1 .. L \subseteq Nat OBVIOUS
    <2> QED BY <2>2, <2>3
  <1>4. PICK x \in T : \A y \in T : x <= y
    <2> HIDE DEF T, L
    <2> QED BY <1>3, LeastNumber
  <1>5. x \in 1 .. L /\ P(x)
    <2>1. x \in 1 .. L /\ dq[x].age <= BwWindow OBVIOUS
    <2>2. ASSUME NEW i \in 1 .. x - 1 PROVE dq[i].age > BwWindow
      <3> HIDE DEF L
      <3>1. i \in 1 .. L /\ i < x BY <1>1, <2>1
      <3>2. i \notin T
        <4> HIDE DEF T
        <4> QED BY <1>4, <2>1, <3>1
      <3>3. BwWindow \in Nat BY ControlAssumption
      <3> QED BY <1>2, <3>1, <3>2, <3>3
    <2> QED BY <2>1, <2>2
  <1>6. B!FirstFresh(dq) = CHOOSE n \in 1 .. L : P(n) BY <1>1 DEF B!FirstFresh
  <1> HIDE DEF P
  <1>7. B!FirstFresh(dq) \in 1 .. L /\ P(B!FirstFresh(dq)) BY <1>5, <1>6
  <1> QED BY <1>7 DEF P

\* A new sample: what it covers leaves at the back, what is stale at the front.
LEMMA FiltersUpdated ==
    ASSUME NEW dq, NEW S, Filters(dq, S), NEW v \in Nat
    PROVE  Filters(B!update(dq, v), {s \in S : s.age <= BwWindow} \cup {[age |-> 0, rate |-> v]})
  <1> DEFINE x == [age |-> 0, rate |-> v]
             n == B!Uncovered(dq, v)
             kept == SubSeq(dq, 1, n)
             pushed == kept \o << x >>
             m == B!FirstFresh(pushed)
             res == SubSeq(pushed, m, Len(pushed))
             T == {s \in S : s.age <= BwWindow} \cup {x}
  <1>1. /\ Deque(dq) /\ dq \in Seq(BbrSample) /\ Len(dq) \in Nat
        /\ \A i \in 1 .. Len(dq) : dq[i] \in BbrSample
    BY LenProperties DEF Filters, Deque
  <1>2. /\ n \in 0 .. Len(dq) /\ n \in Nat
        /\ n = 0 \/ dq[n].rate > v
        /\ \A i \in n + 1 .. Len(dq) : dq[i].rate <= v
    <2>1. /\ n \in 0 .. Len(dq)
          /\ n = 0 \/ dq[n].rate > v
          /\ \A i \in n + 1 .. Len(dq) : dq[i].rate <= v
      BY <1>1, UncoveredIs
    <2> HIDE DEF n
    <2> QED BY <1>1, <2>1
  <1> HIDE DEF n
  <1>3. BwWindow \in Nat BY ControlAssumption
  <1>4. x \in BbrSample /\ x.age = 0 /\ x.rate = v BY <1>3 DEF BbrSample
  <1> HIDE DEF x
  <1>5. kept \in Seq(BbrSample) /\ Len(kept) = n /\ \A i \in 1 .. n : kept[i] = dq[i]
    <2>1. \A i \in 1 .. n : i \in 1 .. Len(dq) BY <1>1, <1>2
    <2> QED BY <1>1, <1>2, <2>1, SubSeqProperties
  <1> HIDE DEF kept
  <1>6. /\ pushed \in Seq(BbrSample) /\ Len(pushed) = n + 1 /\ pushed[n + 1] = x
        /\ \A i \in 1 .. n : pushed[i] = dq[i]
    <2>1. << x >> \in Seq(BbrSample) /\ Len(<< x >>) = 1 BY <1>4
    <2>2. pushed = Append(kept, x) BY <1>5
    <2> QED BY <1>2, <1>4, <1>5, <2>2, AppendProperties
  <1> HIDE DEF pushed
  <1>7. Deque(pushed)
    <2> SUFFICES ASSUME NEW i \in 1 .. n + 1, NEW j \in 1 .. n + 1, i < j
                 PROVE  pushed[i].rate > pushed[j].rate /\ pushed[i].age >= pushed[j].age
      BY <1>6 DEF Deque
    <2>1. i \in 1 .. n /\ i \in 1 .. Len(dq) BY <1>1, <1>2
    <2>2. CASE j \in 1 .. n
      <3>1. j \in 1 .. Len(dq) BY <1>1, <1>2, <2>2
      <3> QED BY <1>1, <1>6, <2>1, <2>2, <3>1 DEF Deque
    <2>3. CASE j = n + 1
      <3>1. n \in 1 .. Len(dq) /\ dq[n].rate > v BY <1>1, <1>2, <2>1
      <3>2. i = n \/ dq[i].rate > dq[n].rate BY <1>1, <2>1, <3>1 DEF Deque
      <3>3. dq[i] \in BbrSample /\ dq[n] \in BbrSample BY <1>1, <2>1, <3>1
      <3>4. dq[i].rate > v BY <3>1, <3>2, <3>3 DEF BbrSample
      <3>5. dq[i].age >= 0 BY <3>3 DEF BbrSample
      <3> QED BY <1>4, <1>6, <2>1, <2>3, <3>4, <3>5
    <2> QED BY <1>2, <2>2, <2>3
  <1>8. m \in 1 .. n + 1 /\ pushed[m].age <= BwWindow
        /\ \A i \in 1 .. m - 1 : pushed[i].age > BwWindow
    <2>1. Len(pushed) > 0 /\ pushed[Len(pushed)].age <= BwWindow BY <1>2, <1>3, <1>4, <1>6
    <2> QED BY <1>6, <2>1, FirstFreshIs
  <1> HIDE DEF m
  <1>9. /\ res \in Seq(BbrSample) /\ Len(res) = n + 2 - m
        /\ \A i \in 1 .. n + 2 - m : res[i] = pushed[m + i - 1]
    <2>1. m .. n + 1 \subseteq 1 .. Len(pushed) BY <1>2, <1>6, <1>8
    <2>2. (n + 1) - m + 1 = n + 2 - m BY <1>2, <1>8
    <2>3. m \in 1 .. Len(pushed) + 1 /\ n + 1 \in m - 1 .. Len(pushed) BY <1>2, <1>6, <1>8
    <2> QED BY <1>6, <1>8, <2>1, <2>2, <2>3, SubSeqProperties
  <1> HIDE DEF res
  <1>10. \A i \in 1 .. n + 2 - m : m + i - 1 \in m .. n + 1 /\ m + i - 1 \in 1 .. n + 1
    BY <1>2, <1>8
  <1>11. Deque(res)
    <2> SUFFICES ASSUME NEW i \in 1 .. n + 2 - m, NEW j \in 1 .. n + 2 - m, i < j
                 PROVE  res[i].rate > res[j].rate /\ res[i].age >= res[j].age
      BY <1>9 DEF Deque
    <2>1. m + i - 1 < m + j - 1 BY <1>2, <1>8
    <2> QED BY <1>6, <1>7, <1>9, <1>10, <2>1 DEF Deque
  <1>12. T \subseteq BbrSample BY <1>4 DEF Filters
  <1>13. ASSUME NEW k \in m .. n + 1 PROVE pushed[k] \in T
    <2>1. pushed[k] \in BbrSample /\ pushed[m] \in BbrSample /\ k \in 1 .. n + 1
      BY <1>2, <1>6, <1>8, ElementOfSeq
    <2>2. k = m \/ pushed[m].age >= pushed[k].age BY <1>2, <1>6, <1>7, <1>8, <2>1 DEF Deque
    <2>3. pushed[k].age <= BwWindow BY <1>3, <1>8, <2>1, <2>2 DEF BbrSample
    <2>4. CASE k = n + 1 BY <1>6, <2>4
    <2>5. CASE k # n + 1
      <3>1. k \in 1 .. n /\ k \in 1 .. Len(dq) BY <1>1, <1>2, <2>1, <2>5
      <3>2. pushed[k] \in S BY <1>6, <3>1 DEF Filters
      <3> QED BY <2>3, <3>2
    <2> QED BY <2>4, <2>5
  <1>14. \A i \in 1 .. Len(res) : res[i] \in T BY <1>9, <1>10, <1>13
  <1>15. ASSUME NEW s \in T
         PROVE  \E k \in m .. n + 1 : pushed[k].age <= s.age /\ pushed[k].rate >= s.rate
    <2>1. n + 1 \in m .. n + 1 BY <1>2, <1>8
    <2>2. s \in BbrSample BY <1>12
    <2>3. CASE s = x BY <1>4, <1>6, <2>1, <2>3
    <2>4. CASE s \in S /\ s.age <= BwWindow
      <3>1. PICK i \in 1 .. Len(dq) : dq[i].age <= s.age /\ dq[i].rate >= s.rate
        BY <2>4 DEF Filters
      <3>2. dq[i] \in BbrSample BY <1>1
      <3>3. CASE i > n
        <4>1. i \in n + 1 .. Len(dq) BY <1>1, <1>2, <3>3
        <4>2. dq[i].rate <= v BY <1>2, <4>1
        <4>3. x.age <= s.age /\ x.rate >= s.rate
          BY <1>4, <2>2, <3>1, <3>2, <4>2 DEF BbrSample
        <4> QED BY <1>6, <2>1, <4>3
      <3>4. CASE i <= n
        <4>1. i \in 1 .. n /\ pushed[i] = dq[i] BY <1>1, <1>2, <1>6, <3>4
        <4>2. pushed[i].age <= BwWindow BY <1>3, <2>2, <2>4, <3>1, <3>2, <4>1 DEF BbrSample
        <4>3. pushed[i].age \in Int BY <3>2, <4>1 DEF BbrSample
        <4>4. i \notin 1 .. m - 1 BY <1>3, <1>8, <4>2, <4>3
        <4>5. i \in m .. n + 1 BY <1>2, <1>8, <4>1, <4>4
        <4> QED BY <3>1, <4>1, <4>5
      <3> QED BY <1>1, <1>2, <3>3, <3>4
    <2> QED BY <2>3, <2>4
  <1>16. ASSUME NEW s \in T
         PROVE  \E i \in 1 .. Len(res) : res[i].age <= s.age /\ res[i].rate >= s.rate
    <2>1. PICK k \in m .. n + 1 : pushed[k].age <= s.age /\ pushed[k].rate >= s.rate BY <1>15
    <2>2. k - m + 1 \in 1 .. n + 2 - m /\ m + (k - m + 1) - 1 = k BY <1>2, <1>8
    <2>3. res[k - m + 1] = pushed[k]
      <3>1. res[k - m + 1] = pushed[m + (k - m + 1) - 1] BY <1>9, <2>2
      <3> QED BY <2>2, <3>1
    <2> QED BY <1>9, <2>1, <2>2, <2>3
  <1>17. Filters(res, T)
    <2> HIDE DEF T
    <2> QED BY <1>11, <1>12, <1>14, <1>16 DEF Filters
  <1>18. B!update(dq, v) = res BY DEF B!update, res, m, pushed, kept, n, x
  <1> QED BY <1>17, <1>18 DEF x

-----------------------------------------------------------------------------
(* BBR: the mode machine *)

BbrField == {"mode", "cwnd", "pacing_gain", "cwnd_gain", "dq", "rtprop", "rtprop_age",
             "has_delivery", "round_age", "full_bw", "full_bw_count", "filled_pipe", "cycle",
             "probe_rtt", "dup_acks"}

\* The mode, the gains and the pipe agree.
ModeOK(b) ==
    /\ DOMAIN b = BbrField
    /\ b.mode \in {"Startup", "Drain", "ProbeBw", "ProbeRtt"} /\ b.filled_pipe \in BOOLEAN
    /\ b.filled_pipe <=> b.mode # "Startup"
    /\ b.pacing_gain \in Nat /\ b.cwnd_gain \in Nat /\ b.cycle \in 0 .. 7
    /\ b.mode \in {"ProbeBw", "ProbeRtt"} => b.pacing_gain <= 125
    /\ b.rtprop \in Nat \cup {B!NoRtt}

\* The window has its floor.
FloorOK(b) ==
    /\ b.cwnd \in Nat /\ b.cwnd >= B!MinPipeCwnd
    /\ b.mode = "ProbeRtt" => b.cwnd = B!MinPipeCwnd

LEMMA PipeIsNat == B!MinPipeCwnd \in Nat /\ RateScale \in Nat /\ RateScale > 0
  BY ControlAssumption DEF B!MinPipeCwnd

\* PROBE_BW begins with a gain of one.
LEMMA EnterProbeBwOK ==
    ASSUME NEW b, ModeOK(b), b.filled_pipe = TRUE
    PROVE  LET d == B!enter_probe_bw(b)
           IN  ModeOK(d) /\ d.dq = b.dq
  BY DEF B!enter_probe_bw, ModeOK, BbrField, B!ProbeBwGains, B!CwndGain

LEMMA UpdateStartupOK ==
    ASSUME NEW b, ModeOK(b), b.mode = "Startup", NEW rs
    PROVE  LET d == B!UpdateStartup(b, rs)
           IN  ModeOK(d) /\ d.dq = b.dq
  <1> DEFINE s == [b EXCEPT !.pacing_gain = B!HighGain, !.cwnd_gain = B!HighGain]
             d == B!UpdateStartup(b, rs)
  <1>1. ModeOK(s) /\ s.dq = b.dq /\ s.mode = "Startup"
    BY DEF ModeOK, BbrField, B!HighGain
  <1>2. d \in {s, [s EXCEPT !.full_bw = B!get(b.dq), !.full_bw_count = 0],
               [s EXCEPT !.full_bw_count = @ + 1, !.filled_pipe = TRUE, !.mode = "Drain"],
               [s EXCEPT !.full_bw_count = @ + 1]}
    BY DEF B!UpdateStartup
  <1> HIDE DEF s, d
  <1>3. ModeOK(d) /\ d.dq = b.dq BY <1>1, <1>2 DEF ModeOK, BbrField
  <1> QED BY <1>3 DEF d

LEMMA UpdateDrainOK ==
    ASSUME NEW b, ModeOK(b), b.mode = "Drain", NEW rs
    PROVE  LET d == B!UpdateDrain(b, rs)
           IN  ModeOK(d) /\ d.dq = b.dq
  <1> DEFINE s == [b EXCEPT !.pacing_gain = B!DrainGain, !.cwnd_gain = B!HighGain]
             d == B!UpdateDrain(b, rs)
  <1>1. ModeOK(s) /\ s.dq = b.dq /\ s.filled_pipe = TRUE
    BY DEF ModeOK, BbrField, B!HighGain, B!DrainGain
  <1>2. d = s \/ d = B!enter_probe_bw(s) BY DEF B!UpdateDrain
  <1> HIDE DEF s, d
  <1>3. ModeOK(d) /\ d.dq = b.dq BY <1>1, <1>2, EnterProbeBwOK
  <1> QED BY <1>3 DEF d

\* No gain of the cycle is above 1.25.
LEMMA CycleGains ==
    ASSUME NEW c \in 0 .. 7
    PROVE  /\ B!ProbeBwGains[c + 1] \in Nat /\ B!ProbeBwGains[c + 1] <= 125
           /\ (c + 1) % Len(B!ProbeBwGains) \in 0 .. 7
  <1>1. Len(B!ProbeBwGains) = 8 BY DEF B!ProbeBwGains
  <1>2. c \in {0, 1, 2, 3, 4, 5, 6, 7} OBVIOUS
  <1>3. B!ProbeBwGains[c + 1] \in Nat /\ B!ProbeBwGains[c + 1] <= 125
    BY <1>2 DEF B!ProbeBwGains
  <1>4. (c + 1) % 8 \in 0 .. 7 OBVIOUS
  <1> QED BY <1>1, <1>3, <1>4

LEMMA UpdateProbeBwOK ==
    ASSUME NEW b, ModeOK(b), b.mode = "ProbeBw", NEW rs, NEW expired
    PROVE  LET d == B!UpdateProbeBw(b, rs, expired)
           IN  ModeOK(d) /\ d.dq = b.dq
  <1> DEFINE c == IF rs THEN (b.cycle + 1) % Len(B!ProbeBwGains) ELSE b.cycle
             g == B!ProbeBwGains[c + 1]
             s == [b EXCEPT !.cwnd_gain = B!CwndGain, !.cycle = c, !.pacing_gain = g]
             d == B!UpdateProbeBw(b, rs, expired)
  <1>1. b.cycle \in 0 .. 7 BY DEF ModeOK
  <1>2. c \in 0 .. 7 BY <1>1, CycleGains
  <1> HIDE DEF c
  <1>3. g \in Nat /\ g <= 125 BY <1>2, CycleGains
  <1>4. d = s \/ d = [s EXCEPT !.mode = "ProbeRtt", !.pacing_gain = 100, !.cwnd_gain = 100,
                               !.probe_rtt = ProbeRttTime]
    BY DEF B!UpdateProbeBw, B!maybe_enter_probe_rtt, c
  <1> HIDE DEF g, d
  <1>5. ModeOK(s) /\ s.dq = b.dq /\ s.mode = "ProbeBw"
    BY <1>2, <1>3 DEF ModeOK, BbrField, B!CwndGain
  <1> HIDE DEF s
  <1>6. CASE d = s BY <1>5, <1>6 DEF d
  <1>7. CASE d = [s EXCEPT !.mode = "ProbeRtt", !.pacing_gain = 100, !.cwnd_gain = 100,
                           !.probe_rtt = ProbeRttTime]
    <2>1. DOMAIN d = BbrField /\ d.mode = "ProbeRtt" /\ d.pacing_gain = 100 /\ d.cwnd_gain = 100
          /\ d.filled_pipe = s.filled_pipe /\ d.cycle = s.cycle /\ d.rtprop = s.rtprop
          /\ d.dq = s.dq
      BY <1>5, <1>7 DEF ModeOK, BbrField
    <2>2. ModeOK(d) /\ d.dq = b.dq BY <1>5, <2>1 DEF ModeOK
    <2> QED BY <2>2 DEF d
  <1> QED BY <1>4, <1>6, <1>7

LEMMA UpdateProbeRttOK ==
    ASSUME NEW b, ModeOK(b), b.mode = "ProbeRtt"
    PROVE  LET d == B!UpdateProbeRtt(b)
           IN  ModeOK(d) /\ d.dq = b.dq
  <1> DEFINE p == [b EXCEPT !.pacing_gain = 100, !.cwnd_gain = 100]
             q == [p EXCEPT !.rtprop_age = 0]
             d == B!UpdateProbeRtt(b)
  <1>1. ModeOK(p) /\ p.dq = b.dq /\ p.filled_pipe = TRUE BY DEF ModeOK, BbrField
  <1>2. b.filled_pipe = TRUE BY DEF ModeOK
  <1>3. d = p \/ d = B!enter_probe_bw(q) BY <1>2 DEF B!UpdateProbeRtt
  <1> HIDE DEF p, d
  <1>4. ModeOK(q) /\ q.dq = b.dq /\ q.filled_pipe = TRUE BY <1>1 DEF ModeOK, BbrField
  <1> HIDE DEF q
  <1>5. ModeOK(d) /\ d.dq = b.dq BY <1>1, <1>3, <1>4, EnterProbeBwOK
  <1> QED BY <1>5 DEF d

LEMMA UpdateModelOK ==
    ASSUME NEW b, ModeOK(b), NEW rs, NEW expired
    PROVE  LET d == B!update_model(b, rs, expired)
           IN  ModeOK(d) /\ d.dq = b.dq
  <1> DEFINE d == B!update_model(b, rs, expired)
  <1>1. CASE b.mode = "Startup"
    <2>1. d = B!UpdateStartup(b, rs) BY <1>1 DEF B!update_model
    <2> QED BY <1>1, <2>1, UpdateStartupOK
  <1>2. CASE b.mode = "Drain"
    <2>1. d = B!UpdateDrain(b, rs) BY <1>2 DEF B!update_model
    <2> QED BY <1>2, <2>1, UpdateDrainOK
  <1>3. CASE b.mode = "ProbeBw"
    <2>1. d = B!UpdateProbeBw(b, rs, expired) BY <1>3 DEF B!update_model
    <2> QED BY <1>3, <2>1, UpdateProbeBwOK
  <1>4. CASE b.mode = "ProbeRtt"
    <2>1. d = B!UpdateProbeRtt(b) BY <1>4 DEF B!update_model
    <2> QED BY <1>4, <2>1, UpdateProbeRttOK
  <1> QED BY <1>1, <1>2, <1>3, <1>4 DEF ModeOK

\* The window is the model's, but never below its floor.
LEMMA RecomputeOK ==
    ASSUME NEW b, ModeOK(b), B!get(b.dq) \in Nat
    PROVE  LET d == B!recompute_cwnd(b)
           IN  ModeOK(d) /\ FloorOK(d) /\ d.dq = b.dq
  <1> DEFINE r == IF b.rtprop = B!NoRtt THEN 0 ELSE b.rtprop
             x == b.cwnd_gain * B!get(b.dq) * r
             target == x \div (100 * RateScale)
             w == IF b.mode = "ProbeRtt" \/ target < B!MinPipeCwnd THEN B!MinPipeCwnd ELSE target
             d == B!recompute_cwnd(b)
  <1>1. r \in Nat /\ b.cwnd_gain \in Nat BY DEF ModeOK
  <1> HIDE DEF r
  <1>2. x \in Nat
    <2>1. b.cwnd_gain * B!get(b.dq) \in Nat BY <1>1
    <2> QED BY <1>1, <2>1
  <1> HIDE DEF x
  <1>3. target \in Nat BY <1>2, PipeIsNat, Quotient
  <1> HIDE DEF target
  <1>4. w \in Nat /\ w >= B!MinPipeCwnd /\ (b.mode = "ProbeRtt" => w = B!MinPipeCwnd)
    BY <1>3, PipeIsNat
  <1>5. d = [b EXCEPT !.cwnd = w] BY DEF B!recompute_cwnd, w, target, x, r
  <1> HIDE DEF w, d
  <1>6. ModeOK(d) /\ FloorOK(d) /\ d.dq = b.dq BY <1>4, <1>5 DEF ModeOK, FloorOK, BbrField
  <1> QED BY <1>6 DEF d

\* What on_ack does before the mode machine touches none of its fields.
SameMode(b, d) ==
    /\ DOMAIN d = BbrField
    /\ d.mode = b.mode /\ d.filled_pipe = b.filled_pipe /\ d.cycle = b.cycle
    /\ d.pacing_gain = b.pacing_gain /\ d.cwnd_gain = b.cwnd_gain
    /\ d.has_delivery = b.has_delivery
    /\ d.rtprop \in Nat \cup {B!NoRtt}

\* The samples once an ACK has been taken into account.
Remembered(S, measures, n, v) ==
    LET aged == {Aging(s, n) : s \in S}
    IN  IF measures THEN {s \in aged : s.age <= BwWindow} \cup {[age |-> 0, rate |-> v]} ELSE aged

LEMMA BbrAckOK ==
    ASSUME NEW b, NEW S, ModeOK(b), Filters(b.dq, S),
           NEW acked \in Nat, NEW rtt \in Nat \cup {B!NoRtt}, NEW dt \in Nat
    PROVE  LET d == B!on_ack(b, acked, rtt, dt)
               n == IF B!StartsRound(b, rtt, dt) THEN 1 ELSE 0
           IN  /\ ModeOK(d) /\ FloorOK(d)
               /\ Filters(d.dq, Remembered(S, B!Measures(b, acked, dt), n, B!Rate(acked, dt)))
  <1> DEFINE b0 == [b EXCEPT !.dup_acks = 0]
             aged == B!Aged(b0, dt)
             meas == B!Measured(aged, rtt)
             rs == B!StartsRound(b, rtt, dt)
             n == IF rs THEN 1 ELSE 0
             counted == B!CountRound(meas, rs)
             ms == B!Measures(b, acked, dt)
             v == B!Rate(acked, dt)
             sampled == B!SampleRate(counted, acked, dt)
             expired == B!rtprop_expired(aged)
             updated == B!update_model(sampled, rs, expired)
             d == B!on_ack(b, acked, rtt, dt)
             T == {Aging(s, n) : s \in S}
             R == Remembered(S, ms, n, v)
  <1>1. d = B!recompute_cwnd(updated) BY DEF B!on_ack
  <1>2. SameMode(b, aged) /\ aged.dq = b.dq
    <2> DEFINE x == B!Older(b0.rtprop_age, dt, RtpropWindow)
               y == B!Older(b0.round_age, dt, MaxRtt)
               z == IF b0.probe_rtt > dt THEN b0.probe_rtt - dt ELSE 0
    <2>1. DOMAIN b0 = BbrField BY DEF ModeOK
    <2>2. aged = [b0 EXCEPT !.rtprop_age = x, !.round_age = y, !.probe_rtt = z]
      BY <2>1 DEF B!Aged, BbrField
    <2> HIDE DEF x, y, z, aged
    <2> QED BY <2>2 DEF SameMode, ModeOK, BbrField
  <1> HIDE DEF aged
  <1>3. SameMode(b, meas) /\ meas.dq = b.dq
    <2>1. meas = aged \/ meas = [aged EXCEPT !.rtprop = rtt, !.rtprop_age = 0]
      BY DEF B!Measured
    <2> HIDE DEF meas
    <2> QED BY <1>2, <2>1 DEF SameMode, BbrField
  <1> HIDE DEF meas, rs
  <1>4. SameMode(b, counted) /\ counted.dq = IF n = 1 THEN B!NextRound(b.dq) ELSE b.dq
    <2> DEFINE e == B!NextRound(meas.dq)
    <2>1. CASE rs
      <3>1. counted = [meas EXCEPT !.round_age = 0, !.dq = e]
        BY <1>3, <2>1 DEF B!CountRound, SameMode, BbrField
      <3>2. n = 1 BY <2>1
      <3>3. e = B!NextRound(b.dq) BY <1>3
      <3> HIDE DEF e, counted, n
      <3> QED BY <1>3, <3>1, <3>2, <3>3 DEF SameMode, BbrField
    <2>2. CASE ~rs
      <3>1. counted = meas /\ n = 0 BY <2>2 DEF B!CountRound
      <3> HIDE DEF counted, n
      <3> QED BY <1>3, <3>1
    <2> QED BY <2>1, <2>2
  <1>5. n \in {0, 1} OBVIOUS
  <1> HIDE DEF n, counted
  <1>6. Filters(counted.dq, T) BY <1>4, <1>5, FiltersAged
  <1>7. ms => v \in Nat
    <2>1. acked * RateScale \in Nat BY PipeIsNat
    <2>2. ms => dt > 0 BY DEF B!Measures
    <2> QED BY <2>1, <2>2, Quotient DEF B!Rate
  <1>8. B!Measures(counted, acked, dt) = ms BY <1>4 DEF B!Measures, SameMode
  <1>9. /\ ModeOK(sampled)
        /\ sampled.dq = IF ms THEN B!update(counted.dq, v) ELSE counted.dq
    <2> DEFINE e == IF ms THEN B!update(counted.dq, v) ELSE counted.dq
    <2>1. sampled = [counted EXCEPT !.has_delivery = TRUE, !.dq = e]
      <3>1. sampled = [counted EXCEPT !.has_delivery = TRUE,
                          !.dq = IF B!Measures(counted, acked, dt) THEN B!update(@, v) ELSE @]
        BY DEF B!SampleRate
      <3>2. [counted EXCEPT !.has_delivery = TRUE,
                          !.dq = IF B!Measures(counted, acked, dt) THEN B!update(@, v) ELSE @]
             = [counted EXCEPT !.has_delivery = TRUE, !.dq =
                    IF B!Measures(counted, acked, dt) THEN B!update(counted.dq, v) ELSE counted.dq]
        BY <1>4 DEF SameMode, BbrField
      <3> HIDE DEF sampled, ms, v
      <3> QED BY <1>8, <3>1, <3>2
    <2> HIDE DEF e, sampled
    <2>2. sampled.dq = e BY <1>4, <2>1 DEF SameMode, BbrField
    <2>3. ModeOK(sampled) BY <1>4, <2>1 DEF SameMode, ModeOK, BbrField
    <2> QED BY <2>2, <2>3 DEF e
  <1>10. R = IF ms THEN {s \in T : s.age <= BwWindow} \cup {[age |-> 0, rate |-> v]} ELSE T
    BY DEF Remembered
  <1> HIDE DEF sampled, ms, v, T, R
  <1>11. Filters(sampled.dq, R)
    <2>1. CASE ms
      <3>1. Filters(B!update(counted.dq, v),
                    {s \in T : s.age <= BwWindow} \cup {[age |-> 0, rate |-> v]})
        BY <1>6, <1>7, <2>1, FiltersUpdated
      <3> QED BY <1>9, <1>10, <2>1, <3>1
    <2>2. CASE ~ms BY <1>6, <1>9, <1>10, <2>2
    <2> QED BY <2>1, <2>2
  <1>12. ModeOK(updated) /\ updated.dq = sampled.dq
    <2> HIDE DEF expired
    <2> QED BY <1>9, UpdateModelOK
  <1> HIDE DEF updated
  <1>13. B!get(updated.dq) \in Nat BY <1>11, <1>12, FilterMax
  <1>14. ModeOK(d) /\ FloorOK(d) /\ d.dq = updated.dq BY <1>1, <1>12, <1>13, RecomputeOK
  <1> HIDE DEF d
  <1>15. ModeOK(d) /\ FloorOK(d) /\ Filters(d.dq, R) BY <1>11, <1>12, <1>14
  <1> QED BY <1>15 DEF d, R, ms, n, v, rs

(***************************************************************************)
(* The inductive invariant of BBR: the deque filters every sample taken,   *)
(* and the mode machine is in one of its states.                           *)
(***************************************************************************)
BbrInv == ~IsCubic => ModeOK(cc) /\ FloorOK(cc) /\ Filters(cc.dq, seen)

LEMMA BbrInit == ASSUME ControlInit PROVE BbrInv
  <1> SUFFICES ASSUME ~IsCubic PROVE ModeOK(cc) /\ FloorOK(cc) /\ Filters(cc.dq, seen)
    BY DEF BbrInv
  <1>1. cc = B!default /\ seen = {} BY DEF ControlInit
  <1>2. ModeOK(cc) /\ FloorOK(cc) /\ cc.dq = << >>
    BY <1>1, PipeIsNat DEF B!default, ModeOK, FloorOK, BbrField, B!HighGain
  <1>3. Filters(<< >>, {})
    <2>1. << >> \in Seq(BbrSample) /\ 1 .. Len(<< >>) = {} BY EmptySeq
    <2> QED BY <2>1 DEF Filters, Deque
  <1> QED BY <1>1, <1>2, <1>3

LEMMA BbrStep == ASSUME path \in DOMAIN Paths, BbrInv, [ControlNext]_controlVars PROVE BbrInv'
  <1> SUFFICES ASSUME ~IsCubic
               PROVE  ModeOK(cc') /\ FloorOK(cc') /\ Filters(cc'.dq, seen')
    <2>1. path' = path
      BY DEF ControlNext, PartialAck, CubicAck, BbrAck, DupAck, Timeout, controlVars
    <2> QED BY <2>1 DEF BbrInv, IsCubic
  <1>1. ModeOK(cc) /\ FloorOK(cc) /\ Filters(cc.dq, seen) BY DEF BbrInv
  <1>2. ASSUME NEW acked \in Acked, NEW rtt \in RttSamples, PartialAck(acked, rtt)
        PROVE  FALSE
    BY <1>2 DEF PartialAck, in_recovery, B!in_recovery
  <1>3. ASSUME NEW acked \in Acked, NEW rtt \in RttSamples, NEW dt \in Gaps,
               BbrAck(acked, rtt, dt)
        PROVE  ModeOK(cc') /\ FloorOK(cc') /\ Filters(cc'.dq, seen')
    <2> DEFINE n == IF B!StartsRound(cc, rtt, dt) THEN 1 ELSE 0
               R == Remembered(seen, B!Measures(cc, acked, dt), n, B!Rate(acked, dt))
    <2>1. acked \in Nat /\ dt \in Nat BY ControlAssumption
    <2>2. rtt \in Nat \cup {B!NoRtt} BY ControlAssumption, RttAssumption DEF RttSamples
    <2>3. cc' = B!on_ack(cc, acked, rtt, dt) /\ Remember(acked, rtt, dt) BY <1>3 DEF BbrAck
    <2>4. seen' = R BY <2>3 DEF Remember, Remembered, Aging
    <2>5. /\ ModeOK(B!on_ack(cc, acked, rtt, dt)) /\ FloorOK(B!on_ack(cc, acked, rtt, dt))
          /\ Filters(B!on_ack(cc, acked, rtt, dt).dq, R)
      BY <1>1, <2>1, <2>2, BbrAckOK
    <2> HIDE DEF R
    <2> QED BY <2>3, <2>4, <2>5
  <1>4. ASSUME NEW flight \in Flights, DupAck(flight)
        PROVE  ModeOK(cc') /\ FloorOK(cc') /\ Filters(cc'.dq, seen')
    <2>1. cc' = [cc EXCEPT !.dup_acks = B!Count(@)] /\ seen' = seen
      BY <1>4 DEF DupAck, B!on_dup_ack
    <2>2. ModeOK(cc') /\ FloorOK(cc') /\ cc'.dq = cc.dq
      BY <1>1, <2>1 DEF ModeOK, FloorOK, BbrField
    <2> QED BY <1>1, <2>1, <2>2
  <1>5. CASE Timeout
    <2>1. cc' = B!on_timeout(cc) /\ seen' = seen BY <1>5 DEF Timeout
    <2>2. ModeOK(cc') /\ FloorOK(cc') /\ cc'.dq = cc.dq
      <3>1. /\ DOMAIN cc' = BbrField /\ cc'.mode = "Startup" /\ cc'.cwnd = B!MinPipeCwnd
            /\ cc'.pacing_gain = 289 /\ cc'.cwnd_gain = 289 /\ cc'.filled_pipe = FALSE
            /\ cc'.cycle = 0 /\ cc'.dq = cc.dq /\ cc'.rtprop = cc.rtprop
        BY <1>1, <2>1, ZenonT(40) DEF ModeOK, BbrField, B!on_timeout, B!HighGain
      <3>2. cc'.filled_pipe \in BOOLEAN /\ (cc'.filled_pipe <=> cc'.mode # "Startup")
        BY <3>1, Zenon
      <3>3. ModeOK(cc') BY <1>1, <3>1, <3>2 DEF ModeOK
      <3>4. FloorOK(cc') BY <3>1, PipeIsNat DEF FloorOK
      <3> QED BY <3>1, <3>3, <3>4
    <2> QED BY <1>1, <2>1, <2>2
  <1>6. CASE UNCHANGED controlVars BY <1>1, <1>6 DEF controlVars
  <1> QED BY <1>2, <1>3, <1>4, <1>5, <1>6 DEF ControlNext, CubicAck

LEMMA BbrInvHolds == ControlSpec => []BbrInv
  <1>1. path \in DOMAIN Paths /\ BbrInv /\ [ControlNext]_controlVars => BbrInv' BY BbrStep
  <1> QED BY <1>1, BbrInit, PathIsKnown, PTL DEF ControlSpec

(***************************************************************************)
(* WindowedMax (src/bbr.rs) is a correct filter for every window length:   *)
(* the front of the deque is the largest rate of the last BwWindow rounds, *)
(* although update drops samples at both ends.                             *)
(***************************************************************************)
THEOREM FilterHolds == ControlSpec => []FilterIsWindowMax
  <1>1. BbrInv => FilterIsWindowMax BY FilterMax DEF BbrInv, FilterIsWindowMax
  <1> QED BY <1>1, BbrInvHolds, PTL

\* A pacing rate under a gain of at most 1.25.
LEMMA PacedAtMost ==
    ASSUME NEW g \in Nat, g <= 125, NEW r \in Nat
    PROVE  g * r <= 125 * r
  <1>1. (125 - g) * r \in Nat BY DEF Nat
  <1>2. (125 - g) * r = 125 * r - g * r OBVIOUS
  <1>3. g * r \in Nat OBVIOUS
  <1> QED BY <1>1, <1>2, <1>3

(***************************************************************************)
(* BBR's mode (src/bbr.rs) agrees with what it has learned: STARTUP if and *)
(* only if the pipe is not known to be full, a window of at least four     *)
(* segments, exactly four in PROBE_RTT, and no pacing above 1.25 times the *)
(* bandwidth in PROBE_BW and PROBE_RTT.                                    *)
(***************************************************************************)
THEOREM ModeHolds == ControlSpec => []ModeMeansPipe
  <1>1. ASSUME BbrInv, ~IsCubic, cc.mode \in {"ProbeBw", "ProbeRtt"}
        PROVE  B!pacing_rate_bps(cc) <= 125 * B!get(cc.dq)
    <2>1. B!get(cc.dq) \in Nat BY <1>1, FilterMax DEF BbrInv
    <2>2. cc.pacing_gain \in Nat /\ cc.pacing_gain <= 125 BY <1>1 DEF BbrInv, ModeOK
    <2> QED BY <2>1, <2>2, PacedAtMost DEF B!pacing_rate_bps
  <1>2. BbrInv => ModeMeansPipe BY <1>1 DEF BbrInv, ModeOK, FloorOK, ModeMeansPipe
  <1> QED BY <1>2, BbrInvHolds, PTL

=============================================================================
