----------------------------- MODULE Arithmetic -----------------------------
(***************************************************************************)
(* Facts about the natural numbers that the proofs of several components   *)
(* rest on: least and greatest members, induction over a set of numbers,   *)
(* and the quotient and remainder of a number that was put together from   *)
(* digits, as a SYN cookie is.                                             *)
(***************************************************************************)
EXTENDS Integers, FiniteSetTheorems, TLAPS

\* Every nonempty set of natural numbers has a least member.
LEMMA LeastNumber ==
    ASSUME NEW T \in SUBSET Nat, T # {}
    PROVE  \E x \in T : \A y \in T : x <= y
<1>1. IsWellFoundedOn(OpToRel(<, Nat), Nat)
  BY NatLessThanWellFounded, Zenon
<1>2. PICK x \in T : \A y \in T : ~(<< y, x >> \in OpToRel(<, Nat))
  BY <1>1, WFMin, Zenon
<1>3. \A y \in T : y < x => << y, x >> \in OpToRel(<, Nat)
  BY DEF OpToRel
<1>4. \A y \in T : ~(y < x)
  BY <1>2, <1>3, Zenon
<1> HIDE <1>1, <1>2, <1>3
<1>5. x \in T /\ x \in Nat /\ T \subseteq Nat
  BY <1>2, Zenon
<1> QED BY <1>4, <1>5

\* A nonempty set of numbers up to n has a greatest member.
LEMMA GreatestNumber ==
    ASSUME NEW n \in Nat, NEW T \in SUBSET (0 .. n), T # {}
    PROVE  \E x \in T : \A y \in T : y <= x
<1> DEFINE U == {n - y : y \in T}
<1>1. U \in SUBSET Nat /\ U # {}
  <2>1. \A y \in T : n - y \in Nat
    OBVIOUS
  <2>2. PICK t \in T : TRUE
    OBVIOUS
  <2>3. n - t \in U
    OBVIOUS
  <2> QED BY <2>1, <2>3
<1>2. PICK u \in U : \A v \in U : u <= v
  <2> HIDE DEF U
  <2> QED BY <1>1, LeastNumber
<1>3. PICK x \in T : u = n - x
  OBVIOUS
<1>4. \A y \in T : n - y \in U
  OBVIOUS
<1>5. \A y \in T : n - x <= n - y
  BY <1>2, <1>3, <1>4
<1> HIDE DEF U
<1> QED BY <1>5

\* Induction: a set that holds 0 and the successor of each of its numbers below n holds 0 .. n.
LEMMA SetInduction ==
    ASSUME NEW n \in Nat, NEW S, 0 \in S, \A i \in 0 .. n - 1 : i \in S => i + 1 \in S
    PROVE  0 .. n \subseteq S
<1> DEFINE T == (0 .. n) \ S
<1> SUFFICES ASSUME T # {} PROVE FALSE
  OBVIOUS
<1>1. PICK x \in T : \A y \in T : x <= y
  <2>1. T \in SUBSET Nat
    OBVIOUS
  <2> HIDE DEF T
  <2> QED BY <2>1, LeastNumber
<1>2. x # 0 /\ x - 1 \in 0 .. n - 1 /\ x - 1 \notin T
  BY <1>1
<1> QED BY <1>2

\* The quotient and the remainder of r * k + m, for m below r.
LEMMA Digits ==
    ASSUME NEW r \in Nat \ {0}, NEW k \in Int, NEW m \in 0 .. r - 1
    PROVE  (k * r + m) \div r = k /\ (k * r + m) % r = m
<1> DEFINE a == k * r + m
           d == a \div r
           e == a % r
<1>1. k * r \in Int /\ a \in Int
  OBVIOUS
<1>2. d \in Int /\ e \in 0 .. r - 1 /\ a = r * d + e
  <2> HIDE DEF a
  <2> QED BY <1>1
<1>3. r * (d - k) = m - e
  <2> HIDE DEF d, e
  <2> QED BY <1>2
<1> HIDE DEF d, e, a
<1>4. CASE d - k >= 1
  <2>1. r * (d - k) >= r
    BY <1>2, <1>4
  <2> QED BY <1>2, <1>3, <2>1
<1>5. CASE d - k <= -1
  <2>1. r * (d - k) <= -r
    BY <1>2, <1>5
  <2> QED BY <1>2, <1>3, <2>1
<1>6. CASE d = k
  <2>1. r * (d - k) = 0
    BY <1>6
  <2>2. e = m
    BY <1>2, <1>3, <2>1
  <2> QED BY <1>6, <2>2 DEF d, e, a
<1> QED BY <1>2, <1>4, <1>5, <1>6

\* The remainder of a number at most one modulus away.
LEMMA NearMod ==
    ASSUME NEW r \in Nat \ {0}
    PROVE  /\ \A a \in 0 .. r - 1 : a % r = a
           /\ \A a \in r .. 2 * r - 1 : a % r = a - r
           /\ \A a \in -r .. -1 : a % r = a + r
<1>1. ASSUME NEW a \in 0 .. r - 1 PROVE a % r = a
  <2>1. (0 * r + a) % r = a
    BY Digits
  <2> QED BY <2>1
<1>2. ASSUME NEW a \in r .. 2 * r - 1 PROVE a % r = a - r
  <2>1. a - r \in 0 .. r - 1
    OBVIOUS
  <2>2. (1 * r + (a - r)) % r = a - r
    BY <2>1, Digits
  <2> QED BY <2>2
<1>3. ASSUME NEW a \in -r .. -1 PROVE a % r = a + r
  <2>1. a + r \in 0 .. r - 1
    OBVIOUS
  <2>2. ((-1) * r + (a + r)) % r = a + r
    BY <2>1, Digits
  <2>3. (-1) * r + (a + r) = a
    OBVIOUS
  <2> QED BY <2>2, <2>3
<1> QED BY <1>1, <1>2, <1>3

=============================================================================
