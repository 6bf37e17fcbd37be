------------------------------ MODULE SeqArith ------------------------------
(***************************************************************************)
(* 32-bit sequence-number arithmetic (src/seq.rs, RFC 9293 section 3.4).   *)
(* The circle has 2 * Half positions; the code's circle is Half = 2^31.    *)
(* Timestamps (RFC 7323) live on a circle of the same size and are compared *)
(* with the same operators.                                                *)
(***************************************************************************)
EXTENDS Integers

CONSTANT Half   \* half the size of the sequence circle: 2^31 in the code

ASSUME HalfAssumption == Half \in Nat /\ Half > 0

SeqMod == 2 * Half

SeqNum == 0 .. SeqMod - 1

\* u32::wrapping_add and u32::wrapping_sub.
wrapping_add(a, n) == (a + n) % SeqMod

wrapping_sub(a, b) == (a - b) % SeqMod

(***************************************************************************)
(* a is strictly before b when a - b, wrapping, has its sign bit set.      *)
(***************************************************************************)
before(a, b) == wrapping_sub(a, b) >= Half

after(a, b) == before(b, a)

\* start < x <= end on the circle.
between(start, x, end) == after(x, start) /\ ~after(x, end)

=============================================================================
