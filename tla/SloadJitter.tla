----------------------------- MODULE SloadJitter -----------------------------
(***************************************************************************)
(* src/sload.c lines 87-115: the jittered durations of the load           *)
(* generator.  A task given "-b US:J" burns jval(US, J) microseconds per  *)
(* round, and likewise for -s and -w; jval draws from myrand, a linear    *)
(* congruential generator.  unsigned long is ULongBits wide here; all     *)
(* arithmetic on it is modulo 2^ULongBits, as in C.                       *)
(***************************************************************************)
EXTENDS Naturals

CONSTANT ULongBits

ULong == 0..2 ^ ULongBits - 1
Wrap(x) == x % 2 ^ ULongBits

\* myrand(NULL): next = next * 1103515245UL + 12345 (the multiplier is
\* reduced modulo 2^ULongBits first, which leaves the product's residue).
MyRand(next) == Wrap(next * (1103515245 % 2 ^ ULongBits) + 12345)

\* ilog2: the number of shifts that bring v to 0.
RECURSIVE ILog2(_)
ILog2(v) == IF v = 0 THEN 0 ELSE 1 + ILog2(v \div 2)

\* The right shift of jval: 8 * sizeof(unsigned long) - ilog2(2 * jitter) - 1,
\* computed in int.  A shift by a negative amount or by the width is
\* undefined in C.
JShift(jitter) == ULongBits - ILog2(Wrap(2 * jitter)) - 1

\* Mutant: b = v - jitter without the v > jitter test.
JvalNoClamp(v, jitter, r) ==
    IF jitter > 0
    THEN Wrap(Wrap(v - jitter) + ((r \div 2 ^ JShift(jitter)) % Wrap(2 * jitter)))
    ELSE v

\* jval(v, jitter) with r the value myrand returned, when the shift is
\* defined and 2 * jitter is not 0: b = v - jitter or 0, then b plus the
\* top bits of r modulo 2 * jitter.
Jval(v, jitter, r) ==
    IF jitter > 0
    THEN LET b == IF v > jitter THEN v - jitter ELSE 0
         IN  Wrap(b + ((r \div 2 ^ JShift(jitter)) % Wrap(2 * jitter)))
    ELSE v

\* The C operations of jval that have a defined result.
JvalDefined(jitter) ==
    jitter > 0 => /\ JShift(jitter) \in 0..ULongBits - 1
                  /\ Wrap(2 * jitter) # 0
=============================================================================
