---- MODULE UpDownCounter ----
(***************************************************************************)
(* cntr_udclr_nb.v, the counter behind a motor's position: a register that *)
(* goes up or down by one and has no other limits than its width.  The     *)
(* program reads it as a signed number, and so do these operators.         *)
(***************************************************************************)
EXTENDS Integers

CONSTANT EncHalf  \* half the range of the hardware counter (2^15 on the FPGA)

(* What a register of that width shows of the number n.                    *)
InRange(n) == ((n + EncHalf) % (2 * EncHalf)) - EncHalf

(* Mutant of CountUp: a counter wider than its register.                   *)
CountUp_NoWrap(e) == e + 1

CountUp(e)   == IF e = EncHalf - 1 THEN -EncHalf ELSE e + 1
CountDown(e) == IF e = -EncHalf THEN EncHalf - 1 ELSE e - 1
====
