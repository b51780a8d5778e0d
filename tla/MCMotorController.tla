------------------------- MODULE MCMotorController -------------------------
(* A counter that goes round after four edges, a PWM counter of three      *)
(* values with two clocks each.                                            *)
EXTENDS MotorController
=============================================================================
