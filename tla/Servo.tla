------------------------------- MODULE Servo -------------------------------
(***************************************************************************)
(* One servo of the rover: the control step of rover/servo.c with the PID  *)
(* of rover/pid.c and the motor registers of rover/motor.c.                *)
(*                                                                         *)
(* A servo is a record with the fields of the C structs that the rest of   *)
(* the program tells apart.  The PID works on doubles; here it works on    *)
(* integers, and what the integral and the derivative add to the           *)
(* proportional term is an element of Kicks chosen anew on every update.   *)
(***************************************************************************)
EXTENDS UpDownCounter

CONSTANTS
  Kp,           \* proportional gain (15)
  SpeedOffset,  \* how far ahead speed control puts its setpoint (10000)
  Kicks         \* what integral and derivative may add to the output

MaxDuty == 255

(* The derivative is at most about 2000 per count of motion per update, so *)
(* it stays below the 150000 of a speed-controlled servo's proportional    *)
(* term as long as a wheel turns less than 70 counts per millisecond and   *)
(* its counter does not wrap.                                              *)
ASSUME ServoAssumption ==
  /\ EncHalf \in Nat \ {0}
  /\ Kp \in Nat
  /\ SpeedOffset \in Nat
  /\ Kicks \subseteq Int
  /\ \A k \in Kicks : Kp * SpeedOffset + k > MaxDuty

Magnitude(x) == IF x < 0 THEN -x ELSE x

ServoState ==
  [counts           : Int,            \* position the program works with
   prevCounts       : Int,            \* counter value at the last update
   motorCounts      : Int,            \* motor.counts, the last register read
   setpoint         : Int,
   speed_controlled : BOOLEAN,
   outputLimitMin   : -MaxDuty .. MaxDuty,
   outputLimitMax   : -MaxDuty .. MaxDuty,
   output           : -MaxDuty .. MaxDuty,
   dir              : {0, 1},
   duty_cycle       : 0 .. MaxDuty]

(* Servo_init and PIDController_init; MotorController_init has just        *)
(* cleared the hardware counter.                                           *)
Servo_init ==
  [counts |-> 0, prevCounts |-> 0, motorCounts |-> 0, setpoint |-> 0,
   speed_controlled |-> FALSE,
   outputLimitMin |-> -MaxDuty, outputLimitMax |-> MaxDuty,
   output |-> 0, dir |-> 1, duty_cycle |-> 0]

(* Mutant of Clamp: the upper limit is forgotten.                          *)
Clamp_NoUpper(raw, lo, hi) == IF raw < lo THEN lo ELSE raw

(* The order of the two tests matters: a negative speed leaves the lower   *)
(* limit above the upper one.                                              *)
Clamp(raw, lo, hi) ==
  IF raw > hi THEN hi ELSE IF raw < lo THEN lo ELSE raw

(* The error handed to PIDController_update: in speed control the setpoint *)
(* runs ahead of the measurement and is never reached.                     *)
PidError(s) ==
  IF s.speed_controlled THEN SpeedOffset ELSE s.setpoint - s.counts

PIDController_update(s, kick) ==
  [s EXCEPT !.output = Clamp(Kp * PidError(s) + kick,
                             s.outputLimitMin, s.outputLimitMax)]

(* Mutant of UpdateCounts: the previous value is not kept.                 *)
UpdateCounts_NoPrev(s, enc) ==
  [s EXCEPT !.motorCounts = enc, !.counts = @ + (enc - s.prevCounts)]

(* Mutant of UpdateCounts: the previous value is overwritten too early.    *)
UpdateCounts_PrevFirst(s, enc) ==
  [s EXCEPT !.motorCounts = enc, !.prevCounts = enc]

(* Servo_update up to the control signal: the difference of two 16-bit     *)
(* values is taken in int and is not reduced to 16 bits again.             *)
UpdateCounts(s, enc) ==
  [s EXCEPT !.motorCounts = enc,
            !.counts      = @ + (enc - s.prevCounts),
            !.prevCounts  = enc]

ApplyOutput(s) ==
  [s EXCEPT !.dir        = IF s.output >= 0 THEN 0 ELSE 1,
            !.duty_cycle = Magnitude(s.output)]

Servo_update(s, enc, kick) ==
  ApplyOutput(PIDController_update(UpdateCounts(s, enc), kick))

(* What MotorController_write puts in the control register, and the signed *)
(* drive the FPGA's decoder makes of it for the H bridge.                  *)
ControlWord(s) == [duty |-> s.duty_cycle, dir |-> s.dir]
Drive(word) == IF word.dir = 0 THEN word.duty ELSE -word.duty
=============================================================================
