----------------------------- MODULE WheelDrive -----------------------------
(***************************************************************************)
(* The drive wheels of the rover: the API calls of rover/rover.c that the  *)
(* main thread makes, the timer interrupt (a SIGALRM handler) that updates *)
(* every servo, and the wheels and counters that move meanwhile.           *)
(*                                                                         *)
(* The handler runs to completion between two memory accesses of the main  *)
(* thread, so it is one action and the main thread takes one step for each *)
(* access to a servo.  The library is built without optimisation, so the   *)
(* accesses happen in program order.                                       *)
(*                                                                         *)
(* Wheels are numbered in the order of the array servos[].                 *)
(***************************************************************************)
EXTENDS Servo

CONSTANTS
  NumWheels,
  LeftWheels,   \* the wheels on the left side
  GaitOrder,    \* the order in which the gait functions address the wheels
  BadEncoder,   \* the wheels check_rover_done leaves out
  Program,      \* the API calls the program makes, in any order
  StopSpeed,    \* limit rover_stop gives the PID (128)
  StopBack,     \* how far behind the position it puts the setpoint (10)
  DoneBuffer,   \* tolerance of check_rover_done (2)
  Rolling,      \* bound of the model: the wheels that ever turn
  ShaftMax,     \* bound of the model: how far a wheel turns either way
  DriftMax      \* bound of the model: no rover_stop beyond this drift

Wheels == 1 .. NumWheels
Gaits  == {"forward", "reverse", "cw", "ccw"}
Calls  == [op    : Gaits \cup {"move_x", "stop", "check_done"},
           speed : 1 .. MaxDuty,
           dist  : Int]

ASSUME WheelDriveAssumption ==
  /\ NumWheels \in Nat \ {0}
  /\ LeftWheels \subseteq Wheels
  /\ GaitOrder \in [Wheels -> Wheels]
  /\ \A w \in Wheels : \E i \in Wheels : GaitOrder[i] = w
  /\ BadEncoder \subseteq Wheels
  /\ Program \subseteq Calls
  /\ StopSpeed \in 1 .. MaxDuty
  /\ StopBack \in Nat
  /\ DoneBuffer \in Nat
  /\ Rolling \subseteq Wheels
  /\ ShaftMax \in Nat
  /\ DriftMax \in Nat

VARIABLES
  shaft,  \* encoder steps each wheel has really turned since Servo_init
  enc,    \* the hardware counter of each wheel
  servo,  \* servos[]
  reg,    \* the control register of each wheel's motor controller
  main    \* the main thread: where it is, in which call, at which wheel

vars == <<shaft, enc, servo, reg, main>>

(* The speed a call hands to motor_set_speed, or takes as its PID limit.   *)
Arg(c, w) ==
  CASE c.op = "forward" -> IF w \in LeftWheels THEN c.speed ELSE -c.speed
    [] c.op = "reverse" -> IF w \in LeftWheels THEN -c.speed ELSE c.speed
    [] c.op = "ccw"     -> -c.speed
    [] c.op = "stop"    -> StopSpeed
    [] OTHER            -> c.speed

(* A positive distance lowers the setpoints of the right-hand wheels.      *)
Setpoint(c, w, position) ==
  IF c.op = "stop" THEN position - StopBack
  ELSE IF w \in LeftWheels THEN position + c.dist ELSE position - c.dist

Cur  == IF main.call.op \in Gaits THEN GaitOrder[main.i] ELSE main.i
S    == servo[Cur]
Goal == Arg(main.call, Cur)

Init ==
  /\ shaft = [w \in Wheels |-> 0]
  /\ enc   = [w \in Wheels |-> 0]
  /\ servo = [w \in Wheels |-> Servo_init]
  /\ reg   = [w \in Wheels |-> ControlWord(Servo_init)]
  /\ main  = [pc |-> "idle", i |-> 1, acc |-> 0, done |-> FALSE,
              word |-> ControlWord(Servo_init),
              call |-> [op |-> "check_done", speed |-> 1, dist |-> 0]]
-----------------------------------------------------------------------------
(* The environment: a wheel turns by one encoder step, under power, pushed *)
(* or rolling, and the FPGA counts it.                                     *)
Turn(w) ==
  /\ w \in Rolling
  /\ \/ /\ shaft[w] < ShaftMax
        /\ shaft' = [shaft EXCEPT ![w] = @ + 1]
        /\ enc'   = [enc EXCEPT ![w] = CountUp(@)]
     \/ /\ shaft[w] > -ShaftMax
        /\ shaft' = [shaft EXCEPT ![w] = @ - 1]
        /\ enc'   = [enc EXCEPT ![w] = CountDown(@)]
  /\ UNCHANGED <<servo, reg, main>>

(* The interrupt: rover_isr updates all servos and writes their registers. *)
Isr ==
  /\ \E kick \in [Wheels -> Kicks] :
       servo' = [w \in Wheels |-> Servo_update(servo[w], enc[w], kick[w])]
  /\ reg' = [w \in Wheels |-> ControlWord(servo'[w])]
  /\ UNCHANGED <<shaft, enc, main>>
-----------------------------------------------------------------------------
(* What the program believes a wheel turned beyond what the counter, read  *)
(* as a signed 16-bit number, says.                                        *)
Drift(w) == servo[w].counts - servo[w].prevCounts

(* The main thread.                                                        *)
Begin(c) ==
  /\ main.pc = "idle"
  /\ c.op = "stop" => \A w \in Wheels : Magnitude(Drift(w)) <= DriftMax
  /\ main' = [main EXCEPT !.pc = IF c.op = "check_done" THEN "check"
                                                        ELSE "limMin",
                          !.call = c, !.i = 1, !.acc = 0, !.done = FALSE]
  /\ UNCHANGED <<shaft, enc, servo, reg>>

(* One access to the servo of the current wheel, with a local variable.    *)
Access(from, to, s, acc) ==
  /\ main.pc = from
  /\ servo' = [servo EXCEPT ![Cur] = s]
  /\ main' = [main EXCEPT !.pc = to, !.acc = acc]
  /\ UNCHANGED <<shaft, enc, reg>>

(* The same for the last access to a wheel: go on to the next or return.   *)
NextWheel(first) ==
  IF main.i = NumWheels THEN [main EXCEPT !.pc = "idle", !.acc = 0]
  ELSE [main EXCEPT !.pc = first, !.acc = 0, !.i = @ + 1]

LastAccess(from, s) ==
  /\ main.pc = from
  /\ servo' = [servo EXCEPT ![Cur] = s]
  /\ main' = NextWheel("limMin")
  /\ UNCHANGED <<shaft, enc, reg>>

(* Mutant of SetLimMin: the mode is switched before the limits are set.    *)
SetLimMin_ModeFirst ==
  Access("limMin", "limMax",
         [S EXCEPT !.outputLimitMin = -Goal, !.speed_controlled = TRUE], 0)

(* motor_set_speed, and the limits rover_move_x sets in the same order.    *)
SetLimMin == Access("limMin", "limMax", [S EXCEPT !.outputLimitMin = -Goal], 0)

SetLimMax ==
  Access("limMax", IF main.call.op = "move_x" THEN "ldPos" ELSE "mode",
         [S EXCEPT !.outputLimitMax = Goal], 0)

(* Mutant of SetSpeedMode: the mode is left as it is.                      *)
SetSpeedMode_Forgotten ==
  \/ main.call.op \in Gaits /\ LastAccess("mode", S)
  \/ main.call.op = "stop" /\ Access("mode", "distance", S, 0)

SetSpeedMode ==
  LET s == [S EXCEPT !.speed_controlled = TRUE]
  IN  \/ main.call.op \in Gaits /\ LastAccess("mode", s)
      \/ main.call.op = "stop" /\ Access("mode", "distance", s, 0)

(* Mutant of ClearSpeedMode: rover_stop leaves the servo in speed control. *)
ClearSpeedMode_Forgotten == Access("distance", "ldPos", S, 0)

(* Mutant of ClearSpeedMode: in the loop over the wheels the first is meant*)
(* every time.                                                             *)
ClearSpeedMode_First ==
  /\ main.pc = "distance"
  /\ servo' = [servo EXCEPT ![1].speed_controlled = FALSE]
  /\ main' = [main EXCEPT !.pc = "ldPos", !.acc = 0]
  /\ UNCHANGED <<shaft, enc, reg>>

(* rover_stop takes the servo out of speed control again ...               *)
ClearSpeedMode ==
  Access("distance", "ldPos", [S EXCEPT !.speed_controlled = FALSE], 0)

(* ... and like rover_move_x computes a setpoint from the position.        *)
LoadPosition ==
  Access("ldPos", "setpoint", S, Setpoint(main.call, Cur, S.counts))

StoreSetpoint ==
  LET s == [S EXCEPT !.setpoint = main.acc]
  IN  \/ main.call.op = "move_x" /\ LastAccess("setpoint", s)
      \/ main.call.op = "stop" /\ Access("setpoint", "read", s, 0)
-----------------------------------------------------------------------------
(* Servo_update on the main thread, as rover_stop calls it.                *)
ReadCounter == Access("read", "ldCounts", [S EXCEPT !.motorCounts = enc[Cur]], 0)
LoadCounts  == Access("ldCounts", "addMotor", S, S.counts)
AddMotor    == Access("addMotor", "subPrev", S, main.acc + S.motorCounts)
SubPrev     == Access("subPrev", "stCounts", S, main.acc - S.prevCounts)
StoreCounts == Access("stCounts", "stPrev", [S EXCEPT !.counts = main.acc], 0)
StorePrev   == Access("stPrev", "pidLoad",
                      [S EXCEPT !.prevCounts = S.motorCounts], 0)

PidLoad ==
  \E kick \in Kicks : Access("pidLoad", "pidStore", S, Kp * PidError(S) + kick)

PidStore ==
  Access("pidStore", "ldSign",
         [S EXCEPT !.output = Clamp(main.acc, S.outputLimitMin,
                                              S.outputLimitMax)], 0)

LoadSign  == Access("ldSign", "stDir", S, ApplyOutput(S).dir)
StoreDir  == Access("stDir", "ldDuty", [S EXCEPT !.dir = main.acc], 0)
LoadDuty  == Access("ldDuty", "stDuty", S, ApplyOutput(S).duty_cycle)
StoreDuty == Access("stDuty", "ldWord", [S EXCEPT !.duty_cycle = main.acc], 0)

(* MotorController_write: the word is composed of the two fields, read one *)
(* after the other, and then stored.                                       *)
LoadWord ==
  /\ \/ /\ main.pc = "ldWord"
        /\ main' = [main EXCEPT !.pc = "ldDir", !.word.duty = S.duty_cycle]
     \/ /\ main.pc = "ldDir"
        /\ main' = [main EXCEPT !.pc = "stWord", !.word.dir = S.dir]
  /\ UNCHANGED <<shaft, enc, servo, reg>>

StoreWord ==
  /\ main.pc = "stWord"
  /\ reg' = [reg EXCEPT ![Cur] = main.word]
  /\ main' = NextWheel("limMin")
  /\ UNCHANGED <<shaft, enc, servo>>
-----------------------------------------------------------------------------
(* check_rover_done: first the steering motors, which may be anywhere here *)
(* (Steering models them), then the wheels one by one.                     *)
Arrived(w) == Magnitude(servo[w].counts - servo[w].setpoint) <= DoneBuffer

Return(result) == main' = [main EXCEPT !.pc = "idle", !.done = result]

CheckDone ==
  /\ main.pc = "check"
  /\ \/ main.i = 1 /\ Return(FALSE)
     \/ main.i \notin BadEncoder /\ ~Arrived(main.i) /\ Return(FALSE)
     \/ /\ main.i \in BadEncoder \/ Arrived(main.i)
        /\ IF main.i = NumWheels THEN Return(TRUE)
           ELSE main' = [main EXCEPT !.i = @ + 1]
  /\ UNCHANGED <<shaft, enc, servo, reg>>
-----------------------------------------------------------------------------
SetLimits == SetLimMin \/ SetLimMax \/ SetSpeedMode
SetGoal   == ClearSpeedMode \/ LoadPosition \/ StoreSetpoint

UpdatePosition == \/ ReadCounter \/ LoadCounts \/ AddMotor
                  \/ SubPrev \/ StoreCounts \/ StorePrev
UpdateDrive    == \/ PidLoad \/ PidStore \/ LoadSign \/ StoreDir
                  \/ LoadDuty \/ StoreDuty \/ LoadWord \/ StoreWord

Main == \/ \E c \in Program : Begin(c)
        \/ SetLimits \/ SetGoal \/ UpdatePosition \/ UpdateDrive \/ CheckDone

Next == Main \/ Isr \/ \E w \in Wheels : Turn(w)

Spec == Init /\ [][Next]_vars
-----------------------------------------------------------------------------
UpdatePcs == {"read", "ldCounts", "addMotor", "subPrev", "stCounts", "stPrev"}
DrivePcs  == {"pidLoad", "pidStore", "ldSign", "stDir", "ldDuty", "stDuty",
              "ldWord", "ldDir", "stWord"}
Pcs       == {"idle", "check", "limMin", "limMax", "mode", "distance", "ldPos",
              "setpoint"} \cup UpdatePcs \cup DrivePcs
Words     == [duty : 0 .. MaxDuty, dir : {0, 1}]
MainState == [pc : Pcs, i : Wheels, acc : Int, done : BOOLEAN, word : Words,
              call : Calls]

(* Types, and the ranges the registers and struct fields have room for: no *)
(* interleaving produces a duty cycle beyond its 8 bits.                   *)
TypeOK ==
  /\ shaft \in [Wheels -> Int]
  /\ enc   \in [Wheels -> -EncHalf .. EncHalf - 1]
  /\ servo \in [Wheels -> ServoState]
  /\ reg   \in [Wheels -> Words]
  /\ main  \in MainState

(* Every interrupt leaves in counts the true position of the wheel:        *)
(* motor_get_position answers in encoder ticks since Servo_init.           *)
TickReadsPosition ==
  [][Isr => \A w \in Wheels : servo'[w].counts = shaft[w]]_vars

(* Once a gait function has returned, every interrupt drives every wheel   *)
(* at the speed and in the direction asked for, whatever the counters, the *)
(* setpoints and the earlier calls were.                                   *)
GaitApplied ==
  [][Isr /\ main.pc = "idle" /\ main.call.op \in Gaits =>
       \A w \in Wheels : Drive(reg'[w]) = Arg(main.call, w)]_vars

(* An interrupt that finds a wheel in speed control, be it between any two *)
(* accesses of motor_set_speed, drives it as some call of the program      *)
(* asked: the half-written limits of two calls never make a third speed.   *)
SpeedTickDrivesACommand ==
  [][Isr => \A w \in Wheels : servo[w].speed_controlled =>
       \E c \in Program : /\ c.op # "check_done"
                          /\ Drive(reg'[w]) = Arg(c, w)]_vars

(* Position is only ever lost while the main thread is in the counting     *)
(* part of the Servo_update rover_stop makes; no other call, and no number *)
(* of interrupts, opens or closes a drift.                                 *)
DriftOnlyInStop ==
  [][(\E w \in Wheels : Drift(w)' # Drift(w)) =>
       main.call.op = "stop" /\ main.pc \in UpdatePcs]_vars

(* Every interrupt adds exactly what the wheel turned since the last one:  *)
(* its position is wrong by what rover_stop lost, now or earlier, and by   *)
(* nothing else.                                                           *)
TickKeepsDrift ==
  [][Isr => \A w \in Wheels : servo'[w].counts - shaft[w] = Drift(w)]_vars

(* Between two calls all wheels are in the same mode, in speed control     *)
(* after a gait and out of it after rover_stop, whatever was called before *)
(* and whichever interrupts came; the other calls leave it as it was.      *)
ModeFollowsCalls ==
  main.pc = "idle" =>
    /\ main.call.op \in Gaits => \A w \in Wheels : servo[w].speed_controlled
    /\ main.call.op = "stop" => \A w \in Wheels : ~servo[w].speed_controlled
    /\ \A v, w \in Wheels :
         servo[v].speed_controlled = servo[w].speed_controlled

(* What an interrupt after rover_move_x makes of a wheel out of speed      *)
(* control: it drives it towards the setpoint unless it is nearly there,   *)
(* and nowhere faster than asked.                                          *)
DrivenTowards(setpoint, position, drive, speed) ==
  LET error == setpoint - position
  IN  /\ Magnitude(drive) <= speed
      /\ (\A k \in Kicks : Kp * Magnitude(error) > Magnitude(k)) =>
           drive * error > 0

(* Once rover_move_x has returned every interrupt drives the wheels to     *)
(* their setpoints, unless they were left in speed control by a gait: then *)
(* none of them heeds its setpoint, and all of them, right and left, turn  *)
(* the same way at the new speed.                                          *)
MoveNeedsStop ==
  [][Isr /\ main.pc = "idle" /\ main.call.op = "move_x" =>
       \/ \A w \in Wheels :
            /\ ~servo[w].speed_controlled
            /\ DrivenTowards(servo[w].setpoint, servo'[w].counts,
                             Drive(reg'[w]), main.call.speed)
       \/ \A w \in Wheels : /\ servo[w].speed_controlled
                             /\ Drive(reg'[w]) = main.call.speed]_vars
=============================================================================
