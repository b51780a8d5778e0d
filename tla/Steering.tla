------------------------------ MODULE Steering ------------------------------
(***************************************************************************)
(* The four steering motors: the calibration against their mechanical      *)
(* stops (rover/steering_motor.c) that the timer interrupt carries one     *)
(* motor after the other (rover_calibrate), and the commands by which the  *)
(* main thread moves the calibrated motors (rover_steer_* in rover.c).     *)
(*                                                                         *)
(* The interrupt is one step: microseconds against the millisecond of its  *)
(* timer and the several that a motor needs for one count of its encoder.  *)
(* The main thread can be interrupted between any two accesses.            *)
(***************************************************************************)
EXTENDS Integers, Sequences

CONSTANTS
  BufSize,      \* buf_size, samples of the position kept (20)
  Spinup,       \* initial value of spinup (20)
  SpinupRight,  \* the value it gets for the way to the right stop (50)
  LeftStop,     \* [Motors -> Int], seen from where a motor was switched on
  RightStop,    \* both at their farthest
  Rebound,      \* [Motors -> Nat], counts by which its stops give way to it
  StartLag,     \* [Motors -> Nat], timer periods it may need to start or turn round
  RunLag,       \* timer periods a running motor may need for one count
  MaxSteer,     \* MAX_STEERING_TICKS (300)
  Angles,       \* arguments of rover_steer_left and rover_steer_right
  EarlyAt,      \* bound: stages at which a point turn is asked for too early
  MaxCommands   \* bound: steering commands the main thread gives

Motors == {"FR", "RR", "FL", "RL"}

ASSUME SteeringAssumption ==
  /\ BufSize \in Nat /\ BufSize > 2
  /\ Spinup \in Nat /\ SpinupRight \in Nat
  /\ LeftStop \in [Motors -> Int] /\ RightStop \in [Motors -> Int]
  /\ Rebound \in [Motors -> Nat]
  /\ \A m \in Motors : /\ RightStop[m] <= 0 /\ 0 <= LeftStop[m]
                       /\ RightStop[m] + Rebound[m] <= LeftStop[m]
  /\ StartLag \in [Motors -> Nat] /\ RunLag \in Nat
  /\ MaxSteer \in Nat /\ Angles \subseteq Int /\ MaxCommands \in Nat
  /\ EarlyAt \subseteq Motors

VARIABLES
  shaft,   \* [Motors -> Int], true position in counts of the encoder
  still,   \* [Motors -> Nat], periods a driven motor has not moved for
  turning, \* [Motors -> BOOLEAN], it has moved since its drive last changed
  cal,     \* the program's data: the four structs and the shared globals
  main     \* the main thread

vars == <<shaft, still, turning, cal, main>>

Nobody == "none"      \* rover_state: ROVER_CALIBRATE_WAITING, then the motor,
Everybody == "all"    \* at last ROVER_CALIBRATE_READY

MotorState == {"WAITING", "LEFT", "RIGHT", "CENTER", "READY"}

(* What main.c's rover_init leaves; drive is the direction that the last   *)
(* motor_set_speed gave.  pos, pos_index and spinup are globals of         *)
(* steering_motor.c, used by all four motors.                              *)
CalInit ==
  [motor       |-> [m \in Motors |->
                      [state |-> "WAITING", left_pos |-> 0, right_pos |-> 0,
                       center_pos |-> 0, target |-> 0, drive |-> 0]],
   pos         |-> [i \in 0 .. BufSize - 1 |-> 0],
   pos_index   |-> 0,
   spinup      |-> Spinup,
   rover_state |-> Nobody]

(* A command: what it adds to each motor's centre, and the order in which  *)
(* it assigns the four targets.                                            *)
Command(order, offset) == [order |-> order, offset |-> offset]

Sides(fr, rr, fl, rl) ==
  [m \in Motors |-> CASE m = "FR" -> fr [] m = "RR" -> rr
                      [] m = "FL" -> fl [] m = "RL" -> rl]

Limited(angle) ==
  IF angle > MaxSteer THEN MaxSteer
  ELSE IF angle < -MaxSteer THEN -MaxSteer ELSE angle

rover_steer_forward ==
  Command(<<"FR", "FL", "RR", "RL">>, Sides(0, 0, 0, 0))

rover_steer_right(angle) ==
  LET a == Limited(angle)
  IN  Command(<<"FR", "RR", "FL", "RL">>, Sides(a, -a, a, -a))

rover_steer_left(angle) ==
  LET a == Limited(angle)
  IN  Command(<<"FR", "RR", "FL", "RL">>, Sides(-a, a, -a, a))

rover_steer_point ==
  Command(<<"FR", "RR", "FL", "RL">>,
          Sides(-MaxSteer, MaxSteer, MaxSteer, -MaxSteer))

Commands ==
  {rover_steer_forward, rover_steer_point}
    \cup {rover_steer_right(a) : a \in Angles}
    \cup {rover_steer_left(a) : a \in Angles}

Init ==
  /\ shaft = [m \in Motors |-> 0]
  /\ still = [m \in Motors |-> 0] /\ turning = [m \in Motors |-> FALSE]
  /\ cal = CalInit
  /\ main = [pc |-> "idle", early |-> FALSE, given |-> 0,
             command |-> rover_steer_forward, i |-> 1, reg |-> 0]
-----------------------------------------------------------------------------
(* steering_motor_handle_state for motor m, whose counter reads p, on the  *)
(* program's data c.  The loop over the samples telescopes: vel is the     *)
(* newest sample less the one taken buf_size - 2 samples before.           *)
Sample_NoWrap(c, p) ==
  [c EXCEPT !.pos[c.pos_index] = p, !.pos_index = @ + 1]

Sample(c, p) ==
  [c EXCEPT !.pos[c.pos_index] = p, !.pos_index = (@ + 1) % BufSize]

Velocity(c, p) == p - c.pos[(c.pos_index + 2) % BufSize]

(* Mutants of SearchLeft: no spinup; spinup left at zero for the way right.*)
SearchLeft_NoSpinup(c, m, p) ==
  LET d == [Sample(c, p) EXCEPT !.motor[m].drive = 1]
  IN  IF Velocity(c, p) < 1
      THEN [d EXCEPT !.motor[m].left_pos = p, !.motor[m].state = "RIGHT",
                     !.spinup = SpinupRight]
      ELSE d

SearchLeft_SpinupSpent(c, m, p) ==
  LET d == [Sample(c, p) EXCEPT !.motor[m].drive = 1]
  IN  IF c.spinup >= 1
      THEN [d EXCEPT !.spinup = IF Velocity(c, p) > 0 THEN @ - 1 ELSE @]
      ELSE IF Velocity(c, p) < 1
      THEN [d EXCEPT !.motor[m].left_pos = p, !.motor[m].state = "RIGHT"]
      ELSE d

SearchLeft(c, m, p) ==
  LET d == [Sample(c, p) EXCEPT !.motor[m].drive = 1]
  IN  IF c.spinup >= 1
      THEN [d EXCEPT !.spinup = IF Velocity(c, p) > 0 THEN @ - 1 ELSE @]
      ELSE IF Velocity(c, p) < 1
      THEN [d EXCEPT !.motor[m].left_pos = p, !.motor[m].state = "RIGHT",
                     !.spinup = SpinupRight]
      ELSE d

(* Mutant of SearchRight: spinup counts the samples of the way left.       *)
SearchRight_WrongWay(c, m, p) ==
  LET d == [Sample(c, p) EXCEPT !.motor[m].drive = -1]
  IN  IF c.spinup >= 1
      THEN [d EXCEPT !.spinup = IF Velocity(c, p) > 0 THEN @ - 1 ELSE @]
      ELSE IF Velocity(c, p) > -1
      THEN [d EXCEPT !.motor[m].drive = 0,
                     !.motor[m].right_pos = p, !.motor[m].state = "CENTER",
                     !.motor[m].center_pos = (c.motor[m].left_pos + p) \div 2]
      ELSE d

SearchRight(c, m, p) ==
  LET d == [Sample(c, p) EXCEPT !.motor[m].drive = -1]
  IN  IF c.spinup >= 1
      THEN [d EXCEPT !.spinup = IF Velocity(c, p) < 0 THEN @ - 1 ELSE @]
      ELSE IF Velocity(c, p) > -1
      THEN [d EXCEPT !.motor[m].drive = 0,
                     !.motor[m].right_pos = p, !.motor[m].state = "CENTER",
                     !.motor[m].center_pos = (c.motor[m].left_pos + p) \div 2]
      ELSE d

(* Mutant of GoToCenter: the target is not set.                            *)
GoToCenter_TargetKept(c, m, p) ==
  LET goal == c.motor[m].center_pos
  IN  [c EXCEPT !.motor[m].drive = IF p < goal THEN 1 ELSE IF p > goal THEN -1 ELSE 0,
                !.motor[m].state = IF p = goal THEN "READY" ELSE @]

(* The difference is compared after a shift by 32 bits: it has to be zero. *)
GoToCenter(c, m, p) ==
  LET goal == c.motor[m].center_pos
  IN  IF p < goal THEN [c EXCEPT !.motor[m].drive = 1]
      ELSE IF p > goal THEN [c EXCEPT !.motor[m].drive = -1]
      ELSE [c EXCEPT !.motor[m].drive = 0, !.motor[m].target = goal,
                     !.motor[m].state = "READY"]

(* Mutant of FollowTarget: a target to the right is not followed.          *)
FollowTarget_OneWay(c, m, p) ==
  LET away == c.motor[m].target - p
  IN  [c EXCEPT !.motor[m].drive = IF away > 1 THEN 1 ELSE 0]

FollowTarget(c, m, p) ==
  LET away == c.motor[m].target - p
  IN  [c EXCEPT !.motor[m].drive = IF away > 1 THEN 1
                                   ELSE IF away < -1 THEN -1 ELSE 0]

handle_state(c, m, p) ==
  CASE c.motor[m].state = "WAITING" -> c
    [] c.motor[m].state = "LEFT"    -> SearchLeft(c, m, p)
    [] c.motor[m].state = "RIGHT"   -> SearchRight(c, m, p)
    [] c.motor[m].state = "CENTER"  -> GoToCenter(c, m, p)
    [] c.motor[m].state = "READY"   -> FollowTarget(c, m, p)

calibrate(c, m) ==
  [c EXCEPT !.motor[m].state = IF @ = "WAITING" THEN "LEFT" ELSE @]

(* The four stages of rover_calibrate, in their order.                     *)
Successor(m) == CASE m = "FR" -> "RR" [] m = "RR" -> "FL"
                  [] m = "FL" -> "RL" [] m = "RL" -> Everybody

(* Mutant of Stage: the next motor's turn comes when this one is centering.*)
Stage_Early(c, m, p) ==
  LET d    == handle_state(c, m, p)
      next == Successor(m)
  IN  IF d.motor[m].state \notin {"CENTER", "READY"} THEN d
      ELSE [IF next = Everybody THEN d ELSE calibrate(d, next)
              EXCEPT !.rover_state = next]

Stage(c, m, p) ==
  LET d    == handle_state(c, m, p)
      next == Successor(m)
  IN  IF d.motor[m].state # "READY" THEN d
      ELSE [IF next = Everybody THEN d ELSE calibrate(d, next)
              EXCEPT !.rover_state = next]

rover_calibrate(c, p) ==
  CASE c.rover_state = Nobody    -> [calibrate(c, "FR") EXCEPT !.rover_state = "FR"]
    [] c.rover_state = Everybody -> c
    [] OTHER                     -> Stage(c, c.rover_state, p[c.rover_state])

-----------------------------------------------------------------------------
(* A motor turns the way it is driven until it meets its stop, by a count  *)
(* per period at most, and does not stand still for longer than its lag.   *)
(* The stop gives way: a motor that presses against it goes on or is       *)
(* pushed back, as the log of a calibration shows (test/out.txt:188-219:   *)
(* the first motor reaches 8, is back at 6, and 6 is recorded).            *)
LeftEnd(m)  == LeftStop[m] - Rebound[m]
RightEnd(m) == RightStop[m] + Rebound[m]

Driven(m) ==
  \/ cal.motor[m].drive = 1  /\ shaft[m] < LeftEnd(m)
  \/ cal.motor[m].drive = -1 /\ shaft[m] > RightEnd(m)

Overdue(m) ==
  Driven(m) /\ still[m] >= IF turning[m] THEN RunLag ELSE StartLag[m]

Steps(m) ==
  LET drive == cal.motor[m].drive
  IN  IF drive = 0 THEN {0}
      ELSE IF Driven(m) THEN IF Overdue(m) THEN {drive} ELSE {0, drive}
      ELSE {k \in -1 .. 1 :
              shaft[m] + k \in IF drive = 1 THEN LeftEnd(m) .. LeftStop[m]
                                           ELSE RightStop[m] .. RightEnd(m)}

(* rover_calibrate, then rover_update_steering: a call for every motor.    *)
rover_isr ==
  \E c1 \in {rover_calibrate(cal, shaft')} :
  \E c2 \in {handle_state(c1, "FR", shaft'["FR"])} :
  \E c3 \in {handle_state(c2, "RR", shaft'["RR"])} :
  \E c4 \in {handle_state(c3, "FL", shaft'["FL"])} :
    cal' = handle_state(c4, "RL", shaft'["RL"])

(* One period of the timer: the motors move, then the interrupt runs.      *)
Tick ==
  \E fr \in Steps("FR"), rr \in Steps("RR"), fl \in Steps("FL"), rl \in Steps("RL") :
  \E step \in {Sides(fr, rr, fl, rl)} :
    /\ shaft' = [m \in Motors |-> shaft[m] + step[m]]
    /\ rover_isr
    /\ still' = [m \in Motors |-> IF Driven(m) /\ step[m] = 0
                                  THEN still[m] + 1 ELSE 0]
    /\ turning' = [m \in Motors |->
                     /\ cal'.motor[m].drive = cal.motor[m].drive
                     /\ step[m] # 0 \/ turning[m]]
    /\ UNCHANGED main

(* The main thread gives a command, after the calibration as test/main.c   *)
(* or during it as server.c may, and carries it out, one load and one      *)
(* store for each motor.                                                   *)
Give(command) ==
  /\ main.pc = "idle" /\ main.given < MaxCommands
  /\ \/ cal.rover_state = Everybody
     \/ cal.rover_state \in EarlyAt /\ command = rover_steer_point
  /\ main' = [main EXCEPT !.pc = "load", !.command = command, !.i = 1,
                          !.given = @ + 1, !.early = cal.rover_state # Everybody]
  /\ UNCHANGED <<shaft, still, turning, cal>>

Subject == main.command.order[main.i]

LoadCenter ==
  /\ main.pc = "load"
  /\ main' = [main EXCEPT !.pc = "store",
                          !.reg = cal.motor[Subject].center_pos
                                    + main.command.offset[Subject]]
  /\ UNCHANGED <<shaft, still, turning, cal>>

StoreTarget ==
  /\ main.pc = "store"
  /\ cal' = [cal EXCEPT !.motor[Subject].target = main.reg]
  /\ main' = IF main.i = 4 THEN [main EXCEPT !.pc = "idle"]
             ELSE [main EXCEPT !.pc = "load", !.i = @ + 1]
  /\ UNCHANGED <<shaft, still, turning>>

Main == (\E command \in Commands : Give(command)) \/ LoadCenter \/ StoreTarget

Next == Tick \/ Main

Spec == Init /\ [][Next]_vars

(* The timer never stops and the main thread finishes what it began.       *)
FairSpec == Spec /\ WF_vars(Tick) /\ WF_vars(LoadCenter \/ StoreTarget)
-----------------------------------------------------------------------------
Calibrating(m) == cal.motor[m].state \in {"LEFT", "RIGHT", "CENTER"}

TypeOK ==
  /\ shaft \in [Motors -> Int] /\ still \in [Motors -> Nat]
  /\ turning \in [Motors -> BOOLEAN]
  /\ cal \in [motor : [Motors -> [state : MotorState, left_pos : Int,
                                  right_pos : Int, center_pos : Int,
                                  target : Int, drive : {-1, 0, 1}]],
              pos : [0 .. BufSize - 1 -> Int], pos_index : 0 .. BufSize - 1,
              spinup : Nat, rover_state : Motors \cup {Nobody, Everybody}]
  /\ main \in [pc : {"idle", "load", "store"}, early : BOOLEAN,
               given : 0 .. MaxCommands, command : Commands, i : 1 .. 4,
               reg : Int]

(* The ring of samples and spinup serve one motor at a time: no two motors *)
(* are being calibrated, nor is one that rover_calibrate is not at.        *)
OneAtATime == \A m \in Motors : Calibrating(m) => cal.rover_state = m

(* Once the first motor turns back, it has been at its left stop, and what *)
(* it recorded lies no farther off than the stop gives way: the farthest   *)
(* place it reached, or short of that by the rebound the log shows.        *)
FirstLeftStopFound ==
  cal.motor["FR"].state \in {"RIGHT", "CENTER", "READY"} =>
    cal.motor["FR"].left_pos \in LeftEnd("FR") .. LeftStop["FR"]

(* The same for every motor: rover_calibrate "calibrates every motor".     *)
LeftStopsFound ==
  \A m \in Motors : cal.motor[m].state \in {"RIGHT", "CENTER", "READY"} =>
    cal.motor[m].left_pos \in LeftEnd(m) .. LeftStop[m]

(* Every motor that goes to its centre has been at its right stop, and has *)
(* recorded a place no farther from it than the stop gives way.            *)
RightStopsFound ==
  \A m \in Motors : cal.motor[m].state \in {"CENTER", "READY"} =>
    cal.motor[m].right_pos \in RightStop[m] .. RightEnd(m)

(* After the calibration, the four targets of a command that was carried   *)
(* out belong together: no wheel is left standing across the others.  That *)
(* is so for a program that waits.  An early command is lost on the motors *)
(* calibrated since, or carried out from the place where the motor was     *)
(* switched on; there is no target but these.                              *)
WheelsAgree ==
  main.pc = "idle" /\ cal.rover_state = Everybody =>
    \A m \in Motors :
      LET center == cal.motor[m].center_pos
          offset == main.command.offset[m]
      IN  \/ cal.motor[m].target = center + offset
          \/ main.early /\ cal.motor[m].target \in {center, offset}

(* The calibration of the four motors comes to its end.                    *)
CalibrationEnds == <>(cal.rover_state = Everybody)

(* After the calibration there comes a moment at which every motor is      *)
(* within a count of its target: the wheels stand as the last command      *)
(* wanted them.  A target that the stop may keep the motor from is aside.  *)
Near(m) ==
  LET away == cal.motor[m].target - shaft[m] IN away < 2 /\ away > -2

BeyondStop(m) ==
  \/ cal.motor[m].target - 1 > LeftEnd(m) \/ cal.motor[m].target + 1 < RightEnd(m)

TargetsReached ==
  cal.rover_state = Everybody ~> \A m \in Motors : Near(m) \/ BeyondStop(m)
=============================================================================
