---------------------------- MODULE ImuCorrection ----------------------------
(***************************************************************************)
(* The IMU correction (rover/imu_correction.c) in the loop of the          *)
(* demonstration program (rover/Main.c), which drives straight ahead for a *)
(* given time, slows down on slopes, brakes when it stalls or slides, and  *)
(* stops on a fault.                                                       *)
(*                                                                         *)
(* One step for each call main makes; inside a call only the main thread   *)
(* writes what is modelled here.  What the interrupt sees of the accesses  *)
(* of motor_set_speed is the subject of WheelDrive.                        *)
(*                                                                         *)
(* Time is in units of the shortest turn of the loop.  How long a wait     *)
(* takes is open, since each signal of the timer cuts it short.            *)
(***************************************************************************)
EXTENDS Integers

CONSTANTS
  Delays,    \* how much time a turn of the loop, or braking, may take
  Duration,  \* test_duration_us
  StallTime, \* STALL_TIME_THRESHOLD_US
  SlideTime, \* UNINTENDED_MOTION_TIME_THRESHOLD_US
  Steps      \* how finely a tilt angle within its class is told apart

ASSUME ImuAssumption ==
  /\ Delays \subseteq Nat \ {0}
  /\ Duration \in Nat /\ StallTime \in Nat /\ SlideTime \in Nat
  /\ Steps \in Nat \ {0}

DEFAULT_MOTOR_SPEED    == 64
BRAKE_SPEED            == 48
TERRAIN_SLOW_SPEED     == 48
TERRAIN_MODERATE_SPEED == 32
TERRAIN_MIN_SPEED      == 24

Left   == {"FLW", "MLW", "RLW"}
Right  == {"FRW", "MRW", "RRW"}
Wheels == Left \cup Right

VARIABLES
  pc,      \* where main is
  done,    \* set by the loop or by SIGINT
  now,     \* the monotonic clock
  flag,    \* the five flags of the correction
  map,     \* the slope as last seen: its class, and how far into it
  mag,     \* the acceleration as last seen, among the thresholds of the code
  heading, \* what the yaw error and rate as last seen call for
  active,  \* a heading reference is set
  drive,   \* the speed of each wheel, forwards being positive on both sides
  start,   \* since when a stall and a slide are suspected, 0 for not
  first,   \* first_call
  seen     \* history: the last sample that spoke against a stall, and a slide

vars == <<pc, done, now, flag, map, mag, heading, active, drive, start, first, seen>>

Sensed == <<map, mag, heading>>   \* what the samples say
Timing == <<start, first, seen>>

Kinds == {"stall", "slide"}
Flags == {"warning", "critical", "fault"} \cup Kinds

Tilts == {"NONE", "LOW", "MODERATE", "HIGH"}

(* get_direction_and_speed.  A rover that leans leans about roll or pitch; *)
(* about which makes a difference on a HIGH slope only.                    *)
Slopes ==
  {m \in [tilt : Tilts, step : 0 .. Steps - 1] :
     m.tilt \in {"NONE", "HIGH"} => m.step = 0}

(* Below STALL_MAG_THRESHOLD, which all are that count as STOPPED; between *)
(* the thresholds; above MOTION_MAG_THRESHOLD.                             *)
Magnitudes == {"faint", "plain", "strong"}

Headings == {"keep", "straight", "left", "right"}

Halted  == [w \in Wheels |-> 0]
Stopped == drive = Halted

Init ==
  /\ pc = "init" /\ done = FALSE /\ now = 1
  /\ flag = [f \in Flags |-> FALSE]
  /\ map = [tilt |-> "NONE", step |-> 0]
  /\ mag = "faint" /\ heading = "keep" /\ active = FALSE
  /\ drive = Halted
  /\ start = [kind \in Kinds |-> 0] /\ first = TRUE
  /\ seen = [kind \in Kinds |-> 0]
-----------------------------------------------------------------------------
(* new_set_all_motor_speeds: the front left wheel is commented out.        *)
AllButOne(speed) == [w \in Wheels |-> IF w = "FLW" THEN drive[w] ELSE speed]

Sides(left, right) == [w \in Wheels |-> IF w \in Left THEN left ELSE right]

simba_forward ==
  /\ drive' = Sides(DEFAULT_MOTOR_SPEED, DEFAULT_MOTOR_SPEED)
  /\ active' = TRUE

simba_stop == drive' = Halted /\ active' = FALSE

Slowest(tilt) ==
  IF tilt = "MODERATE" THEN TERRAIN_MODERATE_SPEED ELSE TERRAIN_SLOW_SPEED

(* Mutant of TerrainSpeed: the slope is added instead of taken off.        *)
TerrainSpeed_Faster(m) ==
  (DEFAULT_MOTOR_SPEED * Steps + (DEFAULT_MOTOR_SPEED - Slowest(m.tilt)) * m.step) \div Steps

(* From the default speed, where the class of the tilt begins, towards the *)
(* slowest speed of the class, where it ends.                              *)
TerrainSpeed(m) ==
  (DEFAULT_MOTOR_SPEED * Steps + (Slowest(m.tilt) - DEFAULT_MOTOR_SPEED) * m.step) \div Steps
-----------------------------------------------------------------------------
(* Everything up to the loop ...                                           *)
Start ==
  /\ pc = "init" /\ pc' = "head"
  /\ simba_forward
  /\ UNCHANGED <<done, now, flag, Sensed, Timing>>

(* ... or the first sample that fails, before any wheel was driven.        *)
InitFails ==
  /\ pc = "init" /\ pc' = "over"
  /\ UNCHANGED <<done, now, flag, Sensed, drive, active, Timing>>

Head ==
  /\ pc = "head"
  /\ \/ done /\ pc' = "exit" /\ UNCHANGED done
     \/ ~done /\ now - 1 > Duration /\ done' = TRUE /\ pc' = "head"
     \/ ~done /\ now - 1 <= Duration /\ pc' = "update" /\ UNCHANGED done
  /\ UNCHANGED <<now, flag, Sensed, active, drive, Timing>>

(* Mutant of Cleared: the flags stay as the sample before left them.       *)
Cleared_Not == flag

Cleared == [flag EXCEPT !.warning = FALSE, !.critical = FALSE]

Raised(f) == flag' = [Cleared EXCEPT ![f] = TRUE]

(* imu_correction_update with a sample it is content with.  A rover that   *)
(* does not move has its heading looked at whatever the slope, one that    *)
(* moves on a slope has not.                                               *)
Sample ==
  /\ mag' \in Magnitudes /\ map' \in Slopes
  /\ \/ /\ mag' = "faint" \/ map'.tilt = "NONE"
        /\ heading' \in Headings
        /\ flag' = Cleared /\ UNCHANGED drive
     \/ /\ UNCHANGED heading
        /\ \/ map'.tilt = "LOW" /\ Raised("warning") /\ UNCHANGED drive
           \/ map'.tilt = "MODERATE" /\ Raised("critical") /\ drive' = AllButOne(TERRAIN_SLOW_SPEED)

(* ... with one whose distance in time from the last is out of range ...   *)
BadTime == flag' = Cleared /\ UNCHANGED <<Sensed, drive>>

(* ... and with one of a HIGH slope, or none at all: the port reports no   *)
(* failed read (ImuBus), but the driver above it may.                      *)
Failure ==
  /\ \/ mag' \in Magnitudes /\ map' \in {m \in Slopes : m.tilt = "HIGH"} /\ UNCHANGED heading
     \/ UNCHANGED Sensed
  /\ Raised("fault") /\ drive' = Halted

(* imu_correction_update and what main makes of its result.                *)
Update ==
  /\ pc = "update"
  /\ \/ /\ Sample \/ BadTime
        /\ pc' = IF flag'.critical \/ flag'.warning THEN "terrain" ELSE "motion"
     \/ Failure /\ pc' = "fault"
  /\ UNCHANGED <<done, now, active, Timing>>

(* Mutants of Fault: main stops the wheels and goes on with this turn, or  *)
(* with the next.                                                          *)
Fault_GoesOn ==
  /\ pc = "fault"
  /\ simba_stop /\ pc' = "motion"
  /\ UNCHANGED <<done, now, flag, Sensed, Timing>>

Fault_Retries ==
  /\ pc = "fault"
  /\ simba_stop /\ pc' = "head"
  /\ UNCHANGED <<done, now, flag, Sensed, Timing>>

Fault ==
  /\ pc = "fault"
  /\ simba_stop /\ done' = TRUE /\ pc' = "head"
  /\ UNCHANGED <<now, flag, Sensed, Timing>>

(* imu_correction_handle_terrain, of which main ignores the result.        *)
Terrain ==
  /\ pc = "terrain"
  /\ pc' = "motion"
  /\ \E roll \in BOOLEAN :
       /\ drive' = CASE map.tilt = "NONE"           -> drive
                     [] map.tilt = "HIGH" /\ roll  -> Halted
                     [] map.tilt = "HIGH" /\ ~roll -> AllButOne(TERRAIN_MIN_SPEED)
                     [] OTHER                      -> AllButOne(TerrainSpeed(map))
       /\ flag' = [flag EXCEPT !.fault =
                     @ \/ map.tilt = "NONE" \/ (map.tilt = "HIGH" /\ roll)]
  /\ UNCHANGED <<done, now, Sensed, active, Timing>>
-----------------------------------------------------------------------------
(* imu_correction_check_motion.  rolling: the wheels, on average, turned   *)
(* more than ENCODER_DELTA_THRESHOLD since the last call.                  *)
Suspected(rolling) ==
  IF rolling THEN mag = "faint" ELSE mag = "strong"

Kind(rolling) == IF rolling THEN "stall" ELSE "slide"

Limit(kind) == IF kind = "stall" THEN StallTime ELSE SlideTime

FirstCall ==
  /\ pc = "motion" /\ first
  /\ first' = FALSE /\ pc' = "apply"
  /\ UNCHANGED <<done, now, flag, Sensed, active, drive, start, seen>>

(* Mutant of Dismissed: the timer is not reset.                            *)
Dismissed_TimerKept(kind) == start

Dismissed(kind) == [start EXCEPT ![kind] = 0]

Watch(kind) ==
  /\ pc = "motion" /\ ~first
  /\ \E rolling \in BOOLEAN :
       /\ kind = Kind(rolling)
       /\ \/ /\ ~Suspected(rolling)
             /\ start' = Dismissed(kind)
             /\ seen' = [seen EXCEPT ![kind] = now]
          \/ /\ Suspected(rolling)
             /\ start[kind] = 0 \/ now - start[kind] <= Limit(kind)
             /\ start' = [start EXCEPT ![kind] = IF @ = 0 THEN now ELSE @]
             /\ UNCHANGED seen
  /\ pc' = "apply"
  /\ UNCHANGED <<done, now, flag, Sensed, active, drive, first>>

(* The alarm: brake against the motion, ahead meaning that it is forwards. *)
Alarm(kind) ==
  /\ pc = "motion" /\ ~first
  /\ \E rolling \in BOOLEAN : kind = Kind(rolling) /\ Suspected(rolling)
  /\ start[kind] # 0 /\ now - start[kind] > Limit(kind)
  /\ flag' = [flag EXCEPT ![kind] = TRUE]
  /\ \E ahead \in IF kind = "stall" THEN {TRUE} ELSE BOOLEAN :
       drive' = AllButOne(IF ahead THEN -BRAKE_SPEED ELSE BRAKE_SPEED)
  /\ start' = [start EXCEPT ![kind] = 0]
  /\ seen' = [seen EXCEPT ![kind] = now]
  /\ pc' = "brake"
  /\ UNCHANGED <<done, now, Sensed, active, first>>

(* Mutant of Brake: the wheels are left as they brake.                     *)
Brake_NoStop ==
  /\ pc = "brake"
  /\ \E d \in Delays \cup {0} : now' = now + d
  /\ pc' = "alarmed"
  /\ UNCHANGED <<done, flag, Sensed, active, drive, Timing>>

Brake ==
  /\ pc = "brake"
  /\ \E d \in Delays \cup {0} : now' = now + d
  /\ drive' = Halted /\ pc' = "alarmed"
  /\ UNCHANGED <<done, flag, Sensed, active, Timing>>

(* What main makes of it.  The flag of a stall is never taken back, so a   *)
(* slide after a stall is driven forwards once more before the loop ends.  *)
Alarmed ==
  /\ pc = "alarmed"
  /\ IF flag.stall THEN simba_forward ELSE UNCHANGED <<drive, active>>
  /\ \/ flag.slide /\ done' = TRUE /\ pc' = "head"
     \/ ~flag.slide /\ pc' = "apply" /\ UNCHANGED done
  /\ UNCHANGED <<now, flag, Sensed, Timing>>

(* imu_correction_apply: one side slows down to turn the rover back.       *)
Apply ==
  /\ pc = "apply" /\ pc' = "wait"
  /\ drive' = CASE ~active \/ heading = "keep" -> drive
                [] heading = "straight" -> Sides(DEFAULT_MOTOR_SPEED, DEFAULT_MOTOR_SPEED)
                [] heading = "right"    -> Sides(DEFAULT_MOTOR_SPEED, TERRAIN_MIN_SPEED)
                [] heading = "left"     -> Sides(TERRAIN_MIN_SPEED, DEFAULT_MOTOR_SPEED)
  /\ UNCHANGED <<done, now, flag, Sensed, active, Timing>>

Wait ==
  /\ pc = "wait" /\ pc' = "head"
  /\ \E d \in Delays : now' = now + d
  /\ UNCHANGED <<done, flag, Sensed, active, drive, Timing>>

(* main after the loop                                                     *)
Exit ==
  /\ pc = "exit" /\ pc' = "over"
  /\ simba_stop
  /\ UNCHANGED <<done, now, flag, Sensed, Timing>>

sigint_handler ==
  /\ pc # "over" /\ ~done /\ done' = TRUE
  /\ UNCHANGED <<pc, now, flag, Sensed, active, drive, Timing>>

main ==
  \/ Start \/ InitFails \/ Head \/ Update \/ Fault \/ Terrain
  \/ FirstCall \/ Watch("stall") \/ Watch("slide")
  \/ Alarm("stall") \/ Alarm("slide") \/ Brake \/ Alarmed
  \/ Apply \/ Wait \/ Exit

Next == main \/ sigint_handler

Spec == Init /\ [][Next]_vars

(* The main thread runs; nobody has to interrupt it.                       *)
FairSpec == Spec /\ WF_vars(main)
-----------------------------------------------------------------------------
TypeOK ==
  /\ pc \in {"init", "head", "update", "fault", "terrain", "motion", "brake",
             "alarmed", "apply", "wait", "exit", "over"}
  /\ done \in BOOLEAN /\ active \in BOOLEAN /\ first \in BOOLEAN
  /\ now \in Nat
  /\ flag \in [Flags -> BOOLEAN]
  /\ map \in Slopes /\ mag \in Magnitudes /\ heading \in Headings
  /\ drive \in [Wheels -> -BRAKE_SPEED .. DEFAULT_MOTOR_SPEED]
  /\ start \in [Kinds -> Nat] /\ seen \in [Kinds -> Nat]

(* After a fault no wheel turns again, and after a slide none either once  *)
(* the brake is released, unless the rover had stalled before: in no call  *)
(* of the rest of the loop, each of which sets speeds for its own reasons. *)
HaltStays ==
  \/ flag.fault
  \/ flag.slide /\ ~flag.stall /\ pc # "brake"
  => Stopped

(* imu_correction_handle_terrain is only called for a slope it knows: the  *)
(* flags that lead to it and the slope it looks at are of one sample, on   *)
(* each of the early returns of imu_correction_update.                     *)
TerrainIsExpected == pc = "terrain" => map.tilt \in {"LOW", "MODERATE"}

(* No wheel is driven backwards but while braking, also when stalls follow *)
(* each other and the heading is corrected in between.                     *)
BackwardsOnlyToBrake == (\E w \in Wheels : drive[w] < 0) => pc = "brake"

(* An alarm is raised only when its time has passed since the last sample  *)
(* that spoke against it, and since the last alarm of the kind.            *)
AlarmsWait ==
  [][\A kind \in Kinds :
       Alarm(kind) => now - seen[kind] > Limit(kind)]_vars

(* Whatever the samples say, the program ends and leaves the wheels        *)
(* stopped and the heading correction off.                                 *)
Ends == <>[](pc = "over" /\ Stopped /\ ~active)

(* "could be fine, slow down" (imu_correction.c): on a critical slope the  *)
(* loop waits for the next sample with its wheels no faster than the slope *)
(* allows; the front left one, which nothing slows down, is left out here. *)
SlowOnCriticalSlope ==
  pc = "wait" /\ flag.critical =>
    \A w \in Wheels \ {"FLW"} : drive[w] <= TerrainSpeed(map)
=============================================================================
