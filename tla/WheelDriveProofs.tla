--------------------------- MODULE WheelDriveProofs ---------------------------
(***************************************************************************)
(* Proofs about the drive wheels, for any number of wheels, any program    *)
(* and any range of the counter.                                           *)
(***************************************************************************)
EXTENDS WheelDrive, TLAPS

(* What the local variable of the main thread holds on its way to a field  *)
(* that is narrower than Int.                                              *)
AccOK ==
  /\ main.pc = "stDir"  => main.acc \in {0, 1}
  /\ main.pc = "stDuty" => main.acc \in 0 .. MaxDuty

TypeInv == TypeOK /\ AccOK

-----------------------------------------------------------------------------
(* The helpers on one servo.                                               *)

(* Whatever its limits are, the PID's output stays within the duty range.  *)
LEMMA ClampRange ==
  ASSUME NEW raw \in Int,
         NEW lo \in -MaxDuty .. MaxDuty, NEW hi \in -MaxDuty .. MaxDuty
  PROVE  Clamp(raw, lo, hi) \in -MaxDuty .. MaxDuty
  BY DEF Clamp, MaxDuty

LEMMA PidErrorType ==
  ASSUME NEW s \in ServoState, NEW kick \in Kicks
  PROVE  Kp * PidError(s) + kick \in Int
<1>1. Kp \in Int /\ PidError(s) \in Int /\ kick \in Int
  BY ServoAssumption DEF ServoState, PidError
<1>2. QED BY <1>1

LEMMA CountsType ==
  ASSUME NEW s \in ServoState, NEW e \in Int
  PROVE  UpdateCounts(s, e) \in ServoState
<1>1. s.counts \in Int /\ s.prevCounts \in Int
  BY DEF ServoState
<1>2. s.counts + (e - s.prevCounts) \in Int
  BY <1>1
<1>3. QED BY <1>2 DEF UpdateCounts, ServoState

LEMMA OutputType ==
  ASSUME NEW s \in ServoState
  PROVE  /\ ApplyOutput(s) \in ServoState
         /\ ApplyOutput(s).dir \in {0, 1}
         /\ ApplyOutput(s).duty_cycle \in 0 .. MaxDuty
<1>1. s.output \in -MaxDuty .. MaxDuty
  BY DEF ServoState
<1>2. Magnitude(s.output) \in 0 .. MaxDuty
  BY <1>1 DEF Magnitude, MaxDuty
<1>3. (IF s.output >= 0 THEN 0 ELSE 1) \in {0, 1}
  BY <1>1
<1>4. ApplyOutput(s) \in ServoState
  BY <1>2, <1>3 DEF ApplyOutput, ServoState
<1>5. QED BY <1>4 DEF ServoState

LEMMA PidType ==
  ASSUME NEW s \in ServoState, NEW kick \in Kicks
  PROVE  PIDController_update(s, kick) \in ServoState
<1>1. Kp * PidError(s) + kick \in Int
  BY PidErrorType
<1>2. s.outputLimitMin \in -MaxDuty .. MaxDuty /\ s.outputLimitMax \in -MaxDuty .. MaxDuty
  BY DEF ServoState
<1>3. Clamp(Kp * PidError(s) + kick, s.outputLimitMin, s.outputLimitMax)
        \in -MaxDuty .. MaxDuty
  BY <1>1, <1>2, ClampRange
<1>4. QED BY <1>3 DEF PIDController_update, ServoState

LEMMA UpdateType ==
  ASSUME NEW s \in ServoState, NEW e \in Int, NEW kick \in Kicks
  PROVE  Servo_update(s, e, kick) \in ServoState
  BY CountsType, PidType, OutputType DEF Servo_update

LEMMA WordType ==
  ASSUME NEW s \in ServoState
  PROVE  ControlWord(s) \in Words
  BY DEF ControlWord, Words, ServoState

(* An update leaves the limits, the mode and the setpoint alone, and the   *)
(* position becomes what the counter's change makes it.                    *)
LEMMA UpdateFrame ==
  ASSUME NEW s \in ServoState, NEW e \in Int, NEW kick \in Kicks
  PROVE  LET u == Servo_update(s, e, kick)
         IN  /\ u.outputLimitMin = s.outputLimitMin
             /\ u.outputLimitMax = s.outputLimitMax
             /\ u.speed_controlled = s.speed_controlled
             /\ u.setpoint = s.setpoint
             /\ u.counts = s.counts + (e - s.prevCounts)
             /\ u.prevCounts = e
  BY DEF Servo_update, ApplyOutput, PIDController_update, UpdateCounts,
         ServoState

(* In speed control the output is the upper limit, and so is the drive.    *)
LEMMA SpeedDrive ==
  ASSUME NEW s \in ServoState, s.speed_controlled,
         NEW e \in Int, NEW kick \in Kicks
  PROVE  Drive(ControlWord(Servo_update(s, e, kick))) = s.outputLimitMax
<1> DEFINE u == UpdateCounts(s, e)
           p == PIDController_update(u, kick)
<1>1. u \in ServoState /\ p \in ServoState
  BY CountsType, PidType
<1>2. u.speed_controlled /\ u.outputLimitMax = s.outputLimitMax
  BY DEF UpdateCounts, ServoState
<1>3. PidError(u) = SpeedOffset
  BY <1>2 DEF PidError
<1>4. Kp * SpeedOffset + kick > u.outputLimitMax
  <2>1. Kp * SpeedOffset + kick \in Int /\ Kp * SpeedOffset + kick > MaxDuty
    BY ServoAssumption
  <2>2. u.outputLimitMax \in -MaxDuty .. MaxDuty
    BY <1>1 DEF ServoState
  <2>3. QED BY <2>1, <2>2 DEF MaxDuty
<1>5. p.output = s.outputLimitMax
  BY <1>1, <1>2, <1>3, <1>4 DEF PIDController_update, Clamp, ServoState
<1>6. p.output \in Int
  BY <1>1 DEF ServoState
<1>7. Drive(ControlWord(ApplyOutput(p))) = p.output
  <2>1. /\ ApplyOutput(p).dir = IF p.output >= 0 THEN 0 ELSE 1
        /\ ApplyOutput(p).duty_cycle = Magnitude(p.output)
    BY <1>1 DEF ApplyOutput, ServoState
  <2>2. QED BY <1>6, <2>1 DEF Drive, ControlWord, Magnitude
<1>8. QED BY <1>5, <1>7 DEF Servo_update

LEMMA SameSign ==
  ASSUME NEW x \in Int, NEW y \in Int,
         (x > 0 /\ y > 0) \/ (x < 0 /\ y < 0)
  PROVE  x * y > 0
  OBVIOUS

(* Out of speed control the drive keeps within the limits, and it is       *)
(* towards the setpoint when the error outweighs every kick.               *)
LEMMA DistanceDrive ==
  ASSUME NEW s \in ServoState, ~s.speed_controlled,
         NEW e \in Int, NEW kick \in Kicks, NEW speed \in 1 .. MaxDuty,
         s.outputLimitMin = -speed, s.outputLimitMax = speed
  PROVE  DrivenTowards(s.setpoint, Servo_update(s, e, kick).counts,
                       Drive(ControlWord(Servo_update(s, e, kick))), speed)
<1> DEFINE u == UpdateCounts(s, e)
           p == PIDController_update(u, kick)
           error == u.setpoint - u.counts
           raw == Kp * error + kick
<1>1. u \in ServoState /\ p \in ServoState
  BY CountsType, PidType
<1>2. /\ u.outputLimitMin = -speed /\ u.outputLimitMax = speed
      /\ ~u.speed_controlled /\ u.setpoint = s.setpoint
      /\ u.counts = s.counts + (e - s.prevCounts)
  BY DEF UpdateCounts, ServoState
<1>3. speed \in Int /\ speed > 0 /\ kick \in Int /\ Kp \in Nat /\ error \in Int
  BY <1>1, ServoAssumption DEF ServoState, MaxDuty
<1>4. raw \in Int
  BY <1>3
<1>5. p.output = Clamp(raw, -speed, speed)
  BY <1>1, <1>2 DEF PIDController_update, PidError, ServoState
<1>6. p.output \in Int
  BY <1>1 DEF ServoState
<1>7. Drive(ControlWord(Servo_update(s, e, kick))) = p.output
  <2>1. /\ ApplyOutput(p).dir = IF p.output >= 0 THEN 0 ELSE 1
        /\ ApplyOutput(p).duty_cycle = Magnitude(p.output)
    BY <1>1 DEF ApplyOutput, ServoState
  <2>2. Drive(ControlWord(ApplyOutput(p))) = p.output
    BY <1>6, <2>1 DEF Drive, ControlWord, Magnitude
  <2>3. QED BY <2>2 DEF Servo_update
<1>8. Servo_update(s, e, kick).counts = u.counts
  BY <1>2, UpdateFrame
<1> HIDE DEF u, p
<1>9. Magnitude(p.output) <= speed
  BY <1>3, <1>4, <1>5, <1>6 DEF Clamp, Magnitude
<1>10. ASSUME Kp * Magnitude(error) > Magnitude(kick)
       PROVE  p.output * error > 0
  <2>1. CASE error > 0
    <3>1. Kp * error > -kick
      BY <1>3, <1>10, <2>1 DEF Magnitude
    <3>2. raw > 0
      BY <1>3, <3>1
    <3>3. p.output > 0
      BY <1>3, <1>4, <1>5, <3>2 DEF Clamp
    <3>4. QED BY <1>3, <1>6, <2>1, <3>3, SameSign
  <2>2. CASE error < 0
    <3>1. Kp * (-error) > kick
      BY <1>3, <1>10, <2>2 DEF Magnitude
    <3>2. Kp * (-error) = -(Kp * error)
      BY <1>3
    <3>3. raw < 0
      BY <1>3, <3>1, <3>2
    <3>4. p.output < 0
      BY <1>3, <1>4, <1>5, <3>3 DEF Clamp
    <3>5. QED BY <1>3, <1>6, <2>2, <3>4, SameSign
  <2>3. CASE error = 0
    <3>1. Kp * Magnitude(error) = 0
      BY <1>3, <2>3 DEF Magnitude
    <3>2. QED BY <1>3, <1>10, <3>1 DEF Magnitude
  <2>4. QED BY <1>3, <2>1, <2>2, <2>3
<1>11. QED BY <1>2, <1>7, <1>8, <1>9, <1>10 DEF DrivenTowards
-----------------------------------------------------------------------------
(* Types.                                                                  *)

LEMMA ArgType ==
  ASSUME NEW c \in Calls, NEW w \in Wheels
  PROVE  Arg(c, w) \in -MaxDuty .. MaxDuty
<1>1. c.speed \in 1 .. MaxDuty /\ StopSpeed \in 1 .. MaxDuty
  BY WheelDriveAssumption DEF Calls
<1>2. /\ c.speed \in -MaxDuty .. MaxDuty
      /\ -c.speed \in -MaxDuty .. MaxDuty
      /\ StopSpeed \in -MaxDuty .. MaxDuty
  BY <1>1 DEF MaxDuty
<1>3. QED BY <1>2 DEF Arg

LEMMA SetpointType ==
  ASSUME NEW c \in Calls, NEW w \in Wheels, NEW x \in Int
  PROVE  Setpoint(c, w, x) \in Int
<1>1. c.dist \in Int /\ StopBack \in Int
  BY WheelDriveAssumption DEF Calls
<1>2. QED BY <1>1 DEF Setpoint

LEMMA CurType ==
  ASSUME TypeOK
  PROVE  /\ Cur \in Wheels
         /\ S \in ServoState
         /\ Goal \in -MaxDuty .. MaxDuty
         /\ -Goal \in -MaxDuty .. MaxDuty
         /\ S.counts \in Int
         /\ S.setpoint \in Int
         /\ S.prevCounts \in Int
         /\ S.motorCounts \in Int
         /\ enc[Cur] \in Int
<1>1. main.i \in Wheels /\ main.call \in Calls
  BY DEF TypeOK, MainState
<1>2. Cur \in Wheels
  BY <1>1, WheelDriveAssumption DEF Cur
<1>3. S \in ServoState
  BY <1>2 DEF TypeOK, S
<1>4. Goal \in -MaxDuty .. MaxDuty
  BY <1>1, <1>2, ArgType DEF Goal
<1>5. -Goal \in -MaxDuty .. MaxDuty
  BY <1>4 DEF MaxDuty
<1>6. enc[Cur] \in Int
  BY <1>2, ServoAssumption DEF TypeOK
<1>7. QED BY <1>2, <1>3, <1>4, <1>5, <1>6 DEF ServoState

LEMMA AccessType ==
  ASSUME TypeOK, NEW from, NEW to \in Pcs, NEW s \in ServoState,
         NEW acc \in Int, Access(from, to, s, acc)
  PROVE  TypeOK' /\ main'.pc = to /\ main'.acc = acc
<1>1. main' \in MainState /\ main'.pc = to /\ main'.acc = acc
  BY DEF TypeOK, Access, MainState
<1>2. servo' \in [Wheels -> ServoState]
  BY DEF TypeOK, Access
<1>3. QED BY <1>1, <1>2 DEF TypeOK, Access

LEMMA MainUpdate ==
  ASSUME TypeOK, NEW pc \in Pcs, NEW acc \in Int
  PROVE  [main EXCEPT !.pc = pc, !.acc = acc] \in MainState
<1>1. main \in MainState
  BY DEF TypeOK
<1>2. QED BY <1>1 DEF MainState

LEMMA MainAdvance ==
  ASSUME TypeOK, NEW pc \in Pcs, NEW i \in Wheels, NEW acc \in Int
  PROVE  [main EXCEPT !.pc = pc, !.acc = acc, !.i = i] \in MainState
<1>1. main \in MainState
  BY DEF TypeOK
<1>2. QED BY <1>1 DEF MainState

LEMMA NextWheelType ==
  ASSUME TypeOK, NEW first \in Pcs
  PROVE  NextWheel(first) \in MainState /\ NextWheel(first).pc \in {"idle", first}
<1>1. main \in MainState /\ main.i \in Wheels
  BY DEF TypeOK, MainState
<1>2. "idle" \in Pcs
  BY DEF Pcs
<1>3. PICK zero \in Int : zero = 0
  OBVIOUS
<1>4. CASE main.i = NumWheels
  <2>1. NextWheel(first) = [main EXCEPT !.pc = "idle", !.acc = zero]
    BY <1>3, <1>4 DEF NextWheel
  <2>2. NextWheel(first) \in MainState
    BY <1>2, <2>1, MainUpdate
  <2>3. NextWheel(first).pc = "idle"
    BY <1>1, <2>1 DEF MainState
  <2>4. QED BY <2>2, <2>3
<1>5. CASE main.i # NumWheels
  <2>1. PICK i \in Wheels : i = main.i + 1
    <3>1. NumWheels \in Nat
      BY WheelDriveAssumption
    <3>2. QED BY <1>1, <1>5, <3>1 DEF Wheels
  <2>2. NextWheel(first) = [main EXCEPT !.pc = first, !.acc = zero, !.i = i]
    BY <1>1, <1>3, <1>5, <2>1 DEF NextWheel, MainState
  <2>3. [main EXCEPT !.pc = first, !.acc = zero, !.i = i] \in MainState
    BY MainAdvance
  <2>4. NextWheel(first).pc = first
    BY <1>1, <2>2 DEF MainState
  <2>5. QED BY <2>2, <2>3, <2>4
<1>6. QED BY <1>4, <1>5

LEMMA LastAccessType ==
  ASSUME TypeOK, NEW from, NEW s \in ServoState, LastAccess(from, s)
  PROVE  TypeOK' /\ main'.pc \in {"idle", "limMin"}
<1>1. "limMin" \in Pcs
  BY DEF Pcs
<1>2. main' \in MainState /\ main'.pc \in {"idle", "limMin"}
  BY <1>1, NextWheelType DEF LastAccess
<1>3. servo' \in [Wheels -> ServoState]
  BY DEF TypeOK, LastAccess
<1>4. QED BY <1>2, <1>3 DEF TypeOK, LastAccess

LEMMA PcsListed ==
  /\ {"idle", "check", "limMin", "limMax", "mode", "distance", "ldPos",
      "setpoint"} \subseteq Pcs
  /\ {"read", "ldCounts", "addMotor", "subPrev", "stCounts", "stPrev"} \subseteq Pcs
  /\ {"pidLoad", "pidStore", "ldSign", "stDir", "ldDuty", "stDuty", "ldWord",
      "ldDir", "stWord"} \subseteq Pcs
  BY DEF Pcs, UpdatePcs, DrivePcs

LEMMA InitType == Init => TypeInv
<1> SUFFICES ASSUME Init PROVE TypeInv
  OBVIOUS
<1>1. Servo_init \in ServoState
  BY DEF Servo_init, ServoState, MaxDuty
<1>2. ControlWord(Servo_init) \in Words
  BY <1>1, WordType
<1>3. 0 \in -EncHalf .. EncHalf - 1
  BY ServoAssumption
<1>4. 1 \in Wheels
  BY WheelDriveAssumption DEF Wheels
<1>5. [op |-> "check_done", speed |-> 1, dist |-> 0] \in Calls
  BY DEF Calls, MaxDuty
<1>6. main \in MainState
  BY <1>2, <1>4, <1>5, PcsListed DEF Init, MainState
<1>7. QED BY <1>1, <1>2, <1>3, <1>6 DEF Init, TypeInv, TypeOK, AccOK

LEMMA SetLimitsType == TypeInv /\ SetLimits => TypeInv'
<1> SUFFICES ASSUME TypeInv, SetLimits PROVE TypeInv'
  OBVIOUS
<1>1. /\ [S EXCEPT !.outputLimitMin = -Goal] \in ServoState
      /\ [S EXCEPT !.outputLimitMax = Goal] \in ServoState
      /\ [S EXCEPT !.speed_controlled = TRUE] \in ServoState
  BY CurType DEF TypeInv, ServoState
<1>2. CASE SetLimMin
  BY <1>1, <1>2, AccessType, PcsListed DEF SetLimMin, TypeInv, AccOK
<1>3. CASE SetLimMax
  <2>1. (IF main.call.op = "move_x" THEN "ldPos" ELSE "mode") \in {"ldPos", "mode"}
    OBVIOUS
  <2>2. QED BY <1>1, <1>3, <2>1, AccessType, PcsListed DEF SetLimMax, TypeInv, AccOK
<1>4. CASE SetSpeedMode
  BY <1>1, <1>4, AccessType, LastAccessType, PcsListed
     DEF SetSpeedMode, TypeInv, AccOK
<1>5. QED BY <1>2, <1>3, <1>4 DEF SetLimits

LEMMA SetGoalType == TypeInv /\ SetGoal => TypeInv'
<1> SUFFICES ASSUME TypeInv, SetGoal PROVE TypeInv'
  OBVIOUS
<1>1. S \in ServoState /\ [S EXCEPT !.speed_controlled = FALSE] \in ServoState
  BY CurType DEF TypeInv, ServoState
<1>2. CASE ClearSpeedMode
  BY <1>1, <1>2, AccessType, PcsListed DEF ClearSpeedMode, TypeInv, AccOK
<1>3. CASE LoadPosition
  <2>1. main.call \in Calls
    BY DEF TypeInv, TypeOK, MainState
  <2>2. Setpoint(main.call, Cur, S.counts) \in Int
    BY <2>1, CurType, SetpointType DEF TypeInv
  <2>3. QED BY <1>1, <1>3, <2>2, AccessType, PcsListed DEF LoadPosition, TypeInv, AccOK
<1>4. CASE StoreSetpoint
  <2>1. main.acc \in Int
    BY DEF TypeInv, TypeOK, MainState
  <2>2. [S EXCEPT !.setpoint = main.acc] \in ServoState
    BY <1>1, <2>1 DEF ServoState
  <2>3. QED BY <1>4, <2>2, AccessType, LastAccessType, PcsListed
               DEF StoreSetpoint, TypeInv, AccOK
<1>5. QED BY <1>2, <1>3, <1>4 DEF SetGoal

LEMMA UpdatePositionType == TypeInv /\ UpdatePosition => TypeInv'
<1> SUFFICES ASSUME TypeInv, UpdatePosition PROVE TypeInv'
  OBVIOUS
<1>1. main.acc \in Int
  BY DEF TypeInv, TypeOK, MainState
<1>2. /\ [S EXCEPT !.motorCounts = enc[Cur]] \in ServoState
      /\ [S EXCEPT !.counts = main.acc] \in ServoState
      /\ [S EXCEPT !.prevCounts = S.motorCounts] \in ServoState
  BY <1>1, CurType DEF TypeInv, ServoState
<1>3. /\ S \in ServoState
      /\ S.counts \in Int
      /\ main.acc + S.motorCounts \in Int
      /\ main.acc - S.prevCounts \in Int
  BY <1>1, CurType DEF TypeInv
<1>4. CASE ReadCounter
  BY <1>2, <1>4, AccessType, PcsListed DEF ReadCounter, TypeInv, AccOK
<1>5. CASE LoadCounts
  BY <1>3, <1>5, AccessType, PcsListed DEF LoadCounts, TypeInv, AccOK
<1>6. CASE AddMotor
  BY <1>3, <1>6, AccessType, PcsListed DEF AddMotor, TypeInv, AccOK
<1>7. CASE SubPrev
  BY <1>3, <1>7, AccessType, PcsListed DEF SubPrev, TypeInv, AccOK
<1>8. CASE StoreCounts
  BY <1>2, <1>8, AccessType, PcsListed DEF StoreCounts, TypeInv, AccOK
<1>9. CASE StorePrev
  BY <1>2, <1>9, AccessType, PcsListed DEF StorePrev, TypeInv, AccOK
<1>10. QED BY <1>4, <1>5, <1>6, <1>7, <1>8, <1>9 DEF UpdatePosition

LEMMA UpdateDriveType == TypeInv /\ UpdateDrive => TypeInv'
<1> SUFFICES ASSUME TypeInv, UpdateDrive PROVE TypeInv'
  OBVIOUS
<1>1. main \in MainState /\ main.acc \in Int /\ main.word \in Words /\ S \in ServoState
  BY CurType DEF TypeInv, TypeOK, MainState
<1>2. CASE PidLoad
  BY <1>1, <1>2, PidErrorType, AccessType, PcsListed DEF PidLoad, TypeInv, AccOK
<1>3. CASE PidStore
  <2>1. /\ S.outputLimitMin \in -MaxDuty .. MaxDuty
        /\ S.outputLimitMax \in -MaxDuty .. MaxDuty
    BY <1>1 DEF ServoState
  <2>2. Clamp(main.acc, S.outputLimitMin, S.outputLimitMax) \in -MaxDuty .. MaxDuty
    BY <1>1, <2>1, ClampRange
  <2>3. [S EXCEPT !.output = Clamp(main.acc, S.outputLimitMin, S.outputLimitMax)]
          \in ServoState
    BY <1>1, <2>2 DEF ServoState
  <2>4. QED BY <1>3, <2>3, AccessType, PcsListed DEF PidStore, TypeInv, AccOK
<1>4. CASE LoadSign
  <2>1. ApplyOutput(S).dir \in {0, 1} /\ ApplyOutput(S).dir \in Int
    BY <1>1, OutputType
  <2>2. QED BY <1>1, <1>4, <2>1, AccessType, PcsListed DEF LoadSign, TypeInv, AccOK
<1>5. CASE StoreDir
  <2>1. main.acc \in {0, 1}
    BY <1>5 DEF StoreDir, Access, TypeInv, AccOK
  <2>2. [S EXCEPT !.dir = main.acc] \in ServoState
    BY <1>1, <2>1 DEF ServoState
  <2>3. QED BY <1>5, <2>2, AccessType, PcsListed DEF StoreDir, TypeInv, AccOK
<1>6. CASE LoadDuty
  <2>1. ApplyOutput(S).duty_cycle \in 0 .. MaxDuty /\ ApplyOutput(S).duty_cycle \in Int
    BY <1>1, OutputType
  <2>2. QED BY <1>1, <1>6, <2>1, AccessType, PcsListed DEF LoadDuty, TypeInv, AccOK
<1>7. CASE StoreDuty
  <2>1. main.acc \in 0 .. MaxDuty
    BY <1>7 DEF StoreDuty, Access, TypeInv, AccOK
  <2>2. [S EXCEPT !.duty_cycle = main.acc] \in ServoState
    BY <1>1, <2>1 DEF ServoState
  <2>3. QED BY <1>7, <2>2, AccessType, PcsListed DEF StoreDuty, TypeInv, AccOK
<1>8. CASE LoadWord
  <2>1. S.duty_cycle \in 0 .. MaxDuty /\ S.dir \in {0, 1}
    BY <1>1 DEF ServoState
  <2>2. PICK word \in Words, pc \in {"ldDir", "stWord"} :
          main' = [main EXCEPT !.pc = pc, !.word = word]
    <3>1. /\ [main.word EXCEPT !.duty = S.duty_cycle] \in Words
          /\ [main.word EXCEPT !.dir = S.dir] \in Words
      BY <1>1, <2>1 DEF MainState, Words
    <3>2. CASE main' = [main EXCEPT !.pc = "ldDir", !.word.duty = S.duty_cycle]
      <4>1. main' = [main EXCEPT !.pc = "ldDir",
                                 !.word = [main.word EXCEPT !.duty = S.duty_cycle]]
        BY <3>2, Zenon
      <4>2. QED BY <3>1, <4>1, Zenon
    <3>3. CASE main' = [main EXCEPT !.pc = "stWord", !.word.dir = S.dir]
      <4>1. main' = [main EXCEPT !.pc = "stWord",
                                 !.word = [main.word EXCEPT !.dir = S.dir]]
        BY <3>3, Zenon
      <4>2. QED BY <3>1, <4>1, Zenon
    <3>4. QED BY <1>8, <3>2, <3>3 DEF LoadWord
  <2>3. main' \in MainState /\ main'.pc \in {"ldDir", "stWord"}
    BY <1>1, <2>2, PcsListed DEF MainState
  <2>4. QED BY <1>8, <2>3 DEF LoadWord, TypeInv, TypeOK, AccOK
<1>9. CASE StoreWord
  <2>1. main' \in MainState /\ main'.pc \in {"idle", "limMin"}
    BY <1>9, NextWheelType, PcsListed DEF StoreWord, TypeInv
  <2>2. reg' \in [Wheels -> Words]
    BY <1>1, <1>9 DEF StoreWord, TypeInv, TypeOK
  <2>3. QED BY <1>9, <2>1, <2>2 DEF StoreWord, TypeInv, TypeOK, AccOK
<1>10. QED BY <1>2, <1>3, <1>4, <1>5, <1>6, <1>7, <1>8, <1>9 DEF UpdateDrive

LEMMA BeginType == ASSUME TypeInv, NEW c \in Program, Begin(c) PROVE TypeInv'
<1>1. main \in MainState /\ c \in Calls
  BY WheelDriveAssumption DEF TypeInv, TypeOK
<1>2. PICK one \in Wheels, zero \in Int : one = 1 /\ zero = 0
  BY WheelDriveAssumption DEF Wheels
<1>3. PICK p \in Pcs : p = IF c.op = "check_done" THEN "check" ELSE "limMin"
  BY PcsListed
<1>4. main' = [main EXCEPT !.pc = p, !.call = c, !.i = one, !.acc = zero,
                           !.done = FALSE]
  BY <1>2, <1>3 DEF Begin
<1>5. main' \in MainState /\ main'.pc \in {"check", "limMin"}
  BY <1>1, <1>3, <1>4 DEF MainState
<1>6. QED BY <1>5 DEF Begin, TypeInv, TypeOK, AccOK

LEMMA CheckDoneType == TypeInv /\ CheckDone => TypeInv'
<1> SUFFICES ASSUME TypeInv, CheckDone PROVE TypeInv'
  OBVIOUS
<1>1. main \in MainState /\ main.i \in Wheels
  BY DEF TypeInv, TypeOK, MainState
<1>2. CASE Return(TRUE) \/ Return(FALSE)
  <2>1. main' \in MainState /\ main'.pc = "idle"
    BY <1>1, <1>2, PcsListed DEF Return, MainState
  <2>2. QED BY <2>1 DEF CheckDone, TypeInv, TypeOK, AccOK
<1>3. CASE main.i # NumWheels /\ main' = [main EXCEPT !.i = @ + 1]
  <2>1. main.i + 1 \in Wheels
    <3>1. NumWheels \in Nat
      BY WheelDriveAssumption
    <3>2. QED BY <1>1, <1>3, <3>1 DEF Wheels
  <2>2. main' = [main EXCEPT !.i = main.i + 1]
    BY <1>1, <1>3 DEF MainState
  <2>3. main' \in MainState /\ main'.pc = "check"
    BY <1>1, <2>1, <2>2 DEF MainState, CheckDone
  <2>4. QED BY <2>3 DEF CheckDone, TypeInv, TypeOK, AccOK
<1>4. QED BY <1>2, <1>3 DEF CheckDone

LEMMA IsrType == TypeInv /\ Isr => TypeInv'
<1> SUFFICES ASSUME TypeInv, Isr PROVE TypeInv'
  OBVIOUS
<1>1. PICK kick \in [Wheels -> Kicks] :
        servo' = [w \in Wheels |-> Servo_update(servo[w], enc[w], kick[w])]
  BY DEF Isr
<1>2. ASSUME NEW w \in Wheels
      PROVE  servo'[w] \in ServoState /\ ControlWord(servo'[w]) \in Words
  <2>1. servo[w] \in ServoState /\ enc[w] \in Int /\ kick[w] \in Kicks
    BY ServoAssumption DEF TypeInv, TypeOK
  <2>2. servo'[w] \in ServoState
    BY <1>1, <2>1, UpdateType
  <2>3. QED BY <2>2, WordType
<1>3. servo' \in [Wheels -> ServoState] /\ reg' \in [Wheels -> Words]
  BY <1>1, <1>2 DEF Isr
<1>4. QED BY <1>3 DEF Isr, TypeInv, TypeOK, AccOK

LEMMA TurnType == ASSUME TypeInv, NEW w \in Wheels, Turn(w) PROVE TypeInv'
<1>1. shaft[w] \in Int /\ enc[w] \in -EncHalf .. EncHalf - 1 /\ EncHalf \in Nat \ {0}
  BY ServoAssumption DEF TypeInv, TypeOK
<1>2. /\ CountUp(enc[w]) \in -EncHalf .. EncHalf - 1
      /\ CountDown(enc[w]) \in -EncHalf .. EncHalf - 1
      /\ shaft[w] + 1 \in Int
      /\ shaft[w] - 1 \in Int
  BY <1>1 DEF CountUp, CountDown
<1>3. /\ shaft' \in [Wheels -> Int]
      /\ enc' \in [Wheels -> -EncHalf .. EncHalf - 1]
  BY <1>1, <1>2 DEF Turn, TypeInv, TypeOK
<1>4. QED BY <1>3 DEF Turn, TypeInv, TypeOK, AccOK

LEMMA TypeStep == TypeInv /\ [Next]_vars => TypeInv'
<1> SUFFICES ASSUME TypeInv, [Next]_vars PROVE TypeInv'
  OBVIOUS
<1>1. CASE UNCHANGED vars
  BY <1>1 DEF vars, TypeInv, TypeOK, AccOK
<1>2. CASE Main
  BY <1>2, BeginType, SetLimitsType, SetGoalType, UpdatePositionType,
     UpdateDriveType, CheckDoneType DEF Main
<1>3. QED BY <1>1, <1>2, IsrType, TurnType DEF Next

(* No interleaving of the interrupt with the main thread, for any program, *)
(* any number of wheels and any speeds a duty cycle has room for, drives a *)
(* field or a register out of its range.                                   *)
THEOREM TypeCorrect == Spec => []TypeOK
<1>1. Spec => []TypeInv
  BY InitType, TypeStep, PTL DEF Spec
<1>2. TypeInv => TypeOK
  BY DEF TypeInv
<1>3. QED BY <1>1, <1>2, PTL
-----------------------------------------------------------------------------
(* Where the main thread can be in which call, and what it has written     *)
(* there: the invariant behind the safety properties.                      *)

(* The call under way, and the places it can have reached.                 *)
CallOK ==
  /\ main.pc # "idle" => main.call \in Program
  /\ main.pc \in {"limMin", "limMax"} => main.call.op # "check_done"
  /\ main.pc = "mode" => main.call.op \in Gaits \cup {"stop"}
  /\ main.pc = "check" => main.call.op = "check_done"
  /\ main.pc \in {"ldPos", "setpoint"} => main.call.op \in {"move_x", "stop"}
  /\ main.pc \in {"distance"} \cup UpdatePcs \cup DrivePcs => main.call.op = "stop"

(* A wheel in speed control has the upper limit of some call.              *)
LimitOK ==
  /\ main.pc = "mode" => S.outputLimitMax = Goal
  /\ \A w \in Wheels : servo[w].speed_controlled =>
       \E c \in Program : c.op # "check_done" /\ servo[w].outputLimitMax = Arg(c, w)

SpeedInv == TypeInv /\ CallOK /\ LimitOK

LEMMA CallStep == TypeInv /\ CallOK /\ [Next]_vars => CallOK'
<1> SUFFICES ASSUME TypeInv, CallOK, [Next]_vars PROVE CallOK'
  OBVIOUS
<1> USE DEF CallOK, UpdatePcs, DrivePcs
<1>1. main \in MainState /\ main.call.op \in Gaits \cup {"move_x", "stop", "check_done"}
  BY DEF TypeInv, TypeOK, MainState, Calls
<1>2. CASE UNCHANGED vars
  BY <1>2 DEF vars
<1>3. ASSUME NEW from, NEW to, NEW s, NEW acc, Access(from, to, s, acc)
      PROVE  main.pc = from /\ main'.pc = to /\ main'.call = main.call
  BY <1>1, <1>3 DEF Access, MainState
<1>4. NextWheel("limMin").pc \in {"idle", "limMin"} /\ NextWheel("limMin").call = main.call
  BY <1>1 DEF NextWheel, MainState
<1>5. ASSUME NEW from, NEW s, LastAccess(from, s)
      PROVE  main.pc = from /\ main'.pc \in {"idle", "limMin"} /\ main'.call = main.call
  BY <1>4, <1>5 DEF LastAccess
<1>6. CASE \E c \in Program : Begin(c)
  <2>1. PICK c \in Program : Begin(c)
    BY <1>6
  <2>2. main'.call = c /\ main'.pc = IF c.op = "check_done" THEN "check" ELSE "limMin"
    BY <1>1, <2>1 DEF Begin, MainState
  <2>3. QED BY <2>2
<1>7. CASE SetLimits
  BY <1>1, <1>3, <1>5, <1>7
     DEF SetLimits, SetLimMin, SetLimMax, SetSpeedMode, Gaits
<1>8. CASE SetGoal
  BY <1>1, <1>3, <1>5, <1>8
     DEF SetGoal, ClearSpeedMode, LoadPosition, StoreSetpoint, Gaits
<1>9. CASE UpdatePosition
  BY <1>1, <1>3, <1>9
     DEF UpdatePosition, ReadCounter, LoadCounts, AddMotor, SubPrev,
         StoreCounts, StorePrev
<1>10. CASE UpdateDrive
  <2>1. CASE LoadWord
    BY <1>1, <2>1 DEF LoadWord, MainState
  <2>2. CASE StoreWord
    BY <1>4, <2>2 DEF StoreWord
  <2>3. QED BY <1>1, <1>3, <1>10, <2>1, <2>2
               DEF UpdateDrive, PidLoad, PidStore, LoadSign, StoreDir,
                   LoadDuty, StoreDuty
<1>11. CASE CheckDone
  <2>1. main.pc = "check" /\ main'.call = main.call /\ main'.pc \in {"idle", "check"}
    BY <1>1, <1>11 DEF CheckDone, Return, MainState
  <2>2. QED BY <2>1
<1>12. CASE Isr \/ \E w \in Wheels : Turn(w)
  BY <1>12 DEF Isr, Turn
<1>13. QED
  BY <1>2, <1>6, <1>7, <1>8, <1>9, <1>10, <1>11, <1>12 DEF Next, Main

(* An access writes one servo, and stays with it.                          *)
LEMMA AccessFrame ==
  ASSUME TypeOK, NEW from, NEW to, NEW s, NEW acc, Access(from, to, s, acc)
  PROVE  /\ main.pc = from /\ main'.pc = to /\ main'.acc = acc
         /\ main'.call = main.call /\ main'.i = main.i
         /\ servo'[Cur] = s
         /\ \A w \in Wheels : w # Cur => servo'[w] = servo[w]
<1>1. main \in MainState
  BY DEF TypeOK
<1>2. Cur \in Wheels
  BY CurType
<1>3. QED BY <1>1, <1>2 DEF Access, TypeOK, MainState

LEMMA LastFrame ==
  ASSUME TypeOK, NEW from, NEW s, LastAccess(from, s)
  PROVE  /\ main.pc = from /\ main'.pc \in {"idle", "limMin"}
         /\ main'.call = main.call
         /\ main'.pc = "idle" => main.i = NumWheels
         /\ main'.pc = "limMin" => main'.i = main.i + 1
         /\ servo'[Cur] = s
         /\ \A w \in Wheels : w # Cur => servo'[w] = servo[w]
<1>1. main \in MainState
  BY DEF TypeOK
<1>2. Cur \in Wheels
  BY CurType
<1>3. main' = IF main.i = NumWheels THEN [main EXCEPT !.pc = "idle", !.acc = 0]
              ELSE [main EXCEPT !.pc = "limMin", !.acc = 0, !.i = @ + 1]
  BY DEF LastAccess, NextWheel
<1>4. QED BY <1>1, <1>2, <1>3 DEF LastAccess, TypeOK, MainState

(* Beyond motor_set_speed nothing writes the limits of a wheel or puts it  *)
(* in speed control.                                                       *)
LEMMA LimitsKept ==
  ASSUME TypeInv, SetGoal \/ UpdatePosition \/ UpdateDrive \/ CheckDone \/ Isr,
         NEW w \in Wheels
  PROVE  /\ servo'[w].outputLimitMin = servo[w].outputLimitMin
         /\ servo'[w].outputLimitMax = servo[w].outputLimitMax
         /\ servo'[w].speed_controlled => servo[w].speed_controlled
         /\ ~SetGoal => servo'[w].speed_controlled = servo[w].speed_controlled
<1>1. TypeOK /\ servo \in [Wheels -> ServoState] /\ S = servo[Cur] /\ S \in ServoState
  BY CurType DEF TypeInv, TypeOK, S
<1>2. CASE SetGoal
  BY <1>1, <1>2, AccessFrame, LastFrame
     DEF SetGoal, ClearSpeedMode, LoadPosition, StoreSetpoint, ServoState
<1>3. CASE UpdatePosition
  BY <1>1, <1>3, AccessFrame
     DEF UpdatePosition, ReadCounter, LoadCounts, AddMotor, SubPrev,
         StoreCounts, StorePrev, ServoState
<1>4. CASE UpdateDrive
  BY <1>1, <1>4, AccessFrame
     DEF UpdateDrive, PidLoad, PidStore, LoadSign, StoreDir, LoadDuty,
         StoreDuty, LoadWord, StoreWord, ServoState
<1>5. CASE Isr
  <2>1. PICK kick \in [Wheels -> Kicks] :
          servo' = [v \in Wheels |-> Servo_update(servo[v], enc[v], kick[v])]
    BY <1>5 DEF Isr
  <2>2. servo[w] \in ServoState /\ enc[w] \in Int /\ kick[w] \in Kicks
    BY ServoAssumption DEF TypeInv, TypeOK
  <2>3. QED BY <2>1, <2>2, UpdateFrame
<1>6. CASE CheckDone
  BY <1>6 DEF CheckDone
<1>7. QED BY <1>2, <1>3, <1>4, <1>5, <1>6

LEMMA LimitStep == SpeedInv /\ [Next]_vars => LimitOK'
<1> SUFFICES ASSUME SpeedInv, [Next]_vars PROVE LimitOK'
  OBVIOUS
<1>1. TypeOK /\ TypeInv /\ CallOK /\ LimitOK
  BY DEF SpeedInv, TypeInv
<1>2. servo \in [Wheels -> ServoState] /\ S = servo[Cur] /\ S \in ServoState /\ Cur \in Wheels
  BY <1>1, CurType DEF TypeOK, S
<1>3. CASE SetLimMin
  BY <1>1, <1>2, <1>3, AccessFrame DEF SetLimMin, LimitOK, ServoState
<1>4. CASE SetLimMax
  <2>1. main.call \in Program /\ main.call.op # "check_done"
    BY <1>1, <1>4, AccessFrame DEF SetLimMax, CallOK
  <2>2. /\ servo'[Cur] = [S EXCEPT !.outputLimitMax = Goal]
        /\ \A w \in Wheels : w # Cur => servo'[w] = servo[w]
        /\ main'.call = main.call /\ main'.i = main.i
    BY <1>1, <1>4, AccessFrame DEF SetLimMax
  <2>3. servo'[Cur].outputLimitMax = Goal /\ S' = servo'[Cur] /\ Goal' = Goal
    BY <1>2, <2>2 DEF ServoState, S, Goal, Cur
  <2>4. ASSUME NEW w \in Wheels, servo'[w].speed_controlled
        PROVE  \E c \in Program : c.op # "check_done"
                                  /\ servo'[w].outputLimitMax = Arg(c, w)
    <3>1. CASE w = Cur
      BY <2>1, <2>3, <3>1 DEF Goal
    <3>2. CASE w # Cur
      BY <1>1, <2>2, <2>4, <3>2 DEF LimitOK
    <3>3. QED BY <3>1, <3>2
  <2>5. QED BY <2>3, <2>4 DEF LimitOK
<1>5. CASE SetSpeedMode
  <2>1. /\ main.pc = "mode" /\ main'.pc # "mode"
        /\ servo'[Cur] = [S EXCEPT !.speed_controlled = TRUE]
        /\ \A w \in Wheels : w # Cur => servo'[w] = servo[w]
    BY <1>1, <1>5, AccessFrame, LastFrame DEF SetSpeedMode
  <2>2. main.call \in Program /\ main.call.op # "check_done"
    BY <1>1, <2>1 DEF CallOK, Gaits
  <2>3. servo'[Cur].outputLimitMax = Goal
    BY <1>1, <1>2, <2>1 DEF LimitOK, ServoState
  <2>4. ASSUME NEW w \in Wheels, servo'[w].speed_controlled
        PROVE  \E c \in Program : c.op # "check_done"
                                  /\ servo'[w].outputLimitMax = Arg(c, w)
    <3>1. CASE w = Cur
      BY <2>2, <2>3, <3>1 DEF Goal
    <3>2. CASE w # Cur
      BY <1>1, <2>1, <2>4, <3>2 DEF LimitOK
    <3>3. QED BY <3>1, <3>2
  <2>5. QED BY <2>1, <2>4 DEF LimitOK
<1>6. CASE SetGoal \/ UpdatePosition \/ UpdateDrive \/ CheckDone
  <2>1. main'.pc # "mode"
    <3>1. CASE SetGoal
      BY <1>1, <3>1, AccessFrame, LastFrame
         DEF SetGoal, ClearSpeedMode, LoadPosition, StoreSetpoint
    <3>2. CASE UpdatePosition
      BY <1>1, <3>2, AccessFrame
         DEF UpdatePosition, ReadCounter, LoadCounts, AddMotor, SubPrev,
             StoreCounts, StorePrev
    <3>3. CASE UpdateDrive
      <4>1. CASE LoadWord
        BY <1>1, <4>1 DEF LoadWord, TypeOK, MainState
      <4>2. CASE StoreWord
        BY <1>1, <4>2, NextWheelType, PcsListed DEF StoreWord
      <4>3. QED BY <1>1, <3>3, <4>1, <4>2, AccessFrame
                   DEF UpdateDrive, PidLoad, PidStore, LoadSign, StoreDir,
                       LoadDuty, StoreDuty
    <3>4. CASE CheckDone
      BY <1>1, <3>4 DEF CheckDone, Return, TypeOK, MainState
    <3>5. QED BY <1>6, <3>1, <3>2, <3>3, <3>4
  <2>2. QED BY <1>1, <1>6, <2>1, LimitsKept DEF LimitOK
<1>7. CASE Isr
  <2>1. UNCHANGED main /\ Cur' = Cur /\ S' = servo'[Cur] /\ Goal' = Goal
    BY <1>7 DEF Isr, Cur, S, Goal
  <2>2. QED BY <1>1, <1>2, <1>7, <2>1, LimitsKept DEF LimitOK
<1>8. CASE \E c \in Program : Begin(c)
  <2>1. UNCHANGED servo /\ main'.pc # "mode"
    BY <1>1, <1>8 DEF Begin, TypeOK, MainState
  <2>2. QED BY <1>1, <2>1 DEF LimitOK
<1>9. CASE UNCHANGED vars \/ \E w \in Wheels : Turn(w)
  <2>1. UNCHANGED <<servo, main>>
    BY <1>9 DEF vars, Turn
  <2>2. QED BY <1>1, <2>1 DEF LimitOK, S, Goal, Cur
<1>10. QED
  BY <1>3, <1>4, <1>5, <1>6, <1>7, <1>8, <1>9 DEF Next, Main, SetLimits

LEMMA InitSpeed == Init => SpeedInv
<1>1. Init => CallOK /\ LimitOK
  BY DEF Init, CallOK, LimitOK, UpdatePcs, DrivePcs, Servo_init
<1>2. QED BY <1>1, InitType DEF SpeedInv

LEMMA SpeedInvariant == Spec => []SpeedInv
<1>1. Init => SpeedInv
  BY InitSpeed
<1>2. SpeedInv /\ [Next]_vars => SpeedInv'
  BY TypeStep, CallStep, LimitStep DEF SpeedInv
<1>3. QED BY <1>1, <1>2, PTL DEF Spec

(* An interrupt drives a wheel in speed control as some call of the        *)
(* program asked, wherever in whichever call it comes, for every program.  *)
THEOREM SpeedTick == Spec => SpeedTickDrivesACommand
<1> DEFINE Obeys == Isr => \A w \in Wheels : servo[w].speed_controlled =>
                      \E c \in Program : /\ c.op # "check_done"
                                         /\ Drive(reg'[w]) = Arg(c, w)
<1>1. SpeedInv /\ [Next]_vars => [Obeys]_vars
  <2> SUFFICES ASSUME SpeedInv, Isr, NEW w \in Wheels, servo[w].speed_controlled
               PROVE  \E c \in Program : /\ c.op # "check_done"
                                         /\ Drive(reg'[w]) = Arg(c, w)
    OBVIOUS
  <2>1. PICK kick \in [Wheels -> Kicks] :
          servo' = [v \in Wheels |-> Servo_update(servo[v], enc[v], kick[v])]
    BY DEF Isr
  <2>2. servo[w] \in ServoState /\ enc[w] \in Int /\ kick[w] \in Kicks
    BY ServoAssumption DEF SpeedInv, TypeInv, TypeOK
  <2>3. reg'[w] = ControlWord(Servo_update(servo[w], enc[w], kick[w]))
    BY <2>1 DEF Isr
  <2>4. Drive(reg'[w]) = servo[w].outputLimitMax
    BY <2>2, <2>3, SpeedDrive
  <2>5. QED BY <2>4 DEF SpeedInv, LimitOK
<1>2. QED BY <1>1, SpeedInvariant, PTL DEF Spec, SpeedTickDrivesACommand
-----------------------------------------------------------------------------
(* What the gait functions and rover_stop have done when they return.      *)

Applied(w) ==
  servo[w].speed_controlled /\ servo[w].outputLimitMax = Arg(main.call, w)

GaitOK ==
  main.call.op \in Gaits =>
    /\ main.pc = "idle" => \A w \in Wheels : Applied(w)
    /\ main.pc \in {"limMin", "limMax", "mode"} =>
         \A j \in Wheels : j < main.i => Applied(GaitOrder[j])

GaitInv == SpeedInv /\ GaitOK

(* The last access to a wheel leaves it applied, and the order of the gait *)
(* functions reaches every wheel.                                          *)
LEMMA SpeedModeApplies ==
  ASSUME GaitInv, SetSpeedMode, main.call.op \in Gaits
  PROVE  GaitOK'
<1>1. TypeOK /\ CallOK /\ LimitOK /\ GaitOK /\ main \in MainState
  BY DEF GaitInv, SpeedInv, TypeInv, TypeOK
<1>2. LastAccess("mode", [S EXCEPT !.speed_controlled = TRUE])
  BY DEF SetSpeedMode, Gaits
<1>3. /\ main.pc = "mode" /\ main'.pc \in {"idle", "limMin"}
      /\ main'.call = main.call
      /\ main'.pc = "idle" => main.i = NumWheels
      /\ main'.pc = "limMin" => main'.i = main.i + 1
      /\ servo'[Cur] = [S EXCEPT !.speed_controlled = TRUE]
      /\ \A w \in Wheels : w # Cur => servo'[w] = servo[w]
  BY <1>1, <1>2, LastFrame
<1>4. Cur = GaitOrder[main.i] /\ Cur \in Wheels /\ S \in ServoState /\ S = servo[Cur]
  BY <1>1, CurType DEF Cur, S
<1>5. servo'[Cur].speed_controlled /\ servo'[Cur].outputLimitMax = Arg(main.call, Cur)
  BY <1>1, <1>3, <1>4 DEF LimitOK, Goal, ServoState
<1>6. GaitOrder \in [Wheels -> Wheels] /\ main.i \in Wheels /\ NumWheels \in Nat
  BY <1>1, WheelDriveAssumption DEF MainState
<1>7. ASSUME NEW j \in Wheels, j <= main.i
      PROVE  Applied(GaitOrder[j])'
  <2>1. GaitOrder[j] \in Wheels
    BY <1>6
  <2>2. CASE GaitOrder[j] = Cur
    BY <1>3, <1>5, <2>2 DEF Applied
  <2>3. CASE GaitOrder[j] # Cur
    <3>1. j < main.i
      BY <1>4, <1>6, <1>7, <2>3 DEF Wheels
    <3>2. Applied(GaitOrder[j])
      BY <1>1, <1>3, <3>1 DEF GaitOK
    <3>3. QED BY <1>3, <2>1, <2>3, <3>2 DEF Applied
  <2>4. QED BY <2>2, <2>3
<1>8. CASE main'.pc = "idle"
  <2>1. ASSUME NEW w \in Wheels PROVE Applied(w)'
    <3>1. PICK j \in Wheels : GaitOrder[j] = w
      BY WheelDriveAssumption
    <3>2. j <= main.i
      BY <1>3, <1>6, <1>8 DEF Wheels
    <3>3. QED BY <1>7, <3>1, <3>2
  <2>2. QED BY <1>8, <2>1 DEF GaitOK
<1>9. CASE main'.pc = "limMin"
  <2>1. ASSUME NEW j \in Wheels, j < main'.i PROVE j <= main.i
    BY <1>3, <1>6, <1>9, <2>1 DEF Wheels
  <2>2. QED BY <1>7, <1>9, <2>1 DEF GaitOK
<1>10. QED BY <1>3, <1>8, <1>9

LEMMA GaitStep == GaitInv /\ [Next]_vars => GaitOK'
<1> SUFFICES ASSUME GaitInv, [Next]_vars PROVE GaitOK'
  OBVIOUS
<1>1. TypeOK /\ TypeInv /\ CallOK /\ LimitOK /\ GaitOK /\ main \in MainState
  BY DEF GaitInv, SpeedInv, TypeInv, TypeOK
<1>2. S = servo[Cur] /\ S \in ServoState /\ Cur \in Wheels
  BY <1>1, CurType DEF S
<1>3. GaitOrder \in [Wheels -> Wheels]
  BY WheelDriveAssumption
<1>4. CASE SetLimMin \/ SetLimMax
  <2>1. /\ main.pc \in {"limMin", "limMax"} /\ main'.pc # "idle"
        /\ main'.call = main.call /\ main'.i = main.i
    BY <1>1, <1>4, AccessFrame DEF SetLimMin, SetLimMax
  <2>2. ASSUME NEW w \in Wheels, Applied(w) PROVE Applied(w)'
    <3>1. CASE SetLimMin
      BY <1>1, <1>2, <2>1, <2>2, <3>1, AccessFrame
         DEF SetLimMin, Applied, ServoState
    <3>2. CASE SetLimMax
      BY <1>1, <1>2, <2>1, <2>2, <3>2, AccessFrame
         DEF SetLimMax, Applied, ServoState, Goal
    <3>3. QED BY <1>4, <3>1, <3>2
  <2>3. ASSUME main'.call.op \in Gaits, NEW j \in Wheels, j < main'.i
        PROVE  Applied(GaitOrder[j])'
    BY <1>1, <1>3, <2>1, <2>2, <2>3 DEF GaitOK
  <2>4. QED BY <2>1, <2>3 DEF GaitOK
<1>5. CASE SetSpeedMode
  <2>1. main'.call = main.call
    BY <1>1, <1>5, AccessFrame, LastFrame DEF SetSpeedMode
  <2>2. CASE main.call.op \in Gaits
    BY <1>5, <2>2, SpeedModeApplies
  <2>3. QED BY <2>1, <2>2 DEF GaitOK
<1>6. CASE SetGoal \/ UpdatePosition \/ UpdateDrive \/ CheckDone
  <2>1. main.call.op \notin Gaits /\ main'.call = main.call
    <3>1. CASE SetGoal
      BY <1>1, <3>1, AccessFrame, LastFrame
         DEF SetGoal, ClearSpeedMode, LoadPosition, StoreSetpoint, CallOK, Gaits
    <3>2. CASE UpdatePosition
      BY <1>1, <3>2, AccessFrame
         DEF UpdatePosition, ReadCounter, LoadCounts, AddMotor, SubPrev,
             StoreCounts, StorePrev, CallOK, UpdatePcs, Gaits
    <3>3. CASE UpdateDrive
      <4>1. CASE LoadWord \/ StoreWord
        BY <1>1, <4>1
           DEF LoadWord, StoreWord, NextWheel, MainState, CallOK, DrivePcs, Gaits
      <4>2. CASE UpdateDrive /\ ~LoadWord /\ ~StoreWord
        BY <1>1, <4>2, AccessFrame
           DEF UpdateDrive, PidLoad, PidStore, LoadSign, StoreDir, LoadDuty,
               StoreDuty, CallOK, DrivePcs, Gaits
      <4>3. QED BY <3>3, <4>1, <4>2
    <3>4. CASE CheckDone
      BY <1>1, <3>4 DEF CheckDone, Return, MainState, CallOK, Gaits
    <3>5. QED BY <1>6, <3>1, <3>2, <3>3, <3>4
  <2>2. QED BY <2>1 DEF GaitOK
<1>7. CASE Isr
  <2>1. UNCHANGED main /\ ~SetGoal
    BY <1>1, <1>7, AccessFrame, LastFrame
       DEF Isr, SetGoal, ClearSpeedMode, LoadPosition, StoreSetpoint
  <2>2. ASSUME NEW w \in Wheels, Applied(w) PROVE Applied(w)'
    BY <1>1, <1>7, <2>1, <2>2, LimitsKept DEF Applied
  <2>3. QED BY <1>1, <1>3, <2>1, <2>2 DEF GaitOK
<1>8. CASE \E c \in Program : Begin(c)
  <2>1. PICK c \in Program : Begin(c)
    BY <1>8
  <2>2. /\ main'.call = c /\ main'.i = 1
        /\ main'.pc = IF c.op = "check_done" THEN "check" ELSE "limMin"
    BY <1>1, <2>1 DEF Begin, MainState
  <2>3. ASSUME NEW j \in Wheels PROVE ~(j < 1)
    BY WheelDriveAssumption DEF Wheels
  <2>4. QED BY <2>2, <2>3 DEF GaitOK
<1>9. CASE UNCHANGED vars \/ \E w \in Wheels : Turn(w)
  <2>1. UNCHANGED <<servo, main>>
    BY <1>9 DEF vars, Turn
  <2>2. QED BY <1>1, <2>1 DEF GaitOK, Applied
<1>10. QED
  BY <1>4, <1>5, <1>6, <1>7, <1>8, <1>9 DEF Next, Main, SetLimits

(* Once a gait function has returned, every interrupt drives every wheel   *)
(* as it asked, whatever interrupts came while it ran and whatever the     *)
(* program did before.                                                     *)
THEOREM GaitsApply == Spec => GaitApplied
<1> DEFINE Obeys == Isr /\ main.pc = "idle" /\ main.call.op \in Gaits =>
                      \A w \in Wheels : Drive(reg'[w]) = Arg(main.call, w)
<1>1. Init => GaitInv
  <2>1. Init => SpeedInv
    BY InitSpeed
  <2>2. Init => GaitOK
    BY DEF Init, GaitOK, Gaits
  <2>3. QED BY <2>1, <2>2 DEF GaitInv
<1>2. GaitInv /\ [Next]_vars => GaitInv'
  BY TypeStep, CallStep, LimitStep, GaitStep DEF GaitInv, SpeedInv
<1>3. GaitInv /\ [Next]_vars => [Obeys]_vars
  <2> SUFFICES ASSUME GaitInv, Isr, main.pc = "idle", main.call.op \in Gaits,
                      NEW w \in Wheels
               PROVE  Drive(reg'[w]) = Arg(main.call, w)
    OBVIOUS
  <2>1. PICK kick \in [Wheels -> Kicks] :
          servo' = [v \in Wheels |-> Servo_update(servo[v], enc[v], kick[v])]
    BY DEF Isr
  <2>2. servo[w] \in ServoState /\ enc[w] \in Int /\ kick[w] \in Kicks
    BY ServoAssumption DEF GaitInv, SpeedInv, TypeInv, TypeOK
  <2>3. reg'[w] = ControlWord(Servo_update(servo[w], enc[w], kick[w]))
    BY <2>1 DEF Isr
  <2>4. Applied(w)
    BY DEF GaitInv, GaitOK
  <2>5. Drive(reg'[w]) = servo[w].outputLimitMax
    BY <2>2, <2>3, <2>4, SpeedDrive DEF Applied
  <2>6. QED BY <2>4, <2>5 DEF Applied
<1>4. QED BY <1>1, <1>2, <1>3, PTL DEF Spec, GaitApplied

Late == {"ldPos", "setpoint"} \cup UpdatePcs \cup DrivePcs

StopOK ==
  main.call.op = "stop" =>
    /\ main.pc = "idle" => \A w \in Wheels : ~servo[w].speed_controlled
    /\ main.pc # "idle" =>
         \A j \in Wheels : j < main.i => ~servo[j].speed_controlled
    /\ main.pc \in Late => ~S.speed_controlled

StopInv == SpeedInv /\ StopOK

LEMMA StopStep == StopInv /\ [Next]_vars => StopOK'
<1> SUFFICES ASSUME StopInv, [Next]_vars PROVE StopOK'
  OBVIOUS
<1>1. TypeOK /\ TypeInv /\ CallOK /\ StopOK /\ main \in MainState
  BY DEF StopInv, SpeedInv, TypeInv, TypeOK
<1>2. /\ S = servo[Cur] /\ S \in ServoState
      /\ main.i \in Wheels /\ NumWheels \in Nat
      /\ main.call.op = "stop" => Cur = main.i
  BY <1>1, CurType, WheelDriveAssumption DEF S, Cur, Gaits, MainState
  \* A step that stays at one wheel and puts no other in speed control.
<1>3. ASSUME main.pc # "idle", main'.pc # "idle", main'.i = main.i,
             main'.call = main.call,
             \A w \in Wheels : w # Cur =>
               (servo'[w].speed_controlled => servo[w].speed_controlled),
             main'.pc \in Late => ~servo'[Cur].speed_controlled
      PROVE  StopOK'
  <2>1. S' = servo'[Cur]
    BY <1>3 DEF S, Cur
  <2>2. ASSUME main.call.op = "stop", NEW j \in Wheels, j < main.i
        PROVE  ~servo'[j].speed_controlled
    <3>1. j # Cur
      BY <1>2, <2>2 DEF Wheels
    <3>2. QED BY <1>1, <1>3, <2>2, <3>1 DEF StopOK
  <2>3. QED BY <1>3, <2>1, <2>2 DEF StopOK
<1>4. CASE SetLimMin \/ SetLimMax
  <2>1. /\ main'.pc \in {"limMax", "mode", "ldPos"} /\ main.pc \in {"limMin", "limMax"}
        /\ main'.i = main.i /\ main'.call = main.call
        /\ \A w \in Wheels : servo'[w].speed_controlled = servo[w].speed_controlled
    BY <1>1, <1>2, <1>4, AccessFrame DEF SetLimMin, SetLimMax, ServoState
  <2>2. main.call.op = "stop" => main'.pc \notin Late
    BY <1>1, <1>4, AccessFrame
       DEF SetLimMin, SetLimMax, Late, UpdatePcs, DrivePcs
  <2>3. CASE main.call.op = "stop"
    BY <1>3, <2>1, <2>2, <2>3
  <2>4. QED BY <2>1, <2>3 DEF StopOK
<1>5. CASE SetSpeedMode
  <2>1. CASE main.call.op = "stop"
    <3>1. Access("mode", "distance", [S EXCEPT !.speed_controlled = TRUE], 0)
      BY <1>5, <2>1 DEF SetSpeedMode, Gaits
    <3>2. "distance" \notin Late
      BY DEF Late, UpdatePcs, DrivePcs
    <3>3. QED BY <1>1, <1>3, <3>1, <3>2, AccessFrame
  <2>2. CASE main.call.op # "stop"
    BY <1>1, <1>5, <2>2, LastFrame DEF SetSpeedMode, StopOK
  <2>3. QED BY <2>1, <2>2
<1>6. CASE ClearSpeedMode
  <2>1. servo'[Cur].speed_controlled = FALSE
    BY <1>1, <1>2, <1>6, AccessFrame DEF ClearSpeedMode, ServoState
  <2>2. QED BY <1>1, <1>3, <1>6, <2>1, AccessFrame DEF ClearSpeedMode
<1>7. CASE \/ LoadPosition \/ StoreSetpoint \/ UpdatePosition
           \/ UpdateDrive /\ ~StoreWord
  <2>1. CASE main.call.op = "stop"
    <3>1. /\ main.pc \in Late /\ main'.pc # "idle" /\ main.pc # "idle"
          /\ main'.i = main.i /\ main'.call = main.call
      <4>1. CASE LoadPosition \/ StoreSetpoint
        BY <1>1, <2>1, <4>1, AccessFrame DEF LoadPosition, StoreSetpoint, Late
      <4>2. CASE UpdatePosition
        BY <1>1, <4>2, AccessFrame
           DEF UpdatePosition, ReadCounter, LoadCounts, AddMotor, SubPrev,
               StoreCounts, StorePrev, Late, UpdatePcs
      <4>3. CASE LoadWord
        BY <1>1, <4>3 DEF LoadWord, MainState, Late, DrivePcs
      <4>4. CASE UpdateDrive /\ ~StoreWord /\ ~LoadWord
        BY <1>1, <4>4, AccessFrame
           DEF UpdateDrive, PidLoad, PidStore, LoadSign, StoreDir, LoadDuty,
               StoreDuty, Late, DrivePcs
      <4>5. QED BY <1>7, <4>1, <4>2, <4>3, <4>4
    <3>2. \A w \in Wheels : servo'[w].speed_controlled => servo[w].speed_controlled
      BY <1>1, <1>7, LimitsKept DEF SetGoal
    <3>3. ~S.speed_controlled
      BY <1>1, <2>1, <3>1 DEF StopOK
    <3>4. Cur \in Wheels
      BY <1>1, CurType
    <3>5. QED BY <1>2, <1>3, <3>1, <3>2, <3>3, <3>4
  <2>2. CASE main.call.op # "stop"
    <3>1. StoreSetpoint \/ LoadPosition
      BY <1>1, <1>7, <2>2, AccessFrame
         DEF CallOK, UpdatePosition, ReadCounter, LoadCounts, AddMotor,
             SubPrev, StoreCounts, StorePrev, UpdatePcs, UpdateDrive, PidLoad,
             PidStore, LoadSign, StoreDir, LoadDuty, StoreDuty, LoadWord,
             StoreWord, DrivePcs
    <3>2. main'.call = main.call
      BY <1>1, <3>1, AccessFrame, LastFrame DEF StoreSetpoint, LoadPosition
    <3>3. QED BY <2>2, <3>2 DEF StopOK
  <2>3. QED BY <2>1, <2>2
<1>8. CASE StoreWord
  <2>1. /\ main.pc = "stWord" /\ main'.call = main.call /\ UNCHANGED servo
        /\ main'.pc \in {"idle", "limMin"}
        /\ main'.pc = "idle" => main.i = NumWheels
        /\ main'.pc = "limMin" => main'.i = main.i + 1
    BY <1>1, <1>8 DEF StoreWord, NextWheel, MainState
  <2>2. CASE main.call.op = "stop"
    <3>1. ~servo[main.i].speed_controlled
      BY <1>1, <1>2, <2>1, <2>2 DEF StopOK, Late, DrivePcs
    <3>2. ASSUME NEW j \in Wheels, j <= main.i
          PROVE  ~servo[j].speed_controlled
      <4>1. j = main.i \/ j < main.i
        BY <1>2, <3>2 DEF Wheels
      <4>2. QED BY <1>1, <2>1, <2>2, <3>1, <4>1 DEF StopOK
    <3>3. ASSUME NEW j \in Wheels, main'.pc = "idle" \/ j < main'.i
          PROVE  j <= main.i
      BY <1>2, <2>1, <3>3 DEF Wheels
    <3>4. main'.pc \notin Late
      BY <2>1 DEF Late, UpdatePcs, DrivePcs
    <3>5. QED BY <2>1, <3>2, <3>3, <3>4 DEF StopOK
  <2>3. QED BY <2>1, <2>2 DEF StopOK
<1>9. CASE CheckDone
  <2>1. main'.call = main.call /\ main.call.op = "check_done"
    BY <1>1, <1>9 DEF CheckDone, Return, MainState, CallOK
  <2>2. QED BY <2>1 DEF StopOK
<1>10. CASE Isr
  <2>1. UNCHANGED main /\ ~SetGoal
    BY <1>1, <1>10, AccessFrame, LastFrame
       DEF Isr, SetGoal, ClearSpeedMode, LoadPosition, StoreSetpoint
  <2>2. \A w \in Wheels : servo'[w].speed_controlled = servo[w].speed_controlled
    BY <1>1, <1>10, <2>1, LimitsKept
  <2>3. Cur \in Wheels /\ S' = servo'[Cur]
    BY <1>1, <2>1, CurType DEF S, Cur
  <2>4. QED BY <1>1, <1>2, <2>1, <2>2, <2>3 DEF StopOK
<1>11. CASE \E c \in Program : Begin(c)
  <2>1. main'.i = 1 /\ main'.pc \in {"check", "limMin"}
    BY <1>1, <1>11 DEF Begin, MainState
  <2>2. ASSUME NEW j \in Wheels PROVE ~(j < 1)
    BY <1>2 DEF Wheels
  <2>3. QED BY <2>1, <2>2 DEF StopOK, Late, UpdatePcs, DrivePcs
<1>12. CASE UNCHANGED vars \/ \E w \in Wheels : Turn(w)
  <2>1. UNCHANGED <<servo, main>>
    BY <1>12 DEF vars, Turn
  <2>2. QED BY <1>1, <2>1 DEF StopOK, S, Cur
<1>13. QED
  BY <1>4, <1>5, <1>6, <1>7, <1>8, <1>9, <1>10, <1>11, <1>12
     DEF Next, Main, SetLimits, SetGoal, UpdateDrive

(* The other calls leave the mode as it was: between gaits and rover_stop  *)
(* all wheels are in the same.                                             *)
UniformOK ==
  main.pc = "idle" \/ main.call.op \notin Gaits \cup {"stop"} =>
    \A v, w \in Wheels : servo[v].speed_controlled = servo[w].speed_controlled

ModeInv == GaitInv /\ StopOK /\ UniformOK

(* A step of a call that is no gait and not rover_stop.                    *)
LEMMA ModeKept ==
  ASSUME SpeedInv, [Next]_vars, main'.call.op \notin Gaits \cup {"stop"},
         NEW w \in Wheels
  PROVE  /\ servo'[w].speed_controlled = servo[w].speed_controlled
         /\ main.pc = "idle" \/ main.call.op \notin Gaits \cup {"stop"}
<1>1. TypeOK /\ TypeInv /\ CallOK /\ main \in MainState
  BY DEF SpeedInv, TypeInv, TypeOK
<1>2. S = servo[Cur] /\ S \in ServoState /\ Cur \in Wheels
  BY <1>1, CurType DEF S
<1>3. CASE SetLimMin \/ SetLimMax \/ LoadPosition \/ StoreSetpoint
  <2>1. main'.call = main.call
    BY <1>1, <1>3, AccessFrame, LastFrame
       DEF SetLimMin, SetLimMax, LoadPosition, StoreSetpoint
  <2>2. servo'[w].speed_controlled = servo[w].speed_controlled
    BY <1>1, <1>2, <1>3, AccessFrame, LastFrame
       DEF SetLimMin, SetLimMax, LoadPosition, StoreSetpoint, ServoState
  <2>3. QED BY <2>1, <2>2
<1>4. CASE SetSpeedMode \/ ClearSpeedMode \/ UpdatePosition \/ UpdateDrive
  <2>1. main.call.op \in Gaits \cup {"stop"} /\ main'.call = main.call
    <3>1. CASE SetSpeedMode \/ ClearSpeedMode
      BY <1>1, <3>1, AccessFrame, LastFrame
         DEF SetSpeedMode, ClearSpeedMode, CallOK
    <3>2. CASE UpdatePosition
      BY <1>1, <3>2, AccessFrame
         DEF UpdatePosition, ReadCounter, LoadCounts, AddMotor, SubPrev,
             StoreCounts, StorePrev, CallOK, UpdatePcs
    <3>3. CASE UpdateDrive
      <4>1. CASE LoadWord \/ StoreWord
        BY <1>1, <4>1
           DEF LoadWord, StoreWord, NextWheel, MainState, CallOK, DrivePcs
      <4>2. CASE UpdateDrive /\ ~LoadWord /\ ~StoreWord
        BY <1>1, <4>2, AccessFrame
           DEF UpdateDrive, PidLoad, PidStore, LoadSign, StoreDir, LoadDuty,
               StoreDuty, CallOK, DrivePcs
      <4>3. QED BY <3>3, <4>1, <4>2
    <3>4. QED BY <1>4, <3>1, <3>2, <3>3
  <2>2. QED BY <2>1
<1>5. CASE Isr
  <2>1. UNCHANGED main /\ ~SetGoal
    BY <1>1, <1>5, AccessFrame, LastFrame
       DEF Isr, SetGoal, ClearSpeedMode, LoadPosition, StoreSetpoint
  <2>2. QED BY <1>1, <1>5, <2>1, LimitsKept
<1>6. CASE CheckDone
  BY <1>1, <1>6 DEF CheckDone, Return, MainState, CallOK, Gaits
<1>7. CASE \E c \in Program : Begin(c)
  BY <1>7 DEF Begin
<1>8. CASE UNCHANGED vars \/ \E v \in Wheels : Turn(v)
  BY <1>8 DEF vars, Turn
<1>9. QED
  BY <1>3, <1>4, <1>5, <1>6, <1>7, <1>8 DEF Next, Main, SetLimits, SetGoal

LEMMA InitMode == Init => ModeInv
<1>1. Init => GaitOK /\ StopOK /\ UniformOK
  BY DEF Init, GaitOK, StopOK, UniformOK, Gaits
<1>2. QED BY <1>1, InitSpeed DEF ModeInv, GaitInv

LEMMA ModeStep == ModeInv /\ [Next]_vars => ModeInv'
<1> SUFFICES ASSUME ModeInv, [Next]_vars PROVE ModeInv'
  OBVIOUS
<1>1. SpeedInv /\ GaitInv /\ StopInv /\ UniformOK
  BY DEF ModeInv, GaitInv, StopInv
<1>2. SpeedInv' /\ GaitOK' /\ StopOK'
  BY <1>1, TypeStep, CallStep, LimitStep, GaitStep, StopStep DEF SpeedInv
<1>3. UniformOK'
  <2> SUFFICES ASSUME (main.pc = "idle" \/ main.call.op \notin Gaits \cup {"stop"})',
                      NEW v \in Wheels, NEW w \in Wheels
               PROVE  servo'[v].speed_controlled = servo'[w].speed_controlled
    BY DEF UniformOK
  <2>1. CASE main'.call.op \in Gaits
    BY <1>2, <2>1 DEF GaitOK, Applied, SpeedInv, TypeInv, TypeOK, ServoState
  <2>2. CASE main'.call.op = "stop"
    BY <1>2, <2>2 DEF StopOK, SpeedInv, TypeInv, TypeOK, ServoState, Gaits
  <2>3. CASE main'.call.op \notin Gaits \cup {"stop"}
    BY <1>1, <2>3, ModeKept DEF UniformOK
  <2>4. QED BY <2>1, <2>2, <2>3
<1>4. QED BY <1>2, <1>3 DEF ModeInv, GaitInv

(* Between two calls a gait has left every wheel in speed control and      *)
(* rover_stop every wheel out of it; the interrupts that found them in     *)
(* between could not change that, and no other call leaves them mixed.     *)
THEOREM ModesFollow == Spec => []ModeFollowsCalls
<1>1. ModeInv => ModeFollowsCalls
  BY DEF ModeInv, GaitInv, GaitOK, Applied, StopOK, UniformOK, ModeFollowsCalls
<1>2. QED BY <1>1, InitMode, ModeStep, PTL DEF Spec
-----------------------------------------------------------------------------
(* What rover_move_x has done when it returns.                             *)

Limited(w) ==
  /\ servo[w].outputLimitMin = -main.call.speed
  /\ servo[w].outputLimitMax = main.call.speed

MoveOK ==
  main.call.op = "move_x" =>
    /\ main.pc = "idle" => \A w \in Wheels : Limited(w)
    /\ main.pc # "idle" => \A w \in Wheels : w < main.i => Limited(w)
    /\ main.pc \in {"limMax", "ldPos", "setpoint"} =>
         S.outputLimitMin = -main.call.speed
    /\ main.pc \in {"ldPos", "setpoint"} =>
         S.outputLimitMax = main.call.speed

MoveInv == ModeInv /\ MoveOK

(* rover_move_x goes through the wheels in the order of the array, and     *)
(* takes its speed for limit.                                              *)
LEMMA MoveTakes ==
  ASSUME TypeOK, main.call.op = "move_x"
  PROVE  Cur = main.i /\ Goal = main.call.speed
  BY DEF Cur, Goal, Arg, Gaits

(* What leaves a wheel's limits alone leaves it limited.                   *)
LEMMA LimitedKept ==
  ASSUME NEW w \in Wheels, Limited(w), main'.call = main.call,
         servo'[w].outputLimitMin = servo[w].outputLimitMin,
         servo'[w].outputLimitMax = servo[w].outputLimitMax
  PROVE  Limited(w)'
  BY DEF Limited

LEMMA MoveAccess ==
  ASSUME MoveInv, SetLimMin \/ SetLimMax \/ LoadPosition,
         main.call.op = "move_x"
  PROVE  MoveOK'
<1>1. TypeOK /\ MoveOK /\ main \in MainState
  BY DEF MoveInv, ModeInv, GaitInv, SpeedInv, TypeInv, TypeOK
<1>2. S = servo[Cur] /\ S \in ServoState /\ Cur \in Wheels
  BY <1>1, CurType DEF S
<1>3. Cur = main.i /\ Goal = main.call.speed
  BY <1>1, MoveTakes
<1>4. /\ main'.call = main.call /\ main'.i = main.i
      /\ main.pc # "idle"
      /\ \A w \in Wheels : w # Cur => servo'[w] = servo[w]
  BY <1>1, AccessFrame DEF SetLimMin, SetLimMax, LoadPosition
<1>5. main.i \in Wheels /\ S' = servo'[Cur]
  BY <1>1, <1>4 DEF MainState, S, Cur
<1>6. ASSUME NEW w \in Wheels, w < main'.i PROVE Limited(w)'
  <2>1. w # Cur /\ w < main.i
    BY <1>3, <1>4, <1>5, <1>6 DEF Wheels
  <2>2. Limited(w)
    BY <1>1, <1>4, <2>1 DEF MoveOK
  <2>3. QED BY <1>4, <2>1, <2>2, LimitedKept
<1>7. CASE SetLimMin
  <2>1. main'.pc = "limMax" /\ servo'[Cur] = [S EXCEPT !.outputLimitMin = -Goal]
    BY <1>1, <1>7, AccessFrame DEF SetLimMin
  <2>2. servo'[Cur].outputLimitMin = -main.call.speed
    BY <1>2, <1>3, <2>1 DEF ServoState
  <2>3. QED BY <1>4, <1>5, <1>6, <2>1, <2>2 DEF MoveOK
<1>8. CASE SetLimMax
  <2>1. /\ main.pc = "limMax" /\ main'.pc = "ldPos"
        /\ servo'[Cur] = [S EXCEPT !.outputLimitMax = Goal]
    BY <1>1, <1>8, AccessFrame DEF SetLimMax
  <2>2. /\ servo'[Cur].outputLimitMin = -main.call.speed
        /\ servo'[Cur].outputLimitMax = main.call.speed
    BY <1>1, <1>2, <1>3, <2>1 DEF ServoState, MoveOK
  <2>3. QED BY <1>4, <1>5, <1>6, <2>1, <2>2 DEF MoveOK
<1>9. CASE LoadPosition
  <2>1. main.pc = "ldPos" /\ main'.pc = "setpoint" /\ servo'[Cur] = S
    BY <1>1, <1>9, AccessFrame DEF LoadPosition
  <2>2. QED BY <1>1, <1>4, <1>5, <1>6, <2>1 DEF MoveOK
<1>10. QED BY <1>7, <1>8, <1>9

LEMMA MoveLast ==
  ASSUME MoveInv, StoreSetpoint, main.call.op = "move_x"
  PROVE  MoveOK'
<1>1. TypeOK /\ MoveOK /\ main \in MainState
  BY DEF MoveInv, ModeInv, GaitInv, SpeedInv, TypeInv, TypeOK
<1>2. S = servo[Cur] /\ S \in ServoState /\ Cur \in Wheels /\ Cur = main.i
  BY <1>1, CurType, MoveTakes DEF S
<1>3. /\ main.pc = "setpoint" /\ main'.pc \in {"idle", "limMin"}
      /\ main'.call = main.call
      /\ main'.pc = "idle" => main.i = NumWheels
      /\ main'.pc = "limMin" => main'.i = main.i + 1
      /\ servo'[Cur] = [S EXCEPT !.setpoint = main.acc]
      /\ \A w \in Wheels : w # Cur => servo'[w] = servo[w]
  BY <1>1, LastFrame DEF StoreSetpoint
<1>4. NumWheels \in Nat
  BY WheelDriveAssumption
<1>5. ASSUME NEW w \in Wheels, w <= main.i PROVE Limited(w)'
  <2>1. CASE w = Cur
    BY <1>1, <1>2, <1>3, <2>1 DEF MoveOK, Limited, ServoState
  <2>2. CASE w # Cur
    <3>1. w < main.i
      BY <1>2, <1>5, <2>2 DEF Wheels
    <3>2. Limited(w)
      BY <1>1, <1>3, <3>1 DEF MoveOK
    <3>3. QED BY <1>3, <2>2, <3>2, LimitedKept
  <2>3. QED BY <2>1, <2>2
<1>6. ASSUME NEW w \in Wheels, main'.pc = "idle" \/ w < main'.i PROVE w <= main.i
  BY <1>2, <1>3, <1>4, <1>6 DEF Wheels
<1>7. QED BY <1>3, <1>5, <1>6 DEF MoveOK

LEMMA MoveStep == MoveInv /\ [Next]_vars => MoveOK'
<1> SUFFICES ASSUME MoveInv, [Next]_vars PROVE MoveOK'
  OBVIOUS
<1>1. TypeOK /\ TypeInv /\ CallOK /\ MoveOK /\ main \in MainState
  BY DEF MoveInv, ModeInv, GaitInv, SpeedInv, TypeInv, TypeOK
<1>2. CASE SetLimMin \/ SetLimMax \/ LoadPosition
  <2>1. main'.call = main.call
    BY <1>1, <1>2, AccessFrame DEF SetLimMin, SetLimMax, LoadPosition
  <2>2. QED BY <1>2, <2>1, MoveAccess DEF MoveOK
<1>3. CASE StoreSetpoint
  <2>1. main'.call = main.call
    BY <1>1, <1>3, AccessFrame, LastFrame DEF StoreSetpoint
  <2>2. QED BY <1>3, <2>1, MoveLast DEF MoveOK
<1>4. CASE \/ SetSpeedMode \/ ClearSpeedMode \/ UpdatePosition
           \/ UpdateDrive \/ CheckDone
  <2>1. main'.call = main.call /\ main.call.op # "move_x"
    <3>1. CASE SetSpeedMode \/ ClearSpeedMode
      BY <1>1, <3>1, AccessFrame, LastFrame
         DEF SetSpeedMode, ClearSpeedMode, CallOK, Gaits
    <3>2. CASE UpdatePosition
      BY <1>1, <3>2, AccessFrame
         DEF UpdatePosition, ReadCounter, LoadCounts, AddMotor, SubPrev,
             StoreCounts, StorePrev, CallOK, UpdatePcs
    <3>3. CASE LoadWord \/ StoreWord
      BY <1>1, <3>3
         DEF LoadWord, StoreWord, NextWheel, MainState, CallOK, DrivePcs
    <3>4. CASE UpdateDrive /\ ~LoadWord /\ ~StoreWord
      BY <1>1, <3>4, AccessFrame
         DEF UpdateDrive, PidLoad, PidStore, LoadSign, StoreDir, LoadDuty,
             StoreDuty, CallOK, DrivePcs
    <3>5. CASE CheckDone
      BY <1>1, <3>5 DEF CheckDone, Return, MainState, CallOK
    <3>6. QED BY <1>4, <3>1, <3>2, <3>3, <3>4, <3>5
  <2>2. QED BY <2>1 DEF MoveOK
<1>5. CASE Isr
  <2>1. UNCHANGED main
    BY <1>5 DEF Isr
  <2>2. \A w \in Wheels :
          /\ servo'[w].outputLimitMin = servo[w].outputLimitMin
          /\ servo'[w].outputLimitMax = servo[w].outputLimitMax
    BY <1>1, <1>5, LimitsKept
  <2>3. Cur \in Wheels /\ S = servo[Cur] /\ S' = servo'[Cur]
    BY <1>1, <2>1, CurType DEF S, Cur
  <2>4. QED BY <1>1, <2>1, <2>2, <2>3 DEF MoveOK, Limited
<1>6. CASE \E c \in Program : Begin(c)
  <2>1. main'.i = 1 /\ main'.pc \in {"check", "limMin"}
    BY <1>1, <1>6 DEF Begin, MainState
  <2>2. ASSUME NEW w \in Wheels PROVE ~(w < 1)
    BY WheelDriveAssumption DEF Wheels
  <2>3. QED BY <2>1, <2>2 DEF MoveOK
<1>7. CASE UNCHANGED vars \/ \E w \in Wheels : Turn(w)
  <2>1. UNCHANGED <<servo, main>>
    BY <1>7 DEF vars, Turn
  <2>2. QED BY <1>1, <2>1 DEF MoveOK, Limited, S, Cur
<1>8. QED
  BY <1>2, <1>3, <1>4, <1>5, <1>6, <1>7 DEF Next, Main, SetLimits, SetGoal

(* When rover_move_x has returned, no interrupt drives a wheel that is out *)
(* of speed control away from its setpoint or faster than asked, whatever  *)
(* integral and derivative add; and if a gait left the wheels in speed     *)
(* control none of them heeds its setpoint.                                *)
THEOREM MovesNeedStop == Spec => MoveNeedsStop
<1> DEFINE Moved == Isr /\ main.pc = "idle" /\ main.call.op = "move_x" =>
             \/ \A w \in Wheels :
                  /\ ~servo[w].speed_controlled
                  /\ DrivenTowards(servo[w].setpoint, servo'[w].counts,
                                   Drive(reg'[w]), main.call.speed)
             \/ \A w \in Wheels : /\ servo[w].speed_controlled
                                   /\ Drive(reg'[w]) = main.call.speed
<1>1. Init => MoveInv
  <2>1. Init => MoveOK
    BY DEF Init, MoveOK
  <2>2. QED BY <2>1, InitMode DEF MoveInv
<1>2. MoveInv /\ [Next]_vars => MoveInv'
  BY ModeStep, MoveStep DEF MoveInv
<1>3. MoveInv /\ [Next]_vars => [Moved]_vars
  <2> DEFINE Led(w) == /\ ~servo[w].speed_controlled
                       /\ DrivenTowards(servo[w].setpoint, servo'[w].counts,
                                        Drive(reg'[w]), main.call.speed)
             Free(w) == /\ servo[w].speed_controlled
                        /\ Drive(reg'[w]) = main.call.speed
  <2> SUFFICES ASSUME MoveInv, Isr, main.pc = "idle", main.call.op = "move_x"
               PROVE  (\A w \in Wheels : Led(w)) \/ (\A w \in Wheels : Free(w))
    OBVIOUS
  <2>1. TypeOK /\ UniformOK /\ MoveOK
    BY DEF MoveInv, ModeInv, GaitInv, SpeedInv, TypeInv
  <2>2. PICK kick \in [Wheels -> Kicks] :
          servo' = [v \in Wheels |-> Servo_update(servo[v], enc[v], kick[v])]
    BY DEF Isr
  <2>3. main.call.speed \in 1 .. MaxDuty
    BY <2>1 DEF TypeOK, MainState, Calls
  <2>4. ASSUME NEW w \in Wheels
        PROVE  IF servo[w].speed_controlled THEN Free(w) ELSE Led(w)
    <3>1. servo[w] \in ServoState /\ enc[w] \in Int /\ kick[w] \in Kicks
      BY <2>1, ServoAssumption DEF TypeOK
    <3>2. /\ servo'[w] = Servo_update(servo[w], enc[w], kick[w])
          /\ reg'[w] = ControlWord(Servo_update(servo[w], enc[w], kick[w]))
      BY <2>2 DEF Isr
    <3>3. Limited(w)
      BY <2>1 DEF MoveOK
    <3>4. CASE servo[w].speed_controlled
      BY <3>1, <3>2, <3>3, <3>4, SpeedDrive DEF Limited
    <3>5. CASE ~servo[w].speed_controlled
      BY <2>3, <3>1, <3>2, <3>3, <3>5, DistanceDrive DEF Limited
    <3>6. QED BY <3>4, <3>5
  <2>5. \A v, w \in Wheels :
          servo[v].speed_controlled = servo[w].speed_controlled
    BY <2>1 DEF UniformOK
  <2>6. CASE \A w \in Wheels : servo[w].speed_controlled
    BY <2>4, <2>6
  <2>7. CASE \A w \in Wheels : ~servo[w].speed_controlled
    BY <2>4, <2>7
  <2>8. QED
    <3> HIDE DEF Led, Free
    <3> QED BY <2>5, <2>6, <2>7
<1>4. QED BY <1>1, <1>2, <1>3, PTL DEF Spec, MoveNeedsStop
-----------------------------------------------------------------------------
(* Positions.                                                              *)

(* What opens or closes a drift.                                           *)
LEMMA DriftStep ==
  ASSUME SpeedInv, [Next]_vars, NEW w \in Wheels, Drift(w)' # Drift(w)
  PROVE  main.call.op = "stop" /\ main.pc \in UpdatePcs
<1>1. TypeOK /\ TypeInv /\ CallOK
  BY DEF SpeedInv, TypeInv
<1>2. servo[w] \in ServoState /\ S = servo[Cur] /\ S \in ServoState
  BY <1>1, CurType DEF TypeOK, S
<1>3. CASE UpdatePosition
  <2>1. main.pc \in UpdatePcs
    BY <1>1, <1>3, AccessFrame
       DEF UpdatePosition, ReadCounter, LoadCounts, AddMotor, SubPrev,
           StoreCounts, StorePrev, UpdatePcs
  <2>2. QED BY <1>1, <2>1 DEF CallOK
<1>4. CASE Isr
  <2>1. PICK kick \in [Wheels -> Kicks] :
          servo' = [v \in Wheels |-> Servo_update(servo[v], enc[v], kick[v])]
    BY <1>4 DEF Isr
  <2>2. enc[w] \in Int /\ kick[w] \in Kicks
    BY <1>1, ServoAssumption DEF TypeOK
  <2>3. /\ servo'[w].counts = servo[w].counts + (enc[w] - servo[w].prevCounts)
        /\ servo'[w].prevCounts = enc[w]
    BY <1>2, <2>1, <2>2, UpdateFrame
  <2>4. servo[w].counts \in Int /\ servo[w].prevCounts \in Int
    BY <1>2 DEF ServoState
  <2>5. Drift(w)' = Drift(w)
    BY <2>2, <2>3, <2>4 DEF Drift
  <2>6. QED BY <2>5
<1>5. CASE SetLimits \/ SetGoal
  <2>1. servo'[w].counts = servo[w].counts /\ servo'[w].prevCounts = servo[w].prevCounts
    BY <1>1, <1>2, <1>5, AccessFrame, LastFrame
       DEF SetLimits, SetLimMin, SetLimMax, SetSpeedMode, SetGoal,
           ClearSpeedMode, LoadPosition, StoreSetpoint, ServoState
  <2>2. QED BY <2>1 DEF Drift
<1>6. CASE UpdateDrive
  <2>1. servo'[w].counts = servo[w].counts /\ servo'[w].prevCounts = servo[w].prevCounts
    BY <1>1, <1>2, <1>6, AccessFrame
       DEF UpdateDrive, PidLoad, PidStore, LoadSign, StoreDir, LoadDuty,
           StoreDuty, LoadWord, StoreWord, ServoState
  <2>2. QED BY <2>1 DEF Drift
<1>7. CASE \/ CheckDone \/ (\E c \in Program : Begin(c))
           \/ (\E v \in Wheels : Turn(v)) \/ UNCHANGED vars
  BY <1>7 DEF CheckDone, Begin, Turn, vars, Drift
<1>8. QED BY <1>3, <1>4, <1>5, <1>6, <1>7 DEF Next, Main

(* A drift opens or closes only while rover_stop is counting on the main   *)
(* thread; the updates of the interrupt keep every drift as it is.         *)
THEOREM DriftNeedsStop == Spec => DriftOnlyInStop
<1> DEFINE Excused == (\E w \in Wheels : Drift(w)' # Drift(w)) =>
                        main.call.op = "stop" /\ main.pc \in UpdatePcs
<1>1. SpeedInv /\ [Next]_vars => [Excused]_vars
  BY DriftStep
<1>2. QED BY <1>1, SpeedInvariant, PTL DEF Spec, DriftOnlyInStop

(* The counter shows the wheel's rotation as long as it does not wrap.     *)
EncoderOK ==
  \A w \in Wheels : enc[w] = shaft[w] /\ shaft[w] \in -ShaftMax .. ShaftMax

NoDrift == \A w \in Wheels : Drift(w) = 0

PositionInv == SpeedInv /\ EncoderOK /\ NoDrift

LEMMA EncoderStep ==
  ASSUME ShaftMax < EncHalf, TypeOK, EncoderOK, [Next]_vars
  PROVE  EncoderOK'
<1>1. CASE \E v \in Wheels : Turn(v)
  <2>1. PICK v \in Wheels : Turn(v)
    BY <1>1
  <2>2. ShaftMax \in Nat /\ EncHalf \in Nat
    BY WheelDriveAssumption, ServoAssumption
  <2>3. enc[v] = shaft[v] /\ shaft[v] \in -ShaftMax .. ShaftMax
    BY DEF EncoderOK
  <2>4. /\ shaft[v] < ShaftMax => CountUp(enc[v]) = shaft[v] + 1
        /\ shaft[v] > -ShaftMax => CountDown(enc[v]) = shaft[v] - 1
    BY <2>2, <2>3 DEF CountUp, CountDown
  <2>5. /\ enc'[v] = shaft'[v] /\ shaft'[v] \in -ShaftMax .. ShaftMax
    BY <2>1, <2>2, <2>3, <2>4 DEF Turn, TypeOK
  <2>6. QED BY <2>1, <2>5 DEF Turn, TypeOK, EncoderOK
<1>2. CASE UNCHANGED <<enc, shaft>>
  BY <1>2 DEF EncoderOK
<1>3. UNCHANGED <<enc, shaft>> \/ \E v \in Wheels : Turn(v)
  BY DEF Next, Main, Isr, Begin, CheckDone, vars, SetLimits, SetLimMin,
         SetLimMax, SetSpeedMode, SetGoal, ClearSpeedMode, LoadPosition,
         StoreSetpoint, UpdatePosition, ReadCounter, LoadCounts, AddMotor,
         SubPrev, StoreCounts, StorePrev, UpdateDrive, PidLoad, PidStore,
         LoadSign, StoreDir, LoadDuty, StoreDuty, LoadWord, StoreWord,
         Access, LastAccess
<1>4. QED BY <1>1, <1>2, <1>3

(* While no wheel turns half the range of its counter, an interrupt adds   *)
(* to every position what the wheel turned, whatever the main thread was   *)
(* doing: an error that rover_stop made stays, and none is added.          *)
THEOREM TicksKeepDrift ==
  ASSUME ShaftMax < EncHalf
  PROVE  Spec => TickKeepsDrift
<1> DEFINE Kept == Isr => \A w \in Wheels :
                            servo'[w].counts - shaft[w] = Drift(w)
<1>1. Init => EncoderOK
  BY WheelDriveAssumption DEF Init, EncoderOK
<1>2. TypeOK /\ EncoderOK /\ [Next]_vars => EncoderOK'
  BY EncoderStep
<1>3. TypeOK /\ EncoderOK /\ [Next]_vars => [Kept]_vars
  <2> SUFFICES ASSUME TypeOK, EncoderOK, Isr, NEW w \in Wheels
               PROVE  servo'[w].counts - shaft[w] = Drift(w)
    OBVIOUS
  <2>1. PICK kick \in [Wheels -> Kicks] :
          servo' = [v \in Wheels |-> Servo_update(servo[v], enc[v], kick[v])]
    BY DEF Isr
  <2>2. servo[w] \in ServoState /\ enc[w] \in Int /\ kick[w] \in Kicks
    BY ServoAssumption DEF TypeOK
  <2>3. servo'[w].counts = servo[w].counts + (enc[w] - servo[w].prevCounts)
    BY <2>1, <2>2, UpdateFrame
  <2>4. servo[w].counts \in Int /\ servo[w].prevCounts \in Int
    BY <2>2 DEF ServoState
  <2>5. QED BY <2>2, <2>3, <2>4 DEF Drift, EncoderOK
<1>4. QED BY <1>1, <1>2, <1>3, TypeCorrect, PTL DEF Spec, TickKeepsDrift

(* In a program that never calls rover_stop, while no wheel turns half the *)
(* range of its counter, every interrupt reads every position exactly,     *)
(* wherever it interrupts the main thread.                                 *)
THEOREM PositionsRead ==
  ASSUME \A c \in Program : c.op # "stop", ShaftMax < EncHalf
  PROVE  Spec => TickReadsPosition
<1> DEFINE Exact == Isr => \A w \in Wheels : servo'[w].counts = shaft[w]
<1>1. Init => PositionInv
  <2>1. Init => SpeedInv
    BY InitSpeed
  <2>2. Init => EncoderOK /\ NoDrift
    BY WheelDriveAssumption DEF Init, EncoderOK, NoDrift, Drift, Servo_init
  <2>3. QED BY <2>1, <2>2 DEF PositionInv
<1>2. PositionInv /\ [Next]_vars => PositionInv'
  <2> SUFFICES ASSUME PositionInv, [Next]_vars PROVE PositionInv'
    OBVIOUS
  <2>1. SpeedInv /\ TypeOK /\ TypeInv /\ CallOK /\ EncoderOK /\ NoDrift
    BY DEF PositionInv, SpeedInv, TypeInv
  <2>2. SpeedInv'
    BY <2>1, TypeStep, CallStep, LimitStep DEF SpeedInv
  <2>3. EncoderOK'
    BY <2>1, EncoderStep
  <2>4. NoDrift'
    <3>1. ASSUME NEW w \in Wheels, Drift(w)' # Drift(w) PROVE FALSE
      <4>1. main.call.op = "stop" /\ main.pc \in UpdatePcs
        BY <2>1, <3>1, DriftStep
      <4>2. main.call \in Program
        BY <2>1, <4>1 DEF CallOK, UpdatePcs
      <4>3. QED BY <4>1, <4>2
    <3>2. QED BY <2>1, <3>1 DEF NoDrift
  <2>5. QED BY <2>2, <2>3, <2>4 DEF PositionInv
<1>3. PositionInv /\ [Next]_vars => [Exact]_vars
  <2> SUFFICES ASSUME PositionInv, Isr, NEW w \in Wheels
               PROVE  servo'[w].counts = shaft[w]
    OBVIOUS
  <2>1. PICK kick \in [Wheels -> Kicks] :
          servo' = [v \in Wheels |-> Servo_update(servo[v], enc[v], kick[v])]
    BY DEF Isr
  <2>2. servo[w] \in ServoState /\ enc[w] \in Int /\ kick[w] \in Kicks
    BY ServoAssumption DEF PositionInv, SpeedInv, TypeInv, TypeOK
  <2>3. servo'[w].counts = servo[w].counts + (enc[w] - servo[w].prevCounts)
    BY <2>1, <2>2, UpdateFrame
  <2>4. Drift(w) = 0 /\ enc[w] = shaft[w]
    BY DEF PositionInv, NoDrift, EncoderOK
  <2>5. servo[w].counts \in Int /\ servo[w].prevCounts \in Int
    BY <2>2 DEF ServoState
  <2>6. servo[w].counts = servo[w].prevCounts
    BY <2>4, <2>5 DEF Drift
  <2>7. servo[w].counts + (enc[w] - servo[w].prevCounts) = enc[w]
    BY <2>2, <2>5, <2>6
  <2>8. QED BY <2>3, <2>4, <2>7
<1>4. QED BY <1>1, <1>2, <1>3, PTL DEF Spec, TickReadsPosition
=============================================================================
