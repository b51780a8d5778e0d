------------------------- MODULE ImuCorrectionProofs -------------------------
(***************************************************************************)
(* Proofs about ImuCorrection for any sequence of samples, any thresholds  *)
(* and any delays: a fault stops the wheels for good, terrain is handled   *)
(* for the slope that was seen, and an alarm has waited for its time.      *)
(***************************************************************************)
EXTENDS ImuCorrection, TLAPS

(* After a fault main is on its way out of the loop.                       *)
Leaving == done /\ pc \in {"head", "exit", "over"}

FaultOK == flag.fault => Stopped /\ (pc = "fault" \/ Leaving)

(* A slide is braked against first; what main makes of it ends the loop.   *)
SlideOK ==
  flag.slide => \/ pc \in {"brake", "alarmed"}
                \/ Leaving /\ (~flag.stall => Stopped)

BrakeOK == pc = "alarmed" => Stopped

(* A suspicion is as old as its timer, and nothing spoke against it since. *)
TimingOK ==
  \A kind \in Kinds :
    /\ seen[kind] <= now
    /\ start[kind] # 0 => seen[kind] <= start[kind] /\ start[kind] <= now

IInv ==
  /\ TypeOK /\ FaultOK /\ SlideOK /\ BrakeOK /\ TimingOK
  /\ TerrainIsExpected /\ BackwardsOnlyToBrake
-----------------------------------------------------------------------------
(* Division by a positive number keeps what is between two multiples of it *)
(* between their quotients.                                                *)
LEMMA QuotientBounds ==
  ASSUME NEW n \in Int, NEW d \in Nat \ {0}, NEW hi \in Nat, 0 <= n, n <= hi * d
  PROVE  n \div d \in 0 .. hi
<1>1. PICK q \in Int : q = n \div d
  OBVIOUS
<1>2. q * d <= n /\ n < (q + 1) * d
  BY <1>1
<1>3. 0 <= q
  BY <1>2
<1>4. q <= hi
  BY <1>2
<1> QED
  BY <1>1, <1>3, <1>4

(* A speed for a slope that the terrain handler knows is no faster than    *)
(* the default one, and not backwards.                                     *)
LEMMA TerrainSpeedBounds ==
  ASSUME NEW m \in Slopes PROVE TerrainSpeed(m) \in 0 .. DEFAULT_MOTOR_SPEED
<1> DEFINE c == DEFAULT_MOTOR_SPEED - Slowest(m.tilt)
           n == DEFAULT_MOTOR_SPEED * Steps - c * m.step
<1>1. Steps \in Nat \ {0} /\ m.step \in 0 .. Steps - 1
  BY ImuAssumption DEF Slopes
<1>2. c \in {16, 32}
  BY DEF Slowest, DEFAULT_MOTOR_SPEED, TERRAIN_MODERATE_SPEED, TERRAIN_SLOW_SPEED
<1>3. c * m.step \in Int /\ 0 <= c * m.step /\ c * m.step <= 32 * Steps
  BY <1>1, <1>2
<1>4. n \in Int /\ 0 <= n /\ n <= DEFAULT_MOTOR_SPEED * Steps
  BY <1>1, <1>3 DEF DEFAULT_MOTOR_SPEED
<1>5. n \div Steps \in 0 .. DEFAULT_MOTOR_SPEED
  BY <1>1, <1>4, QuotientBounds DEF DEFAULT_MOTOR_SPEED
<1>6. TerrainSpeed(m) = n \div Steps
  BY <1>1, <1>2 DEF TerrainSpeed, Slowest, DEFAULT_MOTOR_SPEED,
     TERRAIN_MODERATE_SPEED, TERRAIN_SLOW_SPEED
<1> QED
  BY <1>5, <1>6

Speeds == -BRAKE_SPEED .. DEFAULT_MOTOR_SPEED

LEMMA SpeedsKnown ==
  {0, DEFAULT_MOTOR_SPEED, BRAKE_SPEED, -BRAKE_SPEED, TERRAIN_SLOW_SPEED,
   TERRAIN_MIN_SPEED} \cup 0 .. DEFAULT_MOTOR_SPEED \subseteq Speeds
BY DEF Speeds, DEFAULT_MOTOR_SPEED, BRAKE_SPEED, TERRAIN_SLOW_SPEED,
       TERRAIN_MIN_SPEED

LEMMA AllButOneType ==
  ASSUME TypeOK, NEW speed \in Speeds
  PROVE  AllButOne(speed) \in [Wheels -> Speeds]
BY DEF TypeOK, AllButOne, Speeds

LEMMA SidesType ==
  ASSUME NEW a \in Speeds, NEW b \in Speeds
  PROVE  Sides(a, b) \in [Wheels -> Speeds] /\ Halted \in [Wheels -> Speeds]
BY SpeedsKnown DEF Sides, Halted

(* Every action keeps the wheels' speeds among those the code knows.       *)
LEMMA DriveType == TypeOK /\ [Next]_vars => drive' \in [Wheels -> Speeds]
<1> SUFFICES ASSUME TypeOK, [Next]_vars PROVE drive' \in [Wheels -> Speeds]
  OBVIOUS
<1>1. drive \in [Wheels -> Speeds]
  BY DEF TypeOK, Speeds
<1>2. /\ Halted \in [Wheels -> Speeds]
      /\ Sides(DEFAULT_MOTOR_SPEED, DEFAULT_MOTOR_SPEED) \in [Wheels -> Speeds]
      /\ Sides(DEFAULT_MOTOR_SPEED, TERRAIN_MIN_SPEED) \in [Wheels -> Speeds]
      /\ Sides(TERRAIN_MIN_SPEED, DEFAULT_MOTOR_SPEED) \in [Wheels -> Speeds]
  BY SpeedsKnown, SidesType
<1>3. CASE Update
  <2>1. AllButOne(TERRAIN_SLOW_SPEED) \in [Wheels -> Speeds]
    BY SpeedsKnown, AllButOneType
  <2> QED
    BY <1>1, <1>2, <1>3, <2>1 DEF Update, Sample, BadTime, Failure
<1>4. CASE Terrain
  <2>1. map \in Slopes
    BY DEF TypeOK
  <2>2. TerrainSpeed(map) \in Speeds
    BY <2>1, TerrainSpeedBounds, SpeedsKnown
  <2>3. AllButOne(TerrainSpeed(map)) \in [Wheels -> Speeds]
    BY <2>2, AllButOneType
  <2>4. AllButOne(TERRAIN_MIN_SPEED) \in [Wheels -> Speeds]
    BY SpeedsKnown, AllButOneType
  <2>5. drive' \in {drive, Halted, AllButOne(TERRAIN_MIN_SPEED),
                    AllButOne(TerrainSpeed(map))}
    BY <1>4, <2>1 DEF Terrain, Slopes, Tilts
  <2> QED
    BY <1>1, <1>2, <2>3, <2>4, <2>5
<1>5. CASE Alarm("stall") \/ Alarm("slide")
  <2>1. /\ AllButOne(BRAKE_SPEED) \in [Wheels -> Speeds]
        /\ AllButOne(-BRAKE_SPEED) \in [Wheels -> Speeds]
    BY SpeedsKnown, AllButOneType
  <2>2. drive' \in {AllButOne(BRAKE_SPEED), AllButOne(-BRAKE_SPEED)}
    BY <1>5 DEF Alarm
  <2> QED
    BY <2>1, <2>2
<1>6. CASE Start \/ Fault \/ Brake \/ Alarmed \/ Exit
  BY <1>1, <1>2, <1>6
     DEF Start, Fault, Brake, Alarmed, Exit, simba_forward, simba_stop
<1>7. CASE Apply
  BY <1>1, <1>2, <1>7 DEF Apply, TypeOK, Headings
<1>8. CASE \/ InitFails \/ Head \/ FirstCall \/ Watch("stall") \/ Watch("slide")
           \/ Wait \/ sigint_handler \/ UNCHANGED vars
  BY <1>1, <1>8 DEF InitFails, Head, FirstCall, Watch, Wait, sigint_handler, vars
<1> QED
  BY <1>3, <1>4, <1>5, <1>6, <1>7, <1>8 DEF Next, main

LEMMA TypePreserved == TypeOK /\ [Next]_vars => TypeOK'
<1> SUFFICES ASSUME TypeOK, [Next]_vars PROVE TypeOK'
  OBVIOUS
<1>1. drive' \in [Wheels -> -BRAKE_SPEED .. DEFAULT_MOTOR_SPEED]
  BY DriveType DEF Speeds
<1> USE DEF TypeOK
<1>2. CASE Update
  <2>1. flag' \in [Flags -> BOOLEAN]
    BY <1>2 DEF Update, Sample, BadTime, Failure, Raised, Cleared, Flags, Kinds
  <2>2. map' \in Slopes /\ mag' \in Magnitudes /\ heading' \in Headings
    BY <1>2 DEF Update, Sample, BadTime, Failure, Sensed
  <2>3. /\ UNCHANGED <<done, now, active, start, first, seen>>
        /\ pc' \in {"terrain", "motion", "fault"}
    BY <1>2 DEF Update, Timing
  <2> QED
    BY <1>1, <2>1, <2>2, <2>3
<1>3. CASE Terrain
  <2>1. flag' \in [Flags -> BOOLEAN]
    BY <1>3 DEF Terrain, Flags, Kinds
  <2> QED
    BY <1>1, <1>3, <2>1 DEF Terrain, Sensed, Timing
<1>4. ASSUME NEW kind \in Kinds, Watch(kind) PROVE TypeOK'
  <2>1. start' \in [Kinds -> Nat]
    BY <1>4 DEF Watch, Dismissed
  <2>2. seen' \in [Kinds -> Nat]
    BY <1>4 DEF Watch
  <2> QED
    BY <1>1, <1>4, <2>1, <2>2 DEF Watch, Sensed
<1>5. ASSUME NEW kind \in Kinds, Alarm(kind) PROVE TypeOK'
  <2>1. flag' \in [Flags -> BOOLEAN]
    BY <1>5 DEF Alarm, Flags, Kinds
  <2>2. start' \in [Kinds -> Nat] /\ seen' \in [Kinds -> Nat]
    BY <1>5 DEF Alarm
  <2> QED
    BY <1>1, <1>5, <2>1, <2>2 DEF Alarm, Sensed
<1>6. CASE Brake \/ Wait
  <2>1. now' \in Nat
    BY <1>6, ImuAssumption DEF Brake, Wait
  <2> QED
    BY <1>1, <1>6, <2>1 DEF Brake, Wait, Sensed, Timing
<1>7. CASE \/ Start \/ InitFails \/ Head \/ Fault \/ FirstCall \/ Alarmed \/ Apply
           \/ Exit \/ sigint_handler
  BY <1>1, <1>7 DEF Start, InitFails, Head, Fault, FirstCall, Alarmed, Apply, Exit,
     sigint_handler, simba_forward, simba_stop, Sensed, Timing
<1>8. CASE UNCHANGED vars
  BY <1>8 DEF vars, Sensed, Timing
<1> QED
  BY <1>2, <1>3, <1>4, <1>5, <1>6, <1>7, <1>8 DEF Next, main, Kinds
-----------------------------------------------------------------------------
LEMMA InitOK == Init => IInv
<1> SUFFICES ASSUME Init PROVE IInv
  OBVIOUS
<1>1. TypeOK
  <2>1. flag \in [Flags -> BOOLEAN]
    BY DEF Init
  <2>2. map \in Slopes
    BY ImuAssumption DEF Init, Slopes, Tilts
  <2>3. drive \in [Wheels -> -BRAKE_SPEED .. DEFAULT_MOTOR_SPEED]
    BY SpeedsKnown, SidesType DEF Init, Speeds
  <2> QED
    BY <2>1, <2>2, <2>3 DEF Init, TypeOK, Magnitudes, Headings
<1>2. FaultOK /\ SlideOK /\ BrakeOK /\ TerrainIsExpected
  BY DEF Init, FaultOK, SlideOK, BrakeOK, TerrainIsExpected, Flags, Kinds
<1>3. TimingOK
  BY DEF Init, TimingOK
<1>4. BackwardsOnlyToBrake
  BY DEF Init, BackwardsOnlyToBrake, Halted
<1> QED
  BY <1>1, <1>2, <1>3, <1>4 DEF IInv

(* A fault raised by a sample stops the wheels where it is raised; the     *)
(* terrain handler raises none, since it is called for the slopes it knows.*)
LEMMA FaultPreserved == IInv /\ [Next]_vars => FaultOK'
<1> SUFFICES ASSUME IInv, [Next]_vars PROVE FaultOK'
  OBVIOUS
<1> USE DEF FaultOK, Leaving
<1>0. TypeOK /\ FaultOK /\ TerrainIsExpected
  BY DEF IInv
<1>1. CASE Update
  <2>1. ~flag.fault
    BY <1>0, <1>1 DEF Update
  <2>2. CASE Sample \/ BadTime
    <3>1. flag'.fault = flag.fault
      BY <1>0, <2>2 DEF TypeOK, Flags, Kinds, Sample, BadTime, Raised, Cleared
    <3> QED
      BY <2>1, <3>1
  <2>3. CASE Failure /\ pc' = "fault"
    BY <2>3 DEF Failure, Stopped, Halted
  <2> QED
    BY <1>1, <2>2, <2>3 DEF Update
<1>2. CASE Terrain
  <2>1. ~flag.fault /\ map.tilt \notin {"NONE", "HIGH"}
    BY <1>0, <1>2 DEF Terrain, TerrainIsExpected
  <2>2. flag'.fault = flag.fault
    BY <1>0, <1>2, <2>1 DEF Terrain, TypeOK, Flags, Kinds
  <2> QED
    BY <2>1, <2>2
<1>3. ASSUME NEW kind \in Kinds, Alarm(kind) PROVE FaultOK'
  <2>1. ~flag.fault
    BY <1>0, <1>3 DEF Alarm
  <2>2. flag'.fault = flag.fault
    BY <1>0, <1>3 DEF Alarm, TypeOK, Flags, Kinds
  <2> QED
    BY <2>1, <2>2
<1>4. CASE Start \/ InitFails \/ Head \/ Fault \/ Exit \/ sigint_handler
  BY <1>0, <1>4 DEF Start, InitFails, Head, Fault, Exit, sigint_handler, simba_forward,
     simba_stop, Stopped, Halted
<1>5. CASE FirstCall \/ Watch("stall") \/ Watch("slide")
  BY <1>0, <1>5 DEF FirstCall, Watch
<1>6. CASE Brake \/ Alarmed \/ Apply \/ Wait
  BY <1>0, <1>6 DEF Brake, Alarmed, Apply, Wait
<1>7. CASE UNCHANGED vars
  BY <1>0, <1>7 DEF vars, Stopped, Halted
<1> QED
  BY <1>1, <1>2, <1>3, <1>4, <1>5, <1>6, <1>7 DEF Next, main, Kinds

(* Once a slide is recorded main brakes, judges it, and leaves the loop.   *)
LEMMA SlidePreserved == IInv /\ [Next]_vars => SlideOK' /\ BrakeOK'
<1> SUFFICES ASSUME IInv, [Next]_vars PROVE SlideOK' /\ BrakeOK'
  OBVIOUS
<1> USE DEF SlideOK, BrakeOK, Leaving
<1>0. TypeOK /\ SlideOK /\ BrakeOK
  BY DEF IInv
<1>1. CASE Update
  <2>1. ~flag.slide
    BY <1>0, <1>1 DEF Update
  <2>2. flag'.slide = flag.slide
    BY <1>0, <1>1 DEF TypeOK, Flags, Kinds, Update, Sample, BadTime, Failure, Raised, Cleared
  <2>3. pc' \in {"terrain", "motion", "fault"}
    BY <1>1 DEF Update
  <2> QED
    BY <2>1, <2>2, <2>3
<1>2. CASE Terrain
  <2>1. ~flag.slide
    BY <1>0, <1>2 DEF Terrain
  <2>2. flag'.slide = flag.slide
    BY <1>0, <1>2 DEF Terrain, TypeOK, Flags, Kinds
  <2> QED
    BY <1>2, <2>1, <2>2 DEF Terrain
<1>3. CASE Alarm("stall") \/ Alarm("slide")
  BY <1>3 DEF Alarm
<1>4. CASE Brake
  BY <1>0, <1>4 DEF Brake, Stopped, Halted
<1>5. CASE Alarmed
  BY <1>0, <1>5 DEF Alarmed, Stopped, Halted
<1>6. CASE Start \/ InitFails \/ Head \/ Fault \/ Exit \/ sigint_handler
  BY <1>0, <1>6 DEF Start, InitFails, Head, Fault, Exit, sigint_handler, simba_forward,
     simba_stop, Stopped, Halted
<1>7. CASE FirstCall \/ Watch("stall") \/ Watch("slide") \/ Apply \/ Wait
  BY <1>0, <1>7 DEF FirstCall, Watch, Apply, Wait
<1>8. CASE UNCHANGED vars
  BY <1>0, <1>8 DEF vars, Stopped, Halted
<1> QED
  BY <1>1, <1>2, <1>3, <1>4, <1>5, <1>6, <1>7, <1>8 DEF Next, main

(* A timer starts at the time it is looked at, and time does not run back. *)
LEMMA TimingPreserved == IInv /\ [Next]_vars => TimingOK'
<1> SUFFICES ASSUME IInv, [Next]_vars PROVE TimingOK'
  OBVIOUS
<1> USE DEF TimingOK
<1>0. TypeOK /\ TimingOK
  BY DEF IInv
<1>1. ASSUME NEW kind \in Kinds, Watch(kind) \/ Alarm(kind) PROVE TimingOK'
  <2>1. /\ now \in Nat /\ now' = now
        /\ start \in [Kinds -> Nat] /\ seen \in [Kinds -> Nat]
    BY <1>0, <1>1 DEF TypeOK, Watch, Alarm
  <2>2. /\ start' \in {[start EXCEPT ![kind] = 0], [start EXCEPT ![kind] = now], start}
        /\ \/ seen' = [seen EXCEPT ![kind] = now] /\ start' = [start EXCEPT ![kind] = 0]
           \/ seen' = seen /\ start' \in {[start EXCEPT ![kind] = now], start}
    BY <1>1, <2>1 DEF Watch, Alarm, Dismissed
  <2>3. CASE start' = [start EXCEPT ![kind] = 0]
    BY <1>0, <2>1, <2>2, <2>3
  <2>4. CASE seen' = seen
    BY <1>0, <2>1, <2>2, <2>4
  <2> QED
    BY <2>2, <2>3, <2>4
<1>2. CASE Brake \/ Wait
  <2>1. now' \in Nat /\ now <= now'
    BY <1>0, <1>2, ImuAssumption DEF Brake, Wait, TypeOK
  <2>2. start' = start /\ seen' = seen
    BY <1>2 DEF Brake, Wait, Timing
  <2> QED
    BY <1>0, <2>1, <2>2 DEF TypeOK
<1>3. CASE \/ Start \/ InitFails \/ Head \/ Update \/ Fault \/ Terrain
           \/ FirstCall \/ Alarmed \/ Apply \/ Exit
           \/ sigint_handler \/ UNCHANGED vars
  <2>1. now' = now /\ start' = start /\ seen' = seen
    BY <1>3 DEF Start, InitFails, Head, Update, Fault, Terrain, FirstCall, Alarmed, Apply,
       Exit, sigint_handler, vars, Timing
  <2> QED
    BY <1>0, <2>1
<1> QED
  BY <1>1, <1>2, <1>3 DEF Next, main, Kinds

(* The terrain handler is entered with the flags of the sample that the    *)
(* slope is of: they are cleared with every sample.                        *)
LEMMA TerrainPreserved == IInv /\ [Next]_vars => TerrainIsExpected'
<1> SUFFICES ASSUME IInv, [Next]_vars PROVE TerrainIsExpected'
  OBVIOUS
<1>0. TypeOK /\ TerrainIsExpected
  BY DEF IInv
<1>1. CASE Update
  <2>1. CASE Sample \/ BadTime
    <3>1. ~Cleared.warning /\ ~Cleared.critical
      BY <1>0 DEF TypeOK, Flags, Kinds, Cleared
    <3>2. flag' = Cleared \/ map'.tilt \in {"LOW", "MODERATE"}
      BY <2>1 DEF Sample, BadTime
    <3> QED
      BY <1>1, <3>1, <3>2 DEF Update, Failure, TerrainIsExpected
  <2> QED
    BY <1>1, <2>1 DEF Update, TerrainIsExpected
<1>2. CASE sigint_handler \/ UNCHANGED vars
  BY <1>0, <1>2 DEF sigint_handler, vars, Sensed, TerrainIsExpected
<1>3. CASE Start \/ InitFails \/ Head \/ Fault \/ Terrain \/ Brake \/ Alarmed \/ Apply \/ Wait \/ Exit
  BY <1>3 DEF Start, InitFails, Head, Fault, Terrain, Brake, Alarmed, Apply, Wait, Exit,
     TerrainIsExpected
<1>4. CASE FirstCall \/ Watch("stall") \/ Watch("slide") \/ Alarm("stall") \/ Alarm("slide")
  BY <1>4 DEF FirstCall, Watch, Alarm, TerrainIsExpected
<1> QED
  BY <1>1, <1>2, <1>3, <1>4 DEF Next, main

(* The speeds set outside of braking are none of a wheel that turns back.  *)
LEMMA BackwardsPreserved == IInv /\ [Next]_vars => BackwardsOnlyToBrake'
<1> SUFFICES ASSUME IInv, [Next]_vars PROVE BackwardsOnlyToBrake'
  OBVIOUS
<1> DEFINE Forwards == \A w \in Wheels : drive[w] >= 0
<1>0. TypeOK /\ TypeOK' /\ BrakeOK /\ BackwardsOnlyToBrake
  BY TypePreserved DEF IInv
<1>1. /\ drive \in [Wheels -> Int] /\ drive' \in [Wheels -> Int]
  BY <1>0 DEF TypeOK, BRAKE_SPEED, DEFAULT_MOTOR_SPEED
<1>2. SUFFICES ASSUME pc' # "brake" PROVE Forwards'
  BY <1>1 DEF BackwardsOnlyToBrake
<1>3. pc # "brake" => Forwards
  BY <1>0, <1>1 DEF BackwardsOnlyToBrake
<1>4. ASSUME NEW speed \in Nat, pc # "brake", drive' = AllButOne(speed) PROVE Forwards'
  BY <1>1, <1>3, <1>4 DEF AllButOne
<1>5. ASSUME NEW a \in Nat, NEW b \in Nat, drive' = Sides(a, b) PROVE Forwards'
  BY <1>5 DEF Sides
<1>6. ASSUME drive' = Halted PROVE Forwards'
  BY <1>6 DEF Halted
<1>7. ASSUME drive' = drive, pc # "brake" PROVE Forwards'
  BY <1>3, <1>7
<1>8. {DEFAULT_MOTOR_SPEED, TERRAIN_SLOW_SPEED, TERRAIN_MIN_SPEED} \subseteq Nat
  BY DEF DEFAULT_MOTOR_SPEED, TERRAIN_SLOW_SPEED, TERRAIN_MIN_SPEED
<1>9. CASE Update
  <2>1. drive' \in {drive, Halted, AllButOne(TERRAIN_SLOW_SPEED)} /\ pc # "brake"
    BY <1>9 DEF Update, Sample, BadTime, Failure
  <2> QED
    BY <2>1, <1>4, <1>6, <1>7, <1>8
<1>10. CASE Terrain
  <2>1. map \in Slopes
    BY <1>0 DEF TypeOK
  <2>2. TerrainSpeed(map) \in Nat
    BY <2>1, TerrainSpeedBounds DEF DEFAULT_MOTOR_SPEED
  <2>3. drive' \in {drive, Halted, AllButOne(TERRAIN_MIN_SPEED),
                    AllButOne(TerrainSpeed(map))} /\ pc # "brake"
    BY <1>10, <2>1 DEF Terrain, Slopes, Tilts
  <2> QED
    BY <2>2, <2>3, <1>4, <1>6, <1>7, <1>8
<1>11. CASE Start \/ Fault \/ Brake \/ Alarmed \/ Exit
  <2>1. \/ drive' \in {Halted, Sides(DEFAULT_MOTOR_SPEED, DEFAULT_MOTOR_SPEED)}
        \/ drive' = drive /\ pc # "brake"
    BY <1>11 DEF Start, Fault, Brake, Alarmed, Exit, simba_forward, simba_stop
  <2> QED
    BY <2>1, <1>5, <1>6, <1>7, <1>8
<1>12. CASE Apply
  <2>1. \/ drive' \in {Sides(DEFAULT_MOTOR_SPEED, DEFAULT_MOTOR_SPEED),
                       Sides(DEFAULT_MOTOR_SPEED, TERRAIN_MIN_SPEED),
                       Sides(TERRAIN_MIN_SPEED, DEFAULT_MOTOR_SPEED)}
        \/ drive' = drive /\ pc # "brake"
    BY <1>0, <1>12 DEF Apply, TypeOK, Headings
  <2> QED
    BY <2>1, <1>5, <1>7, <1>8
<1>13. CASE Alarm("stall") \/ Alarm("slide")
  BY <1>2, <1>13 DEF Alarm
<1>14. CASE \/ InitFails \/ Head \/ FirstCall \/ Watch("stall") \/ Watch("slide")
            \/ Wait \/ sigint_handler \/ UNCHANGED vars
  <2>1. drive' = drive /\ pc # "brake"
    BY <1>2, <1>14 DEF InitFails, Head, FirstCall, Watch, Wait, sigint_handler, vars
  <2> QED
    BY <2>1, <1>7
<1> QED
  BY <1>9, <1>10, <1>11, <1>12, <1>13, <1>14 DEF Next, main
-----------------------------------------------------------------------------
(* The whole invariant, for every sequence of samples and every timing.    *)
THEOREM InvariantHolds == Spec => []IInv
<1>1. Init => IInv
  BY InitOK
<1>2. IInv /\ [Next]_vars => IInv'
  BY TypePreserved, FaultPreserved, SlidePreserved, TimingPreserved,
     TerrainPreserved, BackwardsPreserved DEF IInv
<1> QED
  BY <1>1, <1>2, PTL DEF Spec

(* Types: no wheel's speed leaves the range between full braking and the   *)
(* default speed, whatever the slopes.                                     *)
THEOREM TypeCorrect == Spec => []TypeOK
<1>1. IInv => TypeOK
  BY DEF IInv
<1> QED
  BY <1>1, InvariantHolds, PTL

(* After a fault no call of the rest of the loop drives a wheel again, nor *)
(* after a slide, unless the rover had stalled before.                     *)
THEOREM HaltsLast == Spec => []HaltStays
<1>1. IInv => HaltStays
  BY DEF IInv, FaultOK, SlideOK, BrakeOK, HaltStays, Leaving
<1> QED
  BY <1>1, InvariantHolds, PTL

(* The terrain handler looks at the slope that its flags are of.           *)
THEOREM TerrainExpected == Spec => []TerrainIsExpected
<1>1. IInv => TerrainIsExpected
  BY DEF IInv
<1> QED
  BY <1>1, InvariantHolds, PTL

(* Wheels turn backwards while the loop brakes and at no other time.       *)
THEOREM BackwardsBrakes == Spec => []BackwardsOnlyToBrake
<1>1. IInv => BackwardsOnlyToBrake
  BY DEF IInv
<1> QED
  BY <1>1, InvariantHolds, PTL

(* No alarm comes before its time has passed since the last sample that    *)
(* spoke against it, however long the turns of the loop take.              *)
THEOREM AlarmsAreLate == Spec => AlarmsWait
<1>1. ASSUME IInv, NEW kind \in Kinds, Alarm(kind) PROVE now - seen[kind] > Limit(kind)
  <2>1. /\ now \in Nat /\ start[kind] \in Nat /\ seen[kind] \in Nat
        /\ Limit(kind) \in Nat
    BY <1>1, ImuAssumption DEF IInv, TypeOK, Limit
  <2>2. seen[kind] <= start[kind]
    BY <1>1 DEF IInv, TimingOK, Alarm
  <2>3. now - start[kind] > Limit(kind)
    BY <1>1 DEF Alarm
  <2> QED
    BY <2>1, <2>2, <2>3
<1>2. IInv => \A kind \in Kinds : Alarm(kind) => now - seen[kind] > Limit(kind)
  BY <1>1
<1> QED
  BY <1>2, InvariantHolds, PTL DEF AlarmsWait
=============================================================================
