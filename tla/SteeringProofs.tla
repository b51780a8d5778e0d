---------------------------- MODULE SteeringProofs ----------------------------
(***************************************************************************)
(* Proofs about Steering for motors with any stops and any lags: the       *)
(* motors are calibrated one at a time, and the targets of a command that  *)
(* was carried out belong together.                                        *)
(***************************************************************************)
EXTENDS Steering, TLAPS

MotorType ==
  [state : MotorState, left_pos : Int, right_pos : Int, center_pos : Int,
   target : Int, drive : {-1, 0, 1}]

CalType ==
  [motor : [Motors -> MotorType], pos : [0 .. BufSize - 1 -> Int],
   pos_index : 0 .. BufSize - 1, spinup : Nat,
   rover_state : Motors \cup {Nobody, Everybody}]

(* The order of rover_calibrate's stages.                                  *)
Rank(s) == CASE s = Nobody -> 0 [] s = "FR" -> 1 [] s = "RR" -> 2
             [] s = "FL" -> 3 [] s = "RL" -> 4 [] s = Everybody -> 5

(* Whose turn is past is ready, whose is to come waits, and nobody waits   *)
(* whose turn it is.                                                       *)
Ordered(c) ==
  \A m \in Motors :
    /\ Rank(m) < Rank(c.rover_state) => c.motor[m].state = "READY"
    /\ Rank(c.rover_state) < Rank(m) <=> c.motor[m].state = "WAITING"

Centered(c, m) == c.motor[m].state \in {"CENTER", "READY"}

(* The centre is worked out when both stops are known.                     *)
CentersOK(c) == \A m \in Motors : ~Centered(c, m) => c.motor[m].center_pos = 0

(* An early command apart, main gives none before the calibration is over. *)
EarlyOK ==
  \/ main.early \/ cal.rover_state = Everybody
  \/ main.pc = "idle" /\ main.command = rover_steer_forward

(* The motors whose targets the command has assigned.                      *)
Assigned(m) ==
  main.pc = "idle" \/ \E j \in 1 .. 4 : j < main.i /\ m = main.command.order[j]

Agrees(m) ==
  LET center == cal.motor[m].center_pos
      offset == main.command.offset[m]
  IN  \/ cal.motor[m].target = center + offset
      \/ main.early /\ cal.motor[m].target \in {center, offset}

TargetsOK ==
  \A m \in Motors : cal.motor[m].state = "READY" /\ Assigned(m) => Agrees(m)

(* What is loaded and not yet stored: the centre may since have come up.   *)
RegOK ==
  main.pc = "store" =>
    \/ main.reg = cal.motor[Subject].center_pos + main.command.offset[Subject]
    \/ main.early /\ main.reg = main.command.offset[Subject]

IInv ==
  /\ TypeOK /\ Ordered(cal) /\ CentersOK(cal)
  /\ EarlyOK /\ TargetsOK /\ RegOK
-----------------------------------------------------------------------------
LEMMA MotorsFour == Motors = {"FR", "RR", "FL", "RL"}
BY DEF Motors

(* The index of the ring comes round.                                      *)
LEMMA SampleType ==
  ASSUME NEW c \in CalType, NEW p \in Int
  PROVE  /\ Sample(c, p) \in CalType
         /\ Sample(c, p).motor = c.motor
         /\ Sample(c, p).rover_state = c.rover_state
         /\ Sample(c, p).spinup = c.spinup
         /\ Velocity(c, p) \in Int
<1>1. BufSize \in Nat /\ BufSize > 2
  BY SteeringAssumption
<1>2. /\ c.pos \in [0 .. BufSize - 1 -> Int] /\ c.pos_index \in 0 .. BufSize - 1
      /\ c.motor \in [Motors -> MotorType] /\ c.spinup \in Nat
      /\ c.rover_state \in Motors \cup {Nobody, Everybody}
  BY DEF CalType
<1>3. /\ (c.pos_index + 1) % BufSize \in 0 .. BufSize - 1
      /\ (c.pos_index + 2) % BufSize \in 0 .. BufSize - 1
  BY <1>1, <1>2
<1>4. Sample(c, p) \in CalType
  BY <1>1, <1>2, <1>3 DEF Sample, CalType
<1>5. /\ Sample(c, p).motor = c.motor
      /\ Sample(c, p).rover_state = c.rover_state
      /\ Sample(c, p).spinup = c.spinup
  BY DEF Sample, CalType
<1>6. Velocity(c, p) \in Int
  <2>1. PICK k \in 0 .. BufSize - 1 : k = (c.pos_index + 2) % BufSize
    BY <1>3
  <2>2. c.pos[k] \in Int
    BY <1>2
  <2> QED
    BY <2>1, <2>2 DEF Velocity
<1> QED
  BY <1>4, <1>5, <1>6

(* To give one motor another record changes nothing else.                  *)
LEMMA SetMotor ==
  ASSUME NEW c \in CalType, NEW m \in Motors, NEW r \in MotorType,
         NEW d, d = [c EXCEPT !.motor[m] = r]
  PROVE  /\ d \in CalType /\ d.motor[m] = r
         /\ \A n \in Motors \ {m} : d.motor[n] = c.motor[n]
         /\ d.rover_state = c.rover_state /\ d.spinup = c.spinup
         /\ d.pos = c.pos /\ d.pos_index = c.pos_index
<1>1. d \in CalType
  BY DEF CalType
<1>2. d.motor = [c.motor EXCEPT ![m] = r] /\ c.motor \in [Motors -> MotorType]
  BY DEF CalType
<1>3. /\ d.rover_state = c.rover_state /\ d.spinup = c.spinup
      /\ d.pos = c.pos /\ d.pos_index = c.pos_index
  BY DEF CalType
<1> QED
  BY <1>1, <1>2, <1>3

LEMMA SetSpinup ==
  ASSUME NEW c \in CalType, NEW k \in Nat, NEW d, d = [c EXCEPT !.spinup = k]
  PROVE  /\ d \in CalType /\ d.motor = c.motor /\ d.rover_state = c.rover_state
         /\ d.spinup = k /\ d.pos = c.pos /\ d.pos_index = c.pos_index
BY DEF CalType

(* What one call of handle_state may do to the motor it is for.            *)
Handled(r, q) ==
  /\ q \in MotorType
  /\ q.state = "WAITING" <=> r.state = "WAITING"
  /\ r.state = "READY" =>
       q.state = "READY" /\ q.target = r.target
  /\ r.state # "READY" /\ q.state = "READY" => q.target = q.center_pos
  /\ r.state \in {"CENTER", "READY"} =>
       q.state \in {"CENTER", "READY"} /\ q.center_pos = r.center_pos
  /\ q.state \notin {"CENTER", "READY"} => q.center_pos = r.center_pos

LEMMA HandleState ==
  ASSUME NEW c \in CalType, NEW m \in Motors, NEW p \in Int,
         NEW d, d = handle_state(c, m, p)
  PROVE  /\ d \in CalType /\ d.rover_state = c.rover_state
         /\ \A n \in Motors \ {m} : d.motor[n] = c.motor[n]
         /\ Handled(c.motor[m], d.motor[m])
<1>0. PICK s : s = Sample(c, p)
  OBVIOUS
<1>1. s.motor = c.motor /\ s.rover_state = c.rover_state /\ s.spinup = c.spinup
  BY <1>0, SampleType
<1>8. s \in CalType
  BY <1>0, SampleType
<1>2. PICK r \in MotorType : r = c.motor[m]
  BY DEF CalType
<1>3. CASE r.state = "WAITING"
  <2>1. d = c
    BY <1>2, <1>3 DEF handle_state
  <2> QED
    BY <1>2, <1>3, <2>1 DEF Handled
<1>4. CASE r.state = "LEFT"
  <2>1. PICK q : q = [r EXCEPT !.drive = 1]
    OBVIOUS
  <2>2. PICK q2 : q2 = [q EXCEPT !.left_pos = p, !.state = "RIGHT"]
    OBVIOUS
  <2>3. q \in MotorType /\ q2 \in MotorType
    BY <1>2, <2>1, <2>2 DEF MotorType, MotorState
  <2>4. PICK e : e = [s EXCEPT !.motor[m] = q]
    OBVIOUS
  <2>5. PICK e2 : e2 = [e EXCEPT !.motor[m] = q2]
    OBVIOUS
  <2>6. /\ e \in CalType /\ e.motor[m] = q /\ e.rover_state = c.rover_state
        /\ e.spinup = c.spinup
        /\ \A n \in Motors \ {m} : e.motor[n] = c.motor[n]
    <3>1. e \in CalType
      BY <1>8, <2>3, <2>4, SetMotor
    <3>2. e.motor[m] = q
      <4>1. s.motor \in [Motors -> MotorType]
        BY <1>8 DEF CalType
      <4>2. e.motor = [s.motor EXCEPT ![m] = q]
        BY <1>8, <2>4 DEF CalType
      <4> QED
        BY <4>1, <4>2
    <3>3. e.spinup = s.spinup
      BY <1>8, <2>3, <2>4, SetMotor
    <3>4. e.rover_state = s.rover_state
      BY <1>8, <2>3, <2>4, SetMotor
    <3>5. \A n \in Motors \ {m} : e.motor[n] = s.motor[n]
      BY <1>8, <2>3, <2>4, SetMotor
    <3> QED
      BY <1>1, <3>1, <3>2, <3>3, <3>4, <3>5
  <2>7. /\ e2 \in CalType /\ e2.motor[m] = q2 /\ e2.rover_state = c.rover_state
        /\ \A n \in Motors \ {m} : e2.motor[n] = c.motor[n]
    BY <2>3, <2>5, <2>6, SetMotor
  <2>8. \/ d = e \/ d = [e2 EXCEPT !.spinup = SpinupRight]
        \/ e.spinup >= 1 /\ d = [e EXCEPT !.spinup = e.spinup - 1]
        \/ d = [e EXCEPT !.spinup = e.spinup]
    <3>1. e = [s EXCEPT !.motor[m].drive = 1]
      BY <1>1, <1>2, <2>1, <2>4
    <3>2. [e EXCEPT !.motor[m].left_pos = p, !.motor[m].state = "RIGHT",
                    !.spinup = SpinupRight]
            = [e2 EXCEPT !.spinup = SpinupRight]
      <4>1. q2 = [e.motor[m] EXCEPT !.left_pos = p, !.state = "RIGHT"]
        BY <2>2, <2>6
      <4>2. e2 = [e EXCEPT !.motor[m] = [e.motor[m] EXCEPT !.left_pos = p, !.state = "RIGHT"]]
        BY <4>1, <2>5
      <4> QED
        BY <4>2
    <3>3. d = SearchLeft(c, m, p)
      BY <1>2, <1>4 DEF handle_state
    <3> QED
      BY <1>0, <1>1, <2>6, <3>1, <3>2, <3>3 DEF SearchLeft
  <2>9. Handled(r, q) /\ Handled(r, q2)
    BY <1>2, <1>4, <2>1, <2>2, <2>3 DEF Handled, MotorType
  <2>10. SpinupRight \in Nat /\ e.spinup \in Nat /\ (e.spinup >= 1 => e.spinup - 1 \in Nat)
    <3>1. SpinupRight \in Nat
      BY SteeringAssumption
    <3> QED
      BY <2>6, <3>1 DEF CalType
  <2> QED
    BY <1>2, <2>6, <2>7, <2>8, <2>9, <2>10, SetSpinup
<1>5. CASE r.state = "RIGHT"
  <2>1. PICK half \in Int : half = (r.left_pos + p) \div 2
    BY <1>2 DEF MotorType
  <2>2. PICK q : q = [r EXCEPT !.drive = -1]
    OBVIOUS
  <2>3. PICK q2 : q2 = [q EXCEPT !.drive = 0, !.right_pos = p, !.state = "CENTER",
                                 !.center_pos = half]
    OBVIOUS
  <2>4. q \in MotorType /\ q2 \in MotorType
    BY <1>2, <2>2, <2>3 DEF MotorType, MotorState
  <2>5. PICK e : e = [s EXCEPT !.motor[m] = q]
    OBVIOUS
  <2>6. PICK e2 : e2 = [e EXCEPT !.motor[m] = q2]
    OBVIOUS
  <2>7. /\ e \in CalType /\ e.motor[m] = q /\ e.rover_state = c.rover_state
        /\ e.spinup = c.spinup
        /\ \A n \in Motors \ {m} : e.motor[n] = c.motor[n]
    <3>1. e \in CalType
      BY <1>8, <2>4, <2>5, SetMotor
    <3>2. e.motor[m] = q
      <4>1. s.motor \in [Motors -> MotorType]
        BY <1>8 DEF CalType
      <4>2. e.motor = [s.motor EXCEPT ![m] = q]
        BY <1>8, <2>5 DEF CalType
      <4> QED
        BY <4>1, <4>2
    <3>3. e.spinup = s.spinup
      BY <1>8, <2>4, <2>5, SetMotor
    <3>4. e.rover_state = s.rover_state
      BY <1>8, <2>4, <2>5, SetMotor
    <3>5. \A n \in Motors \ {m} : e.motor[n] = s.motor[n]
      BY <1>8, <2>4, <2>5, SetMotor
    <3> QED
      BY <1>1, <3>1, <3>2, <3>3, <3>4, <3>5
  <2>8. /\ e2 \in CalType /\ e2.motor[m] = q2 /\ e2.rover_state = c.rover_state
        /\ \A n \in Motors \ {m} : e2.motor[n] = c.motor[n]
    BY <2>4, <2>6, <2>7, SetMotor
  <2>9. \/ d = e \/ d = e2
        \/ e.spinup >= 1 /\ d = [e EXCEPT !.spinup = e.spinup - 1]
        \/ d = [e EXCEPT !.spinup = e.spinup]
    <3>1. e = [s EXCEPT !.motor[m].drive = -1]
      BY <1>1, <1>2, <2>2, <2>5
    <3>2. [e EXCEPT !.motor[m].drive = 0, !.motor[m].right_pos = p,
                    !.motor[m].state = "CENTER", !.motor[m].center_pos = half] = e2
      <4>1. q2 = [e.motor[m] EXCEPT !.drive = 0, !.right_pos = p, !.state = "CENTER",
                                    !.center_pos = half]
        BY <2>3, <2>7
      <4> QED
        BY <4>1, <2>6
    <3>3. d = SearchRight(c, m, p)
      BY <1>2, <1>5 DEF handle_state
    <3> QED
      BY <1>0, <1>1, <1>2, <2>1, <2>7, <3>1, <3>2, <3>3 DEF SearchRight
  <2>10. Handled(r, q) /\ Handled(r, q2)
    BY <1>2, <1>5, <2>2, <2>3, <2>4 DEF Handled, MotorType
  <2>11. e.spinup \in Nat /\ (e.spinup >= 1 => e.spinup - 1 \in Nat)
    BY <2>7 DEF CalType
  <2> QED
    BY <1>2, <2>7, <2>8, <2>9, <2>10, <2>11, SetSpinup
<1>6. CASE r.state = "CENTER"
  <2>0. PICK goal \in Int : goal = c.motor[m].center_pos
    BY <1>2 DEF MotorType
  <2>4. PICK q2 : q2 = [c.motor[m] EXCEPT !.drive = 0, !.target = goal, !.state = "READY"]
    OBVIOUS
  <2> DEFINE q(x) == [c.motor[m] EXCEPT !.drive = x]
  <2>1. /\ \A x \in {-1, 0, 1} : q(x) \in MotorType
        /\ q2 \in MotorType
    BY <1>2, <2>4 DEF MotorType, MotorState
  <2>2. \/ d = [c EXCEPT !.motor[m] = q(1)]
        \/ d = [c EXCEPT !.motor[m] = q(-1)]
        \/ d = [c EXCEPT !.motor[m] = q2]
    <3>1. d = GoToCenter(c, m, p)
      BY <1>2, <1>6 DEF handle_state
    <3>2. \/ d = [c EXCEPT !.motor[m].drive = 1]
          \/ d = [c EXCEPT !.motor[m].drive = -1]
          \/ d = [c EXCEPT !.motor[m].drive = 0,
                           !.motor[m].target = goal, !.motor[m].state = "READY"]
      BY <2>0, <3>1, Zenon DEF GoToCenter
    <3>3. CASE d = [c EXCEPT !.motor[m].drive = 0,
                             !.motor[m].target = goal, !.motor[m].state = "READY"]
      <4>1. [c EXCEPT !.motor[m].drive = 0, !.motor[m].target = goal,
                      !.motor[m].state = "READY"]
              = [c EXCEPT !.motor[m] =
                   [c.motor[m] EXCEPT !.drive = 0, !.target = goal, !.state = "READY"]]
        OBVIOUS
      <4> QED
        BY <2>4, <3>3, <4>1
    <3>4. CASE d = [c EXCEPT !.motor[m].drive = 1]
      BY <3>4
    <3>5. CASE d = [c EXCEPT !.motor[m].drive = -1]
      BY <3>5
    <3> QED
      BY <3>2, <3>3, <3>4, <3>5
  <2>3. Handled(r, q2) /\ \A x \in {-1, 0, 1} : Handled(r, q(x))
    BY <1>2, <1>6, <2>0, <2>1, <2>4 DEF Handled, MotorType
  <2> QED
    BY <1>2, <2>1, <2>2, <2>3, SetMotor
<1>7. CASE r.state = "READY"
  <2> DEFINE q(x) == [c.motor[m] EXCEPT !.drive = x]
  <2>1. \A x \in {-1, 0, 1} : q(x) \in MotorType
    BY <1>2 DEF MotorType, MotorState
  <2>2. \E x \in {-1, 0, 1} : d = [c EXCEPT !.motor[m] = q(x)]
    BY <1>2, <1>7 DEF handle_state, FollowTarget
  <2>3. \A x \in {-1, 0, 1} : Handled(r, q(x))
    BY <1>2, <1>7, <2>1 DEF Handled, MotorType
  <2> QED
    BY <1>2, <2>1, <2>2, <2>3, SetMotor
<1> QED
  BY <1>2, <1>3, <1>4, <1>5, <1>6, <1>7 DEF MotorType, MotorState
-----------------------------------------------------------------------------
(* What the interrupt's calls may do to the data of the calibration: who   *)
(* is ready stays so with its target, and becomes so with its centre for a *)
(* target; a centre that is known does not move; what is over stays over.  *)
Advance(c, d) ==
  /\ c.rover_state = Everybody => d.rover_state = Everybody
  /\ \A m \in Motors :
       /\ c.motor[m].state = "READY" =>
            d.motor[m].state = "READY" /\ d.motor[m].target = c.motor[m].target
       /\ c.motor[m].state # "READY" /\ d.motor[m].state = "READY" =>
            d.motor[m].target = d.motor[m].center_pos
       /\ Centered(c, m) =>
            Centered(d, m) /\ d.motor[m].center_pos = c.motor[m].center_pos

Calm(c) == c \in CalType /\ Ordered(c) /\ CentersOK(c)

LEMMA AdvanceTransitive ==
  ASSUME NEW c, NEW d, NEW e, Advance(c, d), Advance(d, e)
  PROVE  Advance(c, e)
BY DEF Advance, Centered

LEMMA RankFacts ==
  /\ Rank(Nobody) = 0 /\ Rank("FR") = 1 /\ Rank("RR") = 2 /\ Rank("FL") = 3
  /\ Rank("RL") = 4 /\ Rank(Everybody) = 5
  /\ \A m \in Motors : Rank(m) \in 1 .. 4 /\ m # Nobody /\ m # Everybody
  /\ \A m \in Motors, n \in Motors : Rank(m) = Rank(n) => m = n
<1>1. /\ Rank(Nobody) = 0 /\ Rank("FR") = 1 /\ Rank("RR") = 2 /\ Rank("FL") = 3
      /\ Rank("RL") = 4 /\ Rank(Everybody) = 5
  BY DEF Rank, Nobody, Everybody
<1>2. \A m \in Motors : m # Nobody /\ m # Everybody
  BY DEF Nobody, Everybody, Motors
<1>3. \A m \in Motors : Rank(m) \in 1 .. 4
  BY <1>1 DEF Motors
<1>4. \A m \in Motors, n \in Motors : Rank(m) = Rank(n) => m = n
  BY <1>1 DEF Motors
<1> QED
  BY <1>1, <1>2, <1>3, <1>4

(* The stages follow each other.                                           *)
LEMMA SuccessorRank ==
  ASSUME NEW m \in Motors
  PROVE  /\ Successor(m) \in Motors \cup {Everybody}
         /\ Rank(Successor(m)) = Rank(m) + 1
BY RankFacts DEF Successor, Motors

(* One call of handle_state, whatever motor it is for and wherever that is.*)
LEMMA HandleCalm ==
  ASSUME NEW c, Calm(c), NEW m \in Motors, NEW p \in Int,
         NEW d, d = handle_state(c, m, p)
  PROVE  Calm(d) /\ Advance(c, d) /\ d.rover_state = c.rover_state
<1>1. c \in CalType /\ Ordered(c) /\ CentersOK(c)
  BY DEF Calm
<1>2. /\ d \in CalType /\ d.rover_state = c.rover_state
      /\ \A n \in Motors \ {m} : d.motor[n] = c.motor[n]
      /\ Handled(c.motor[m], d.motor[m])
  BY <1>1, HandleState
<1>3. Ordered(d)
  BY <1>1, <1>2 DEF Ordered, Handled
<1>4. CentersOK(d)
  BY <1>1, <1>2 DEF CentersOK, Centered, Handled
<1>5. Advance(c, d)
  BY <1>2 DEF Advance, Centered, Handled
<1> QED
  BY <1>2, <1>3, <1>4, <1>5 DEF Calm

(* The turn passes to the next motor, which has waited for it.             *)
LEMMA TurnPasses ==
  ASSUME NEW c, Calm(c), NEW n \in Motors, Rank(n) = Rank(c.rover_state) + 1,
         c.rover_state \in Motors => c.motor[c.rover_state].state = "READY",
         NEW d, d = [calibrate(c, n) EXCEPT !.rover_state = n]
  PROVE  Calm(d) /\ Advance(c, d)
<1>1. c \in CalType /\ Ordered(c) /\ CentersOK(c)
  BY DEF Calm
<1>2. c.motor[n].state = "WAITING"
  BY <1>1, RankFacts DEF Ordered, CalType
<1>3. PICK q : q = [c.motor[n] EXCEPT !.state = "LEFT"]
  OBVIOUS
<1>4. q \in MotorType /\ q.state = "LEFT" /\ q.center_pos = c.motor[n].center_pos
  BY <1>1, <1>3 DEF CalType, MotorType, MotorState
<1>5. PICK e : e = [c EXCEPT !.motor[n] = q]
  OBVIOUS
<1>6. e = calibrate(c, n)
  BY <1>2, <1>3, <1>5 DEF calibrate
<1>7. /\ e \in CalType /\ e.motor[n] = q
      /\ \A k \in Motors \ {n} : e.motor[k] = c.motor[k]
  <2>1. e \in CalType /\ \A k \in Motors \ {n} : e.motor[k] = c.motor[k]
    <3>1. c \in CalType /\ q \in MotorType
      BY <1>1, <1>4
    <3> QED
      BY <1>5, <3>1, SetMotor
  <2>2. c.motor \in [Motors -> MotorType]
    BY <1>1 DEF CalType
  <2>3. e.motor = [c.motor EXCEPT ![n] = q]
    BY <1>1, <1>5 DEF CalType
  <2> QED
    BY <2>1, <2>2, <2>3
<1>8. d \in CalType /\ d.motor = e.motor /\ d.rover_state = n
  BY <1>6, <1>7 DEF CalType
<1>9. /\ d.motor[n] = q
      /\ \A k \in Motors \ {n} : d.motor[k] = c.motor[k]
  BY <1>7, <1>8
<1>10. Ordered(d)
  BY <1>1, <1>4, <1>8, <1>9, RankFacts DEF Ordered, CalType
<1>11. CentersOK(d)
  BY <1>1, <1>2, <1>4, <1>9 DEF CentersOK, Centered
<1>12. Advance(c, d)
  <2>1. c.rover_state # Everybody
    BY RankFacts
  <2> QED
    BY <1>2, <1>4, <1>9, <2>1 DEF Advance, Centered
<1> QED
  BY <1>8, <1>10, <1>11, <1>12 DEF Calm

LEMMA StageCalm ==
  ASSUME NEW c, Calm(c), NEW m \in Motors, c.rover_state = m, NEW p \in Int,
         NEW e, e = Stage(c, m, p)
  PROVE  Calm(e) /\ Advance(c, e)
<1>1. PICK d : d = handle_state(c, m, p)
  OBVIOUS
<1>2. Calm(d) /\ Advance(c, d) /\ d.rover_state = m
  BY <1>1, HandleCalm
<1>3. CASE d.motor[m].state # "READY"
  BY <1>1, <1>2, <1>3 DEF Stage
<1>4. CASE d.motor[m].state = "READY" /\ Successor(m) # Everybody
  <2>1. Successor(m) \in Motors /\ Rank(Successor(m)) = Rank(d.rover_state) + 1
    BY <1>2, <1>4, SuccessorRank
  <2>2. e = [calibrate(d, Successor(m)) EXCEPT !.rover_state = Successor(m)]
    BY <1>1, <1>4 DEF Stage
  <2>3. Calm(e) /\ Advance(d, e)
    BY <1>2, <1>4, <2>1, <2>2, TurnPasses
  <2> QED
    BY <1>2, <2>3, AdvanceTransitive
<1>5. CASE d.motor[m].state = "READY" /\ Successor(m) = Everybody
  <2>1. e = [d EXCEPT !.rover_state = Everybody]
    BY <1>1, <1>5 DEF Stage
  <2>2. e \in CalType /\ e.motor = d.motor /\ e.rover_state = Everybody
    BY <1>2, <2>1 DEF CalType, Calm
  <2>3. Rank(m) = 4
    BY <1>5, SuccessorRank, RankFacts
  <2>4. Ordered(e)
    BY <1>2, <1>5, <2>2, <2>3, RankFacts DEF Ordered, Calm
  <2>5. CentersOK(e) /\ Advance(d, e)
    BY <1>2, <2>2 DEF CentersOK, Centered, Advance, Calm
  <2> QED
    BY <1>2, <2>2, <2>4, <2>5, AdvanceTransitive DEF Calm
<1> QED
  BY <1>3, <1>4, <1>5

LEMMA CalibrateCalm ==
  ASSUME NEW c, Calm(c), NEW p \in [Motors -> Int],
         NEW d, d = rover_calibrate(c, p)
  PROVE  Calm(d) /\ Advance(c, d)
<1>1. c.rover_state \in Motors \cup {Nobody, Everybody}
  BY DEF Calm, CalType
<1>2. CASE c.rover_state = Nobody
  <2>1. d = [calibrate(c, "FR") EXCEPT !.rover_state = "FR"]
    BY <1>2 DEF rover_calibrate, Nobody, Everybody
  <2>2. "FR" \in Motors /\ Rank("FR") = Rank(c.rover_state) + 1 /\ c.rover_state \notin Motors
    BY <1>2, RankFacts DEF Motors
  <2> QED
    BY <2>1, <2>2, TurnPasses
<1>3. CASE c.rover_state = Everybody
  <2>1. d = c
    BY <1>3 DEF rover_calibrate, Nobody, Everybody
  <2> QED
    BY <2>1 DEF Advance
<1>4. CASE c.rover_state \in Motors
  <2>1. PICK m \in Motors : m = c.rover_state
    BY <1>4
  <2>2. d = Stage(c, m, p[m])
    BY <2>1, RankFacts DEF rover_calibrate
  <2>3. p[m] \in Int
    BY <2>1
  <2> QED
    BY <2>1, <2>2, <2>3, StageCalm
<1> QED
  BY <1>1, <1>2, <1>3, <1>4

(* The whole interrupt.                                                    *)
LEMMA IsrCalm ==
  ASSUME Calm(cal), shaft' \in [Motors -> Int], rover_isr
  PROVE  Calm(cal') /\ Advance(cal, cal')
<1>1. PICK c1, c2, c3, c4 :
        /\ c1 = rover_calibrate(cal, shaft')
        /\ c2 = handle_state(c1, "FR", shaft'["FR"])
        /\ c3 = handle_state(c2, "RR", shaft'["RR"])
        /\ c4 = handle_state(c3, "FL", shaft'["FL"])
        /\ cal' = handle_state(c4, "RL", shaft'["RL"])
  BY DEF rover_isr
<1>2. /\ "FR" \in Motors /\ shaft'["FR"] \in Int
      /\ "RR" \in Motors /\ shaft'["RR"] \in Int
      /\ "FL" \in Motors /\ shaft'["FL"] \in Int
      /\ "RL" \in Motors /\ shaft'["RL"] \in Int
  BY DEF Motors
<1>3. Calm(c1) /\ Advance(cal, c1)
  BY <1>1, CalibrateCalm
<1>4. Calm(c2) /\ Advance(c1, c2)
  BY <1>1, <1>2, <1>3, HandleCalm
<1>5. Calm(c3) /\ Advance(c2, c3)
  BY <1>1, <1>2, <1>4, HandleCalm
<1>6. Calm(c4) /\ Advance(c3, c4)
  BY <1>1, <1>2, <1>5, HandleCalm
<1>7. Calm(cal') /\ Advance(c4, cal')
  BY <1>1, <1>2, <1>6, HandleCalm
<1>8. Advance(cal, c3)
  BY <1>3, <1>4, <1>5, AdvanceTransitive
<1> QED
  BY <1>6, <1>7, <1>8, AdvanceTransitive
-----------------------------------------------------------------------------
LEMMA LimitedType == ASSUME NEW angle \in Int PROVE Limited(angle) \in Int
BY SteeringAssumption DEF Limited

(* A command is for all four motors, each once in its order.               *)
LEMMA CommandFacts ==
  ASSUME NEW command \in Commands
  PROVE  /\ command.offset \in [Motors -> Int]
         /\ \A i \in 1 .. 4 : command.order[i] \in Motors
         /\ \A m \in Motors : \E i \in 1 .. 4 : command.order[i] = m
<1> DEFINE Full(order) ==
             /\ \A i \in 1 .. 4 : order[i] \in Motors
             /\ \A m \in Motors : \E i \in 1 .. 4 : order[i] = m
<1>1. Full(<<"FR", "FL", "RR", "RL">>) /\ Full(<<"FR", "RR", "FL", "RL">>)
  BY DEF Motors
<1> HIDE DEF Full
<1>3. MaxSteer \in Int /\ -MaxSteer \in Int /\ \A a \in Angles : a \in Int
  BY SteeringAssumption
<1>4. ASSUME NEW order, NEW offset, command = Command(order, offset)
      PROVE  command.order = order /\ command.offset = offset
  BY <1>4 DEF Command
<1>5. \E a, b, c, d \in Int :
        \/ command = Command(<<"FR", "FL", "RR", "RL">>, Sides(a, b, c, d))
        \/ command = Command(<<"FR", "RR", "FL", "RL">>, Sides(a, b, c, d))
  <2>1. CASE command = rover_steer_forward
    BY <2>1 DEF rover_steer_forward
  <2>2. CASE command = rover_steer_point
    BY <1>3, <2>2 DEF rover_steer_point
  <2>3. CASE \E a \in Angles : command \in {rover_steer_right(a), rover_steer_left(a)}
    <3>1. PICK a \in Angles : command \in {rover_steer_right(a), rover_steer_left(a)}
      BY <2>3
    <3>2. Limited(a) \in Int /\ -Limited(a) \in Int
      BY <1>3, LimitedType
    <3> QED
      BY <3>1, <3>2 DEF rover_steer_right, rover_steer_left
  <2> QED
    BY <2>1, <2>2, <2>3 DEF Commands
<1>6. command.offset \in [Motors -> Int] /\ Full(command.order)
  <2>1. PICK a, b, c, d \in Int :
          \/ command = Command(<<"FR", "FL", "RR", "RL">>, Sides(a, b, c, d))
          \/ command = Command(<<"FR", "RR", "FL", "RL">>, Sides(a, b, c, d))
    BY <1>5
  <2>2. /\ command.offset = Sides(a, b, c, d)
        /\ \/ command.order = <<"FR", "FL", "RR", "RL">>
           \/ command.order = <<"FR", "RR", "FL", "RL">>
    BY <1>4, <2>1
  <2>3. command.offset \in [Motors -> Int]
    <3>1. a \in Int /\ b \in Int /\ c \in Int /\ d \in Int
      BY <2>1
    <3>2. Sides(a, b, c, d) \in [Motors -> Int]
      BY <3>1 DEF Sides, Motors
    <3> QED
      BY <2>2, <3>2
  <2>4. Full(command.order)
    BY <1>1, <2>2
  <2> QED
    BY <2>3, <2>4
<1> QED
  BY <1>6 DEF Full

LEMMA TypeIsCalType ==
  TypeOK => /\ cal \in CalType /\ shaft \in [Motors -> Int]
            /\ main.pc \in {"idle", "load", "store"} /\ main.i \in 1 .. 4
            /\ main.command \in Commands /\ main.reg \in Int
            /\ main.early \in BOOLEAN /\ main.given \in 0 .. MaxCommands
BY DEF TypeOK, CalType, MotorType

(* Of a tick: the motors are where they can be, and the interrupt has run. *)
LEMMA TickCalm ==
  ASSUME TypeOK, Calm(cal), Tick
  PROVE  /\ shaft' \in [Motors -> Int] /\ Calm(cal') /\ Advance(cal, cal')
         /\ main' = main
<1>1. shaft \in [Motors -> Int] /\ \A m \in Motors : cal.motor[m].drive \in Int
  BY TypeIsCalType DEF CalType, MotorType
<1>2. shaft' \in [Motors -> Int]
  <2>1. PICK fr \in Steps("FR"), rr \in Steps("RR"), fl \in Steps("FL"),
             rl \in Steps("RL") :
          \E step \in {Sides(fr, rr, fl, rl)} :
            shaft' = [m \in Motors |-> shaft[m] + step[m]]
    BY DEF Tick
  <2>2. \A m \in Motors : Steps(m) \subseteq Int
    BY <1>1 DEF Steps
  <2>3. fr \in Int /\ rr \in Int /\ fl \in Int /\ rl \in Int
    BY <2>1, <2>2 DEF Motors
  <2>4. Sides(fr, rr, fl, rl) \in [Motors -> Int]
    BY <2>3 DEF Sides, Motors
  <2> QED
    BY <1>1, <2>1, <2>4
<1> QED
  BY <1>2, IsrCalm DEF Tick

MainType ==
  [pc : {"idle", "load", "store"}, early : BOOLEAN, given : 0 .. MaxCommands,
   command : Commands, i : 1 .. 4, reg : Int]

LEMMA TypePreserved ==
  ASSUME TypeOK, Calm(cal), [Next]_vars
  PROVE  TypeOK'
<1>0. /\ shaft \in [Motors -> Int] /\ still \in [Motors -> Nat]
      /\ turning \in [Motors -> BOOLEAN] /\ cal \in CalType /\ main \in MainType
  BY DEF TypeOK, CalType, MotorType, MainType
<1>1. SUFFICES /\ shaft' \in [Motors -> Int] /\ still' \in [Motors -> Nat]
               /\ turning' \in [Motors -> BOOLEAN] /\ cal' \in CalType /\ main' \in MainType
  BY DEF TypeOK, CalType, MotorType, MainType
<1>2. CASE Tick
  <2>1. shaft' \in [Motors -> Int] /\ cal' \in CalType /\ main' = main
    BY <1>2, TickCalm DEF Calm
  <2>2. still' \in [Motors -> Nat]
    BY <1>0, <1>2 DEF Tick
  <2>3. turning' \in [Motors -> BOOLEAN]
    BY <1>0, <1>2 DEF Tick
  <2> QED
    BY <1>0, <2>1, <2>2, <2>3
<1>3. ASSUME NEW command \in Commands, Give(command) PROVE main' \in MainType
  <2>1. main.given + 1 \in 0 .. MaxCommands
    BY <1>0, <1>3, SteeringAssumption DEF Give, MainType
  <2>2. PICK b \in BOOLEAN : b = (cal.rover_state # Everybody)
    OBVIOUS
  <2>3. PICK k \in 0 .. MaxCommands : k = main.given + 1
    BY <2>1
  <2>4. PICK one \in 1 .. 4 : one = 1
    OBVIOUS
  <2>5. PICK x : x = [main EXCEPT !.pc = "load", !.command = command, !.i = one,
                                  !.given = k]
    OBVIOUS
  <2>6. x \in MainType
    BY <1>0, <1>3, <2>3, <2>5, <2>4 DEF MainType
  <2>7. main' = [x EXCEPT !.early = b]
    BY <1>3, <2>2, <2>3, <2>5, <2>4 DEF Give
  <2> QED
    BY <2>7, <2>6 DEF MainType
<1>4. CASE LoadCenter
  <2>1. Subject \in Motors /\ main.command.offset \in [Motors -> Int]
    BY <1>0, CommandFacts DEF Subject, MainType
  <2>2. cal.motor[Subject] \in MotorType
    BY <1>0, <2>1 DEF CalType
  <2>3. cal.motor[Subject].center_pos + main.command.offset[Subject] \in Int
    BY <2>1, <2>2 DEF MotorType
  <2> QED
    BY <1>0, <1>4, <2>3 DEF LoadCenter, MainType
<1>5. CASE StoreTarget
  <2>1. Subject \in Motors /\ main.reg \in Int
    BY <1>0, CommandFacts DEF Subject, MainType
  <2>2. cal' \in CalType
    <3>1. cal.motor[Subject] \in MotorType
      BY <1>0, <2>1 DEF CalType
    <3>2. [cal.motor[Subject] EXCEPT !.target = main.reg] \in MotorType
      BY <2>1, <3>1 DEF MotorType
    <3>3. cal' = [cal EXCEPT !.motor[Subject] =
                                [cal.motor[Subject] EXCEPT !.target = main.reg]]
      BY <1>5 DEF StoreTarget
    <3> QED
      BY <1>0, <2>1, <3>2, <3>3, SetMotor
  <2>3. main' \in MainType
    <3>1. CASE main.i = 4
      BY <1>0, <1>5, <3>1 DEF StoreTarget, MainType
    <3>2. CASE main.i # 4
      <4>1. main.i + 1 \in 1 .. 4
        BY <1>0, <3>2 DEF MainType
      <4>2. main' = [main EXCEPT !.pc = "load", !.i = main.i + 1]
        BY <1>5, <3>2 DEF StoreTarget
      <4> QED
        BY <1>0, <4>1, <4>2 DEF MainType
    <3> QED
      BY <3>1, <3>2
  <2> QED
    BY <1>0, <1>5, <2>2, <2>3 DEF StoreTarget
<1>6. CASE UNCHANGED vars
  BY <1>0, <1>6 DEF vars
<1> QED
  BY <1>0, <1>2, <1>3, <1>4, <1>5, <1>6 DEF Next, Main, Give, LoadCenter

(* What the main thread does leaves the calibration as it is.              *)
LEMMA CalmPreserved ==
  ASSUME TypeOK, Calm(cal), [Next]_vars
  PROVE  Calm(cal')
<1>1. CASE Tick
  BY <1>1, TickCalm
<1>2. CASE StoreTarget
  <2>1. /\ cal \in CalType /\ main.i \in 1 .. 4 /\ main.command \in Commands
        /\ main.reg \in Int
    BY TypeIsCalType
  <2>2. Subject \in Motors
    BY <2>1, CommandFacts DEF Subject
  <2>3. PICK q : q = [cal.motor[Subject] EXCEPT !.target = main.reg]
    OBVIOUS
  <2>4. /\ q \in MotorType
        /\ q.state = cal.motor[Subject].state
        /\ q.center_pos = cal.motor[Subject].center_pos
    <3>1. cal.motor[Subject] \in MotorType
      BY <2>1, <2>2 DEF CalType
    <3> QED
      BY <2>1, <2>3, <3>1 DEF MotorType
  <2>5. cal' = [cal EXCEPT !.motor[Subject] = q]
    BY <1>2, <2>3 DEF StoreTarget
  <2>6. cal' \in CalType
    BY <2>1, <2>2, <2>4, <2>5, SetMotor
  <2>7. /\ cal'.rover_state = cal.rover_state
        /\ cal'.motor = [cal.motor EXCEPT ![Subject] = q]
        /\ cal.motor \in [Motors -> MotorType]
    BY <2>1, <2>5 DEF CalType
  <2>8. \A m \in Motors : /\ cal'.motor[m].state = cal.motor[m].state
                          /\ cal'.motor[m].center_pos = cal.motor[m].center_pos
    BY <2>4, <2>7
  <2> QED
    BY <2>6, <2>7, <2>8 DEF Calm, Ordered, CentersOK, Centered
<1>3. CASE LoadCenter \/ (\E command \in Commands : Give(command)) \/ UNCHANGED vars
  <2>1. cal' = cal
    BY <1>3 DEF LoadCenter, Give, vars
  <2> QED
    BY <2>1
<1> QED
  BY <1>1, <1>2, <1>3 DEF Next, Main

LEMMA EarlyPreserved == IInv /\ [Next]_vars => EarlyOK'
<1> SUFFICES ASSUME IInv, [Next]_vars PROVE EarlyOK'
  OBVIOUS
<1>0. TypeOK /\ Calm(cal) /\ EarlyOK
  BY TypeIsCalType DEF IInv, Calm
<1>1. CASE Tick
  <2>1. main' = main
    BY <1>1 DEF Tick
  <2>2. cal.rover_state = Everybody => cal'.rover_state = Everybody
    BY <1>0, <1>1, TickCalm DEF Advance
  <2> QED
    BY <1>0, <2>1, <2>2 DEF EarlyOK
<1>2. ASSUME NEW command \in Commands, Give(command) PROVE EarlyOK'
  <2>1. main \in MainType
    BY <1>0 DEF TypeOK, MainType
  <2>2. main'.early = (cal.rover_state # Everybody) /\ cal' = cal
    BY <1>2, <2>1 DEF Give, MainType
  <2> QED
    BY <2>2 DEF EarlyOK
<1>3. CASE LoadCenter \/ StoreTarget
  <2>1. /\ main'.early = main.early
        /\ main.pc # "idle" /\ cal'.rover_state = cal.rover_state
    BY <1>0, <1>3 DEF LoadCenter, StoreTarget, TypeOK
  <2> QED
    BY <1>0, <2>1 DEF EarlyOK
<1>4. CASE UNCHANGED vars
  BY <1>0, <1>4 DEF vars, EarlyOK
<1> QED
  BY <1>1, <1>2, <1>3, <1>4 DEF Next, Main

(* The targets that are assigned stay as the command wants them while the  *)
(* interrupt carries the calibration on.                                   *)
LEMMA TickAgrees == IInv /\ Tick => TargetsOK' /\ RegOK'
<1> SUFFICES ASSUME IInv, Tick PROVE TargetsOK' /\ RegOK'
  OBVIOUS
<1>0. TypeOK /\ Calm(cal) /\ EarlyOK /\ TargetsOK /\ RegOK
  BY TypeIsCalType DEF IInv, Calm
<1>1. main' = main /\ Advance(cal, cal') /\ Calm(cal')
  BY <1>0, TickCalm
<1>2. ASSUME NEW m \in Motors, cal.motor[m].state # "READY"
      PROVE  \/ main.early
             \/ main.pc = "idle" /\ main.command.offset[m] = 0
  <2>1. cal.rover_state # Everybody
    BY <1>0, <1>2, RankFacts DEF Calm, Ordered
  <2>2. main.command = rover_steer_forward => main.command.offset[m] = 0
    BY DEF rover_steer_forward, Command, Sides, Motors
  <2> QED
    BY <1>0, <2>1, <2>2 DEF EarlyOK
<1>3. TargetsOK'
  <2> SUFFICES ASSUME NEW m \in Motors, cal'.motor[m].state = "READY", Assigned(m)'
               PROVE  Agrees(m)'
    BY DEF TargetsOK
  <2>1. Assigned(m)
    BY <1>1 DEF Assigned
  <2>2. CASE cal.motor[m].state = "READY"
    <3>1. /\ cal'.motor[m].target = cal.motor[m].target
          /\ cal'.motor[m].center_pos = cal.motor[m].center_pos
      BY <1>1, <2>2 DEF Advance, Centered
    <3>2. Agrees(m)
      BY <1>0, <2>1, <2>2 DEF TargetsOK
    <3> QED
      BY <1>1, <3>1, <3>2 DEF Agrees
  <2>3. CASE cal.motor[m].state # "READY"
    <3>1. cal'.motor[m].target = cal'.motor[m].center_pos
      BY <1>1, <2>3 DEF Advance
    <3>2. cal'.motor[m].center_pos \in Int
      BY <1>1 DEF Calm, CalType, MotorType
    <3> QED
      BY <1>1, <1>2, <2>3, <3>1, <3>2 DEF Agrees
  <2> QED
    BY <2>2, <2>3
<1>4. RegOK'
  <2> SUFFICES ASSUME main.pc = "store"
               PROVE  \/ main.reg = cal'.motor[Subject].center_pos + main.command.offset[Subject]
                      \/ main.early /\ main.reg = main.command.offset[Subject]
    BY <1>1 DEF RegOK, Subject
  <2>1. PICK m \in Motors : m = Subject
    BY <1>0, TypeIsCalType, CommandFacts DEF Subject
  <2>2. CASE Centered(cal, m)
    BY <1>0, <1>1, <2>1, <2>2 DEF RegOK, Advance
  <2>3. CASE ~Centered(cal, m)
    <3>1. main.early
      BY <1>2, <2>3 DEF Centered
    <3>2. cal.motor[m].center_pos = 0
      BY <1>0, <2>3 DEF Calm, CentersOK
    <3>3. main.command.offset[m] \in Int
      BY <1>0, TypeIsCalType, CommandFacts
    <3> QED
      BY <1>0, <2>1, <3>1, <3>2, <3>3 DEF RegOK
  <2> QED
    BY <2>2, <2>3
<1> QED
  BY <1>3, <1>4

(* A target is assigned what was loaded for it; so the command is carried  *)
(* out when the last one is.                                               *)
LEMMA MainAgrees ==
  IInv /\ [Main]_vars => TargetsOK' /\ RegOK'
<1> SUFFICES ASSUME IInv, [Main]_vars PROVE TargetsOK' /\ RegOK'
  OBVIOUS
<1>0. /\ TypeOK /\ Calm(cal) /\ TargetsOK /\ RegOK
      /\ main \in MainType /\ cal \in CalType
  BY TypeIsCalType DEF IInv, Calm, TypeOK, MainType
<1>1. ASSUME NEW command \in Commands, Give(command) PROVE TargetsOK' /\ RegOK'
  <2>1. main'.pc = "load" /\ main'.i = 1
    BY <1>0, <1>1 DEF Give, MainType
  <2>2. \A m \in Motors : ~Assigned(m)'
    BY <2>1 DEF Assigned
  <2> QED
    BY <2>1, <2>2 DEF TargetsOK, RegOK
<1>2. CASE LoadCenter
  <2>1. /\ cal' = cal /\ main'.pc = "store" /\ main.pc = "load" /\ main'.i = main.i
        /\ main'.command = main.command /\ main'.early = main.early
        /\ main'.reg = cal.motor[Subject].center_pos + main.command.offset[Subject]
    BY <1>0, <1>2 DEF LoadCenter, MainType
  <2>2. RegOK'
    BY <2>1 DEF RegOK, Subject
  <2>3. TargetsOK'
    BY <1>0, <2>1 DEF TargetsOK, Assigned, Agrees
  <2> QED
    BY <2>2, <2>3
<1>3. CASE StoreTarget
  <2>1. PICK s \in Motors : s = Subject
    BY <1>0, TypeIsCalType, CommandFacts DEF Subject
  <2>2. /\ main'.command = main.command /\ main'.early = main.early
        /\ \/ main.i = 4 /\ main'.pc = "idle"
           \/ main.i # 4 /\ main'.pc = "load" /\ main'.i = main.i + 1
    BY <1>0, <1>3 DEF StoreTarget, MainType
  <2>3. /\ cal'.motor[s].target = main.reg
        /\ \A m \in Motors :
             /\ cal'.motor[m].state = cal.motor[m].state
             /\ cal'.motor[m].center_pos = cal.motor[m].center_pos
             /\ m # s => cal'.motor[m].target = cal.motor[m].target
    BY <1>0, <1>3, <2>1 DEF StoreTarget, CalType, MotorType
  <2>4. ASSUME NEW m \in Motors, Assigned(m)' PROVE m = s \/ Assigned(m)
    <3>1. PICK j \in 1 .. 4 : m = main.command.order[j] /\ (main.i = 4 \/ j < main.i + 1)
      BY <1>0, <2>2, <2>4, CommandFacts DEF Assigned, MainType
    <3>2. j = main.i \/ j < main.i
      BY <1>0, <3>1 DEF MainType
    <3> QED
      BY <2>1, <3>1, <3>2 DEF Assigned, Subject
  <2>5. TargetsOK'
    <3> SUFFICES ASSUME NEW m \in Motors, cal'.motor[m].state = "READY", Assigned(m)'
                 PROVE  Agrees(m)'
      BY DEF TargetsOK
    <3>1. CASE m = s
      BY <1>0, <1>3, <2>1, <2>2, <2>3, <3>1 DEF RegOK, StoreTarget, Agrees
    <3>2. CASE m # s
      <4>1. Agrees(m)
        BY <1>0, <2>3, <2>4, <3>2 DEF TargetsOK
      <4> QED
        BY <2>2, <2>3, <3>2, <4>1 DEF Agrees
    <3> QED
      BY <3>1, <3>2
  <2>6. RegOK'
    BY <2>2 DEF RegOK
  <2> QED
    BY <2>5, <2>6
<1>4. CASE UNCHANGED vars
  <2>1. cal' = cal /\ main' = main
    BY <1>4 DEF vars
  <2> QED
    BY <1>0, <2>1 DEF TargetsOK, RegOK, Assigned, Agrees, Subject
<1> QED
  BY <1>1, <1>2, <1>3, <1>4 DEF Main

LEMMA InitOK == Init => IInv
<1> SUFFICES ASSUME Init PROVE IInv
  OBVIOUS
<1>1. TypeOK
  <2>1. cal \in CalType
    <3>1. [state |-> "WAITING", left_pos |-> 0, right_pos |-> 0,
           center_pos |-> 0, target |-> 0, drive |-> 0] \in MotorType
      BY DEF MotorType, MotorState
    <3>2. [i \in 0 .. BufSize - 1 |-> 0] \in [0 .. BufSize - 1 -> Int]
      OBVIOUS
    <3>3. 0 \in 0 .. BufSize - 1 /\ Spinup \in Nat
      BY SteeringAssumption
    <3> QED
      BY <3>1, <3>2, <3>3 DEF Init, CalInit, CalType
  <2>2. main \in MainType
    <3>1. 0 \in 0 .. MaxCommands
      BY SteeringAssumption
    <3>2. rover_steer_forward \in Commands
      BY DEF Commands
    <3> QED
      BY <3>1, <3>2 DEF Init, MainType
  <2>3. /\ shaft \in [Motors -> Int] /\ still \in [Motors -> Nat]
        /\ turning \in [Motors -> BOOLEAN]
    BY DEF Init
  <2> QED
    BY <2>1, <2>2, <2>3 DEF TypeOK, CalType, MotorType, MainType
<1>2. /\ cal.rover_state = Nobody
      /\ \A m \in Motors : /\ cal.motor[m].state = "WAITING"
                           /\ cal.motor[m].center_pos = 0
  BY DEF Init, CalInit
<1>3. Ordered(cal)
  BY <1>2, RankFacts DEF Ordered
<1>4. CentersOK(cal) /\ TargetsOK
  BY <1>2 DEF CentersOK, TargetsOK
<1>5. EarlyOK /\ RegOK
  BY DEF Init, EarlyOK, RegOK
<1> QED
  BY <1>1, <1>3, <1>4, <1>5 DEF IInv
-----------------------------------------------------------------------------
LEMMA InvariantStep == IInv /\ [Next]_vars => IInv'
<1> SUFFICES ASSUME IInv, [Next]_vars PROVE IInv'
  OBVIOUS
<1>1. TypeOK /\ Calm(cal)
  BY TypeIsCalType DEF IInv, Calm
<1>2. TypeOK' /\ Ordered(cal)' /\ CentersOK(cal)'
  BY <1>1, TypePreserved, CalmPreserved DEF Calm
<1>3. EarlyOK'
  BY EarlyPreserved
<1>4. TargetsOK' /\ RegOK'
  BY TickAgrees, MainAgrees DEF Next
<1> QED
  BY <1>2, <1>3, <1>4 DEF IInv

(* The whole invariant, for any stops, lags, angles and numbers of samples *)
(* and commands.                                                           *)
THEOREM InvariantHolds == Spec => []IInv
BY InitOK, InvariantStep, PTL DEF Spec

(* Types: the ring's index stays in the ring, spinup is never counted      *)
(* below zero, and a motor is driven one way, the other or not at all.     *)
THEOREM TypeCorrect == Spec => []TypeOK
<1>1. IInv => TypeOK
  BY DEF IInv
<1> QED
  BY <1>1, InvariantHolds, PTL

(* No two motors are calibrated at a time, so the ring and spinup, which   *)
(* they share, are of one motor.                                           *)
THEOREM MotorsTakeTurns == Spec => []OneAtATime
<1>1. IInv => OneAtATime
  <2> SUFFICES ASSUME IInv, NEW m \in Motors, Calibrating(m) PROVE cal.rover_state = m
    BY DEF OneAtATime
  <2>1. cal \in CalType /\ Ordered(cal)
    BY TypeIsCalType DEF IInv
  <2>2. Rank(m) = Rank(cal.rover_state)
    BY <2>1, RankFacts DEF Ordered, Calibrating, CalType
  <2> QED
    BY <2>1, <2>2, RankFacts DEF CalType
<1> QED
  BY <1>1, InvariantHolds, PTL

(* The targets of a command that was carried out belong together, however  *)
(* the interrupt falls between the loads and stores that assign them.      *)
THEOREM TargetsBelongTogether == Spec => []WheelsAgree
<1>1. IInv => WheelsAgree
  <2> SUFFICES ASSUME IInv, main.pc = "idle", cal.rover_state = Everybody,
                      NEW m \in Motors
               PROVE  Agrees(m)
    BY DEF WheelsAgree, Agrees
  <2>1. cal.motor[m].state = "READY"
    BY RankFacts DEF IInv, Ordered
  <2> QED
    BY <2>1 DEF IInv, TargetsOK, Assigned
<1> QED
  BY <1>1, InvariantHolds, PTL
===============================================================================
