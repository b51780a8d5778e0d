-------------------------- MODULE SteeringStopsProofs --------------------------
(***************************************************************************)
(* Proofs about the calibration's search for the mechanical stops, for     *)
(* motors with any stops: what the ring of samples says of a motor that    *)
(* turns and of one that has not started, and why the spin-ups make the    *)
(* difference.                                                             *)
(***************************************************************************)
EXTENDS SteeringProofs

(* The sample taken k calls ago, the last one being one call ago.          *)
Ago(c, k) ==
  c.pos[IF k <= c.pos_index THEN c.pos_index - k ELSE c.pos_index - k + BufSize]

(* The samples since a motor last moved: two for each period of the timer. *)
Since(m) == 2 * still[m] + 2

(* A motor at p on its way to the left: before it meets its stop, the ring *)
(* holds no position beyond it, and samples older than the n of this       *)
(* position lie behind it.  One that presses against its stop may be       *)
(* pushed back, and nothing is said of its samples.  One that has not      *)
(* started has neither moved nor used up any spin-up.                      *)
LeftOK(c, m, p, n, started) ==
  /\ p < LeftEnd(m) => \A k \in 1 .. BufSize : Ago(c, k) <= p
  /\ ~started => /\ p = 0 /\ c.spinup = Spinup
                 /\ \A k \in 1 .. BufSize : Ago(c, k) = 0
  /\ started /\ p < LeftEnd(m) =>
       \A k \in 1 .. BufSize : k > n => Ago(c, k) < p

(* A motor on its way to the right, of which the last j samples are.  What *)
(* the ring still holds from before can use up spin-up, but not all of it. *)
RightOK(c, m, p, n, started, j) ==
  /\ ~started \/ p > RightEnd(m) =>
       \A k \in 1 .. BufSize : k <= j => Ago(c, k) >= p
  /\ c.spinup + j >= SpinupRight
  /\ ~started => /\ c.spinup + BufSize - 2 >= SpinupRight
                 /\ \A k \in 1 .. BufSize : k <= j => Ago(c, k) = p
  /\ started /\ p > RightEnd(m) =>
       \A k \in 1 .. BufSize : k > n /\ k <= j => Ago(c, k) > p

(* A motor does not leave the way between its stops, and which way it is   *)
(* driven goes with its state; the turn to the right comes a call later.   *)
WithinOK ==
  \A m \in Motors :
    LET r == cal.motor[m]
    IN  /\ RightStop[m] <= shaft[m] /\ shaft[m] <= LeftStop[m]
        /\ r.state = "WAITING" => r.drive = 0
        /\ r.state = "LEFT" => r.drive = 1
        /\ r.state = "RIGHT" => r.drive \in {-1, 1}

FirstOK ==
  LET r == cal.motor["FR"]
  IN  /\ r.state = "WAITING" =>
           LeftOK(cal, "FR", shaft["FR"], Since("FR"), FALSE)
      /\ r.state = "LEFT" =>
           LeftOK(cal, "FR", shaft["FR"], Since("FR"), turning["FR"])
      /\ r.state \in {"RIGHT", "CENTER", "READY"} => r.left_pos \in LeftEnd("FR") .. LeftStop["FR"]

RightsOK ==
  \A m \in Motors :
    LET r == cal.motor[m]
    IN  /\ r.state = "RIGHT" =>
             \E j \in Nat : /\ RightOK(cal, m, shaft[m], Since(m), turning[m], j)
                            /\ r.drive = 1 => j = 0
        /\ r.state \in {"CENTER", "READY"} => r.right_pos \in RightStop[m] .. RightEnd(m)
-----------------------------------------------------------------------------
LEMMA Sizes ==
  /\ BufSize \in Nat /\ BufSize > 2 /\ Spinup \in Nat /\ SpinupRight \in Nat
  /\ RunLag \in Nat /\ \A m \in Motors : StartLag[m] \in Nat
  /\ \A m \in Motors : /\ LeftStop[m] \in Int /\ RightStop[m] \in Int
                       /\ RightStop[m] <= 0 /\ 0 <= LeftStop[m]
                       /\ LeftEnd(m) \in Int /\ RightEnd(m) \in Int
                       /\ RightStop[m] <= LeftEnd(m) /\ LeftEnd(m) <= LeftStop[m]
                       /\ RightStop[m] <= RightEnd(m) /\ RightEnd(m) <= LeftStop[m]
BY SteeringAssumption DEF LeftEnd, RightEnd

(* The index of the ring goes round once at most.                          *)
LEMMA Round ==
  ASSUME NEW n \in Nat, n > 0, NEW x \in 0 .. 2 * n - 1
  PROVE  x % n = IF x < n THEN x ELSE x - n
<1>1. PICK q \in Int : x = q * n + (x % n)
  OBVIOUS
<1>2. x % n \in 0 .. n - 1
  OBVIOUS
<1>3. PICK y \in Int : y = q * n
  BY <1>1
<1>4. q >= 2 => y >= 2 * n
  BY <1>3
<1>5. q <= -1 => y <= -n
  BY <1>3
<1>6. q = 0 \/ q = 1
  BY <1>1, <1>2, <1>3, <1>4, <1>5
<1>7. (q = 0 => y = 0) /\ (q = 1 => y = n)
  BY <1>3
<1> QED
  BY <1>1, <1>2, <1>3, <1>6, <1>7

(* A sample makes every other one a call older, and the velocity is what   *)
(* lies between it and the one that was taken buf_size - 2 calls before.   *)
LEMMA RingShifts ==
  ASSUME NEW c \in CalType, NEW p \in Int, NEW d,
         d.pos = Sample(c, p).pos, d.pos_index = Sample(c, p).pos_index
  PROVE  /\ Ago(d, 1) = p
         /\ \A k \in 2 .. BufSize : Ago(d, k) = Ago(c, k - 1)
         /\ Velocity(c, p) = p - Ago(c, BufSize - 2)
         /\ \A k \in 1 .. BufSize : Ago(c, k) \in Int
<1>0. BufSize \in Nat /\ BufSize > 2
  BY Sizes
<1>1. PICK i \in 0 .. BufSize - 1 : i = c.pos_index
  BY DEF CalType
<1>2. i \in 0 .. BufSize - 1 /\ c.pos \in [0 .. BufSize - 1 -> Int]
  BY <1>1 DEF CalType
<1>3. /\ (i + 1) % BufSize = IF i = BufSize - 1 THEN 0 ELSE i + 1
      /\ (i + 2) % BufSize = IF i >= BufSize - 2 THEN i + 2 - BufSize ELSE i + 2
  <2>1. i + 1 \in 0 .. 2 * BufSize - 1 /\ i + 2 \in 0 .. 2 * BufSize - 1
    BY <1>0, <1>2
  <2>2. (i + 1) % BufSize = IF i + 1 < BufSize THEN i + 1 ELSE i + 1 - BufSize
    <3>1. \A n \in Nat : n > 0 =>
            \A x \in 0 .. 2 * n - 1 : x % n = IF x < n THEN x ELSE x - n
      BY Round
    <3> QED
      BY <1>0, <2>1, <3>1
  <2>3. (i + 2) % BufSize = IF i + 2 < BufSize THEN i + 2 ELSE i + 2 - BufSize
    <3>1. \A n \in Nat : n > 0 =>
            \A x \in 0 .. 2 * n - 1 : x % n = IF x < n THEN x ELSE x - n
      BY Round
    <3> QED
      BY <1>0, <2>1, <3>1
  <2> QED
    BY <1>0, <1>2, <2>2, <2>3
<1>4. /\ d.pos = [c.pos EXCEPT ![i] = p]
      /\ d.pos_index = IF i = BufSize - 1 THEN 0 ELSE i + 1
  BY <1>1, <1>3 DEF Sample, CalType
<1>5. PICK e : e = d.pos_index
  OBVIOUS
<1>6. e = IF i = BufSize - 1 THEN 0 ELSE i + 1
  BY <1>4, <1>5
<1>7. Ago(d, 1) = p
  <2>1. (IF 1 <= e THEN e - 1 ELSE e - 1 + BufSize) = i
    BY <1>0, <1>2, <1>6
  <2> QED
    BY <1>2, <1>4, <1>5, <2>1 DEF Ago
<1>8. \A k \in 2 .. BufSize : Ago(d, k) = Ago(c, k - 1)
  <2> TAKE k \in 2 .. BufSize
  <2>1. PICK x : x = IF k <= e THEN e - k ELSE e - k + BufSize
    OBVIOUS
  <2>2. /\ x = IF k - 1 <= i THEN i - (k - 1) ELSE i - (k - 1) + BufSize
        /\ x \in 0 .. BufSize - 1 /\ x # i
    BY <1>0, <1>2, <1>6, <2>1
  <2>3. Ago(d, k) = d.pos[x]
    BY <1>5, <2>1 DEF Ago
  <2>4. Ago(c, k - 1) = c.pos[x]
    BY <1>1, <2>2 DEF Ago
  <2> QED
    BY <1>2, <1>4, <2>2, <2>3, <2>4
<1>9. Velocity(c, p) = p - Ago(c, BufSize - 2)
  <2>1. PICK b : b = BufSize - 2
    OBVIOUS
  <2>2. (i + 2) % BufSize = IF b <= i THEN i - b ELSE i - b + BufSize
    BY <1>0, <1>2, <1>3, <2>1
  <2> QED
    BY <1>1, <2>1, <2>2 DEF Velocity, Ago
<1>10. \A k \in 1 .. BufSize : Ago(c, k) \in Int
  <2> TAKE k \in 1 .. BufSize
  <2>1. (IF k <= i THEN i - k ELSE i - k + BufSize) \in 0 .. BufSize - 1
    BY <1>0, <1>2
  <2> QED
    BY <1>1, <1>2, <2>1 DEF Ago
<1> QED
  BY <1>7, <1>8, <1>9, <1>10
-----------------------------------------------------------------------------
LEMMA SetRecord ==
  ASSUME NEW s \in CalType, NEW m \in Motors, NEW r \in MotorType,
         NEW e, e = [s EXCEPT !.motor[m] = r]
  PROVE  /\ e \in CalType /\ e.motor[m] = r /\ e.spinup = s.spinup
         /\ e.pos = s.pos /\ e.pos_index = s.pos_index
<1>1. e \in CalType
  BY SetMotor
<1>2. e.motor[m] = r
  <2>1. s.motor \in [Motors -> MotorType] /\ e.motor = [s.motor EXCEPT ![m] = r]
    BY DEF CalType
  <2> QED
    BY <2>1
<1>3. e.spinup = s.spinup
  BY SetMotor
<1>4. e.pos = s.pos /\ e.pos_index = s.pos_index
  BY SetMotor
<1> QED
  BY <1>1, <1>2, <1>3, <1>4

(* One call of SearchLeft and of SearchRight, case by case.                *)
SampledBy(c, d, p) ==
  d.pos = Sample(c, p).pos /\ d.pos_index = Sample(c, p).pos_index

LEMMA SearchLeftDoes ==
  ASSUME NEW c \in CalType, NEW m \in Motors, NEW p \in Int,
         c.motor[m].state = "LEFT", NEW d, d = handle_state(c, m, p)
  PROVE  /\ d \in CalType /\ SampledBy(c, d, p) /\ d.motor[m].drive = 1
         /\ \/ /\ c.spinup >= 1 /\ d.motor[m].state = "LEFT"
               /\ d.spinup = IF Velocity(c, p) > 0 THEN c.spinup - 1 ELSE c.spinup
            \/ /\ c.spinup = 0 /\ Velocity(c, p) >= 1
               /\ d.motor[m].state = "LEFT" /\ d.spinup = 0
            \/ /\ c.spinup = 0 /\ Velocity(c, p) < 1
               /\ d.motor[m].state = "RIGHT" /\ d.spinup = SpinupRight
               /\ d.motor[m].left_pos = p
<1>1. PICK s : s = Sample(c, p)
  OBVIOUS
<1>2. /\ s \in CalType /\ s.motor = c.motor /\ s.spinup = c.spinup
      /\ Velocity(c, p) \in Int
  BY <1>1, SampleType
<1>3. PICK v \in Int : v = Velocity(c, p)
  BY <1>2
<1>4. PICK r \in MotorType : r = c.motor[m]
  BY DEF CalType
<1>5. PICK q : q = [r EXCEPT !.drive = 1]
  OBVIOUS
<1>6. PICK q2 : q2 = [q EXCEPT !.left_pos = p, !.state = "RIGHT"]
  OBVIOUS
<1>7. /\ q \in MotorType /\ q2 \in MotorType
      /\ q.drive = 1 /\ q2.drive = 1 /\ q.state = r.state
      /\ q2.state = "RIGHT" /\ q2.left_pos = p
  BY <1>4, <1>5, <1>6 DEF MotorType, MotorState
<1>8. PICK e : e = [s EXCEPT !.motor[m] = q]
  OBVIOUS
<1>9. /\ e \in CalType /\ e.motor[m] = q /\ e.spinup = c.spinup
      /\ e.pos = s.pos /\ e.pos_index = s.pos_index
  <2>1. /\ e \in CalType /\ e.motor[m] = q /\ e.spinup = s.spinup
        /\ e.pos = s.pos /\ e.pos_index = s.pos_index
    <3>1. s \in CalType /\ q \in MotorType /\ e = [s EXCEPT !.motor[m] = q]
      BY <1>2, <1>7, <1>8
    <3>2. e \in CalType
      BY <3>1, SetRecord
    <3>3. e.motor[m] = q
      <4>1. s.motor \in [Motors -> MotorType] /\ e.motor = [s.motor EXCEPT ![m] = q]
        BY <3>1 DEF CalType
      <4> QED
        BY <4>1
    <3>4. e.spinup = s.spinup
      BY <3>1, SetRecord
    <3>5. e.pos = s.pos
      BY <3>1, SetRecord
    <3>6. e.pos_index = s.pos_index
      BY <3>1, SetRecord
    <3> QED
      BY <3>2, <3>3, <3>4, <3>5, <3>6
  <2> QED
    BY <1>2, <2>1
<1>10. [s EXCEPT !.motor[m].drive = 1] = e
  BY <1>2, <1>4, <1>5, <1>8
<1>11. d = IF c.spinup >= 1
           THEN [e EXCEPT !.spinup = IF v > 0 THEN @ - 1 ELSE @]
           ELSE IF v < 1
           THEN [e EXCEPT !.motor[m].left_pos = p, !.motor[m].state = "RIGHT",
                          !.spinup = SpinupRight]
           ELSE e
  BY <1>1, <1>3, <1>10 DEF handle_state, SearchLeft
<1>12. c.spinup \in Nat /\ SpinupRight \in Nat
  BY Sizes DEF CalType
<1>13. CASE c.spinup >= 1
  <2>1. PICK k \in Nat : k = IF v > 0 THEN e.spinup - 1 ELSE e.spinup
    BY <1>9, <1>12, <1>13
  <2>2. d = [e EXCEPT !.spinup = k]
    BY <1>11, <1>13, <2>1
  <2>3. /\ d \in CalType /\ d.motor = e.motor /\ d.spinup = k
        /\ d.pos = e.pos /\ d.pos_index = e.pos_index
    BY <1>9, <2>2, SetSpinup
  <2> QED
    BY <1>1, <1>3, <1>4, <1>7, <1>9, <1>13, <2>1, <2>3 DEF SampledBy
<1>14. CASE ~(c.spinup >= 1) /\ v < 1
  <2>1. PICK f : f = [e EXCEPT !.motor[m] = q2]
    OBVIOUS
  <2>2. /\ f \in CalType /\ f.motor[m] = q2
        /\ f.pos = e.pos /\ f.pos_index = e.pos_index
    BY <1>7, <1>9, <2>1, SetRecord
  <2>3. d = [f EXCEPT !.spinup = SpinupRight]
    <3>1. q2 = [e.motor[m] EXCEPT !.left_pos = p, !.state = "RIGHT"]
      BY <1>6, <1>9
    <3>2. f = [e EXCEPT !.motor[m] = [e.motor[m] EXCEPT !.left_pos = p, !.state = "RIGHT"]]
      BY <2>1, <3>1
    <3>3. [e EXCEPT !.motor[m].left_pos = p, !.motor[m].state = "RIGHT",
                    !.spinup = SpinupRight]
            = [f EXCEPT !.spinup = SpinupRight]
      BY <3>2
    <3> QED
      BY <1>11, <1>14, <3>3
  <2>4. /\ d \in CalType /\ d.motor = f.motor /\ d.spinup = SpinupRight
        /\ d.pos = f.pos /\ d.pos_index = f.pos_index
    BY <1>12, <2>2, <2>3, SetSpinup
  <2> QED
    BY <1>1, <1>3, <1>7, <1>9, <1>12, <1>14, <2>2, <2>4 DEF SampledBy
<1>15. CASE ~(c.spinup >= 1) /\ ~(v < 1)
  BY <1>1, <1>3, <1>4, <1>7, <1>9, <1>11, <1>12, <1>15 DEF SampledBy
<1> QED
  BY <1>13, <1>14, <1>15

LEMMA SearchRightDoes ==
  ASSUME NEW c \in CalType, NEW m \in Motors, NEW p \in Int,
         c.motor[m].state = "RIGHT", NEW d, d = handle_state(c, m, p)
  PROVE  /\ d \in CalType /\ SampledBy(c, d, p)
         /\ d.motor[m].left_pos = c.motor[m].left_pos
         /\ \/ /\ c.spinup >= 1 /\ d.motor[m].state = "RIGHT"
               /\ d.motor[m].drive = -1
               /\ d.spinup = IF Velocity(c, p) < 0 THEN c.spinup - 1 ELSE c.spinup
            \/ /\ c.spinup = 0 /\ Velocity(c, p) <= -1
               /\ d.motor[m].state = "RIGHT" /\ d.motor[m].drive = -1
               /\ d.spinup = 0
            \/ /\ c.spinup = 0 /\ Velocity(c, p) > -1
               /\ d.motor[m].state = "CENTER" /\ d.motor[m].right_pos = p
<1>1. PICK s : s = Sample(c, p)
  OBVIOUS
<1>2. /\ s \in CalType /\ s.motor = c.motor /\ s.spinup = c.spinup
      /\ Velocity(c, p) \in Int
  BY <1>1, SampleType
<1>3. PICK v \in Int : v = Velocity(c, p)
  BY <1>2
<1>4. PICK r \in MotorType : r = c.motor[m]
  BY DEF CalType
<1>5. PICK q : q = [r EXCEPT !.drive = -1]
  OBVIOUS
<1>6. PICK center \in Int : center = (r.left_pos + p) \div 2
  BY DEF MotorType
<1>7. PICK q2 : q2 = [q EXCEPT !.drive = 0, !.right_pos = p, !.state = "CENTER",
                               !.center_pos = center]
  OBVIOUS
<1>8. /\ q \in MotorType /\ q2 \in MotorType
      /\ q.drive = -1 /\ q.state = r.state
      /\ q2.state = "CENTER" /\ q2.right_pos = p
      /\ q.left_pos = r.left_pos /\ q2.left_pos = r.left_pos
  BY <1>4, <1>5, <1>7 DEF MotorType, MotorState
<1>9. PICK e : e = [s EXCEPT !.motor[m] = q]
  OBVIOUS
<1>10. /\ e \in CalType /\ e.motor[m] = q /\ e.spinup = c.spinup
       /\ e.pos = s.pos /\ e.pos_index = s.pos_index
  <2>1. /\ e \in CalType /\ e.motor[m] = q /\ e.spinup = s.spinup
        /\ e.pos = s.pos /\ e.pos_index = s.pos_index
    <3>1. s \in CalType /\ q \in MotorType /\ e = [s EXCEPT !.motor[m] = q]
      BY <1>2, <1>8, <1>9
    <3>2. e \in CalType
      BY <3>1, SetRecord
    <3>3. e.motor[m] = q
      <4>1. s.motor \in [Motors -> MotorType] /\ e.motor = [s.motor EXCEPT ![m] = q]
        BY <3>1 DEF CalType
      <4> QED
        BY <4>1
    <3>4. e.spinup = s.spinup
      BY <3>1, SetRecord
    <3>5. e.pos = s.pos
      BY <3>1, SetRecord
    <3>6. e.pos_index = s.pos_index
      BY <3>1, SetRecord
    <3> QED
      BY <3>2, <3>3, <3>4, <3>5, <3>6
  <2> QED
    BY <1>2, <2>1
<1>11. [s EXCEPT !.motor[m].drive = -1] = e
  BY <1>2, <1>4, <1>5, <1>9
<1>12. d = IF c.spinup >= 1
           THEN [e EXCEPT !.spinup = IF v < 0 THEN @ - 1 ELSE @]
           ELSE IF v > -1
           THEN [e EXCEPT !.motor[m].drive = 0,
                          !.motor[m].right_pos = p, !.motor[m].state = "CENTER",
                          !.motor[m].center_pos = center]
           ELSE e
  <2>1. d = SearchRight(c, m, p)
    BY DEF handle_state
  <2> QED
    BY <1>1, <1>3, <1>4, <1>6, <1>11, <2>1 DEF SearchRight
<1>13. c.spinup \in Nat
  BY DEF CalType
<1>14. CASE c.spinup >= 1
  <2>1. PICK k \in Nat : k = IF v < 0 THEN e.spinup - 1 ELSE e.spinup
    BY <1>10, <1>13, <1>14
  <2>2. d = [e EXCEPT !.spinup = k]
    BY <1>12, <1>14, <2>1
  <2>3. /\ d \in CalType /\ d.motor = e.motor /\ d.spinup = k
        /\ d.pos = e.pos /\ d.pos_index = e.pos_index
    BY <1>10, <2>2, SetSpinup
  <2> QED
    BY <1>1, <1>3, <1>4, <1>8, <1>10, <1>14, <2>1, <2>3 DEF SampledBy
<1>15. CASE ~(c.spinup >= 1) /\ v > -1
  <2>1. d = [e EXCEPT !.motor[m] = q2]
    <3>1. q2 = [e.motor[m] EXCEPT !.drive = 0, !.right_pos = p, !.state = "CENTER",
                                  !.center_pos = center]
      BY <1>7, <1>10
    <3>2. [e EXCEPT !.motor[m].drive = 0, !.motor[m].right_pos = p,
                    !.motor[m].state = "CENTER", !.motor[m].center_pos = center]
            = [e EXCEPT !.motor[m] = q2]
      BY <3>1
    <3> QED
      BY <1>12, <1>15, <3>2
  <2>2. /\ d \in CalType /\ d.motor[m] = q2
        /\ d.pos = e.pos /\ d.pos_index = e.pos_index
    BY <1>8, <1>10, <2>1, SetRecord
  <2> QED
    BY <1>1, <1>3, <1>4, <1>8, <1>10, <1>13, <1>15, <2>2 DEF SampledBy
<1>16. CASE ~(c.spinup >= 1) /\ ~(v > -1)
  BY <1>1, <1>3, <1>4, <1>8, <1>10, <1>12, <1>13, <1>16 DEF SampledBy
<1> QED
  BY <1>14, <1>15, <1>16

(* A call on the way to the left, in time for a motor that turns.          *)
LEMMA LeftStep ==
  ASSUME NEW c \in CalType, NEW m \in Motors, NEW p \in Int, NEW n \in Nat,
         NEW started \in BOOLEAN, LeftOK(c, m, p, n, started),
         c.motor[m].state = "LEFT", p <= LeftStop[m], Spinup >= 1,
         started /\ p < LeftEnd(m) => n <= BufSize - 3,
         NEW d, d = handle_state(c, m, p)
  PROVE  \/ d.motor[m].state = "LEFT" /\ LeftOK(d, m, p, n + 1, started)
         \/ d.motor[m].state = "RIGHT" /\ d.motor[m].left_pos \in LeftEnd(m) .. LeftStop[m]
<1>1. /\ d \in CalType /\ SampledBy(c, d, p)
      /\ \/ /\ c.spinup >= 1 /\ d.motor[m].state = "LEFT"
            /\ d.spinup = IF Velocity(c, p) > 0 THEN c.spinup - 1 ELSE c.spinup
         \/ /\ c.spinup = 0 /\ d.motor[m].state = "LEFT" /\ d.spinup = 0
         \/ /\ c.spinup = 0 /\ Velocity(c, p) < 1
            /\ d.motor[m].state = "RIGHT" /\ d.motor[m].left_pos = p
  BY SearchLeftDoes
<1>2. /\ Ago(d, 1) = p
      /\ \A k \in 2 .. BufSize : Ago(d, k) = Ago(c, k - 1)
      /\ Velocity(c, p) = p - Ago(c, BufSize - 2)
      /\ \A k \in 1 .. BufSize : Ago(c, k) \in Int
  BY <1>1, RingShifts DEF SampledBy
<1>3. /\ BufSize \in Nat /\ BufSize > 2 /\ LeftStop[m] \in Int
      /\ LeftEnd(m) \in Int /\ LeftEnd(m) <= LeftStop[m]
  BY Sizes
<1>4. \A k \in 1 .. BufSize : k = 1 \/ (k \in 2 .. BufSize /\ k - 1 \in 1 .. BufSize)
  BY <1>3
<1>5. BufSize - 2 \in 1 .. BufSize
  BY <1>3
<1>6. p < LeftEnd(m) => \A k \in 1 .. BufSize : Ago(d, k) <= p
  <2> SUFFICES ASSUME p < LeftEnd(m), NEW k \in 1 .. BufSize PROVE Ago(d, k) <= p
    OBVIOUS
  <2>1. CASE k = 1
    BY <1>2, <2>1
  <2>2. CASE k \in 2 .. BufSize /\ k - 1 \in 1 .. BufSize
    BY <1>2, <2>2 DEF LeftOK
  <2> QED
    BY <1>4, <2>1, <2>2
<1>7. CASE ~started
  <2>1. p = 0 /\ c.spinup = Spinup /\ \A k \in 1 .. BufSize : Ago(c, k) = 0
    BY <1>7 DEF LeftOK
  <2>2. Velocity(c, p) = 0
    BY <1>2, <1>5, <2>1
  <2>3. d.motor[m].state = "LEFT" /\ d.spinup = Spinup
    BY <1>1, <2>1, <2>2
  <2>4. \A k \in 1 .. BufSize : Ago(d, k) = 0
    BY <1>2, <1>4, <2>1
  <2> QED
    BY <1>6, <1>7, <2>1, <2>3, <2>4 DEF LeftOK
<1>8. CASE started /\ p >= LeftEnd(m)
  <2>1. ~(p < LeftEnd(m))
    BY <1>3, <1>8
  <2>2. p \in LeftEnd(m) .. LeftStop[m]
    BY <1>3, <1>8
  <2> QED
    BY <1>1, <1>8, <2>1, <2>2 DEF LeftOK
<1>9. CASE started /\ p < LeftEnd(m)
  <2>1. \A k \in 1 .. BufSize : k > n => Ago(c, k) < p
    BY <1>9 DEF LeftOK
  <2>2. BufSize - 2 > n
    BY <1>3, <1>9
  <2>3. Ago(c, BufSize - 2) < p /\ Ago(c, BufSize - 2) \in Int
    BY <1>2, <1>5, <2>1, <2>2
  <2>4. Velocity(c, p) >= 1
    BY <1>2, <2>3
  <2>5. d.motor[m].state = "LEFT"
    BY <1>1, <1>2, <2>3, <2>4
  <2>6. \A k \in 1 .. BufSize : k > n + 1 => Ago(d, k) < p
    <3> SUFFICES ASSUME NEW k \in 1 .. BufSize, k > n + 1 PROVE Ago(d, k) < p
      OBVIOUS
    <3>1. k \in 2 .. BufSize /\ k - 1 \in 1 .. BufSize /\ k - 1 > n
      BY <1>3
    <3> QED
      BY <1>2, <2>1, <3>1
  <2> QED
    BY <1>6, <1>9, <2>5, <2>6 DEF LeftOK
<1> QED
  BY <1>3, <1>7, <1>8, <1>9

(* A call on the way to the right: the spin-up is longer than the ring, so *)
(* that it is over only when every sample in the ring is one of this way.  *)
LEMMA RightStep ==
  ASSUME NEW c \in CalType, NEW m \in Motors, NEW p \in Int, NEW n \in Nat,
         NEW started \in BOOLEAN, NEW j \in Nat, RightOK(c, m, p, n, started, j),
         c.motor[m].state = "RIGHT", RightStop[m] <= p, SpinupRight >= BufSize - 1,
         started /\ p > RightEnd(m) => n <= BufSize - 3,
         NEW d, d = handle_state(c, m, p)
  PROVE  \/ /\ d.motor[m].state = "RIGHT" /\ d.motor[m].drive = -1
            /\ RightOK(d, m, p, n + 1, started, j + 1)
         \/ d.motor[m].state = "CENTER" /\ d.motor[m].right_pos \in RightStop[m] .. RightEnd(m)
<1>1. /\ d \in CalType /\ SampledBy(c, d, p)
      /\ \/ /\ c.spinup >= 1 /\ d.motor[m].state = "RIGHT"
            /\ d.motor[m].drive = -1
            /\ d.spinup = IF Velocity(c, p) < 0 THEN c.spinup - 1 ELSE c.spinup
         \/ /\ c.spinup = 0
            /\ d.motor[m].state = "RIGHT" /\ d.motor[m].drive = -1
            /\ d.spinup = 0
         \/ /\ c.spinup = 0 /\ Velocity(c, p) > -1
            /\ d.motor[m].state = "CENTER" /\ d.motor[m].right_pos = p
  BY SearchRightDoes
<1>2. /\ Ago(d, 1) = p
      /\ \A k \in 2 .. BufSize : Ago(d, k) = Ago(c, k - 1)
      /\ Velocity(c, p) = p - Ago(c, BufSize - 2)
      /\ \A k \in 1 .. BufSize : Ago(c, k) \in Int
  BY <1>1, RingShifts DEF SampledBy
<1>3. /\ BufSize \in Nat /\ BufSize > 2 /\ RightStop[m] \in Int
      /\ RightEnd(m) \in Int /\ RightStop[m] <= RightEnd(m)
      /\ SpinupRight \in Nat /\ c.spinup \in Nat
  BY Sizes DEF CalType
<1>4. \A k \in 1 .. BufSize : k = 1 \/ (k \in 2 .. BufSize /\ k - 1 \in 1 .. BufSize)
  BY <1>3
<1>5. BufSize - 2 \in 1 .. BufSize
  BY <1>3
<1>6. ~started \/ p > RightEnd(m) =>
        \A k \in 1 .. BufSize : k <= j + 1 => Ago(d, k) >= p
  <2> SUFFICES ASSUME ~started \/ p > RightEnd(m),
                      NEW k \in 1 .. BufSize, k <= j + 1
               PROVE  Ago(d, k) >= p
    OBVIOUS
  <2>1. k = 1 \/ (k \in 2 .. BufSize /\ k - 1 \in 1 .. BufSize /\ k - 1 <= j)
    BY <1>3
  <2> QED
    BY <1>2, <2>1 DEF RightOK
<1>7. \/ d.spinup \in {c.spinup, c.spinup - 1} /\ d.spinup \in Nat
      \/ d.motor[m].state = "CENTER"
  BY <1>1, <1>3
<1>8. d.motor[m].state = "RIGHT" => d.spinup + (j + 1) >= SpinupRight
  BY <1>1, <1>3, <1>7 DEF RightOK
<1>9. CASE ~started
  <2>1. /\ c.spinup + BufSize - 2 >= SpinupRight
        /\ \A k \in 1 .. BufSize : k <= j => Ago(c, k) = p
    BY <1>9 DEF RightOK
  <2>2. c.spinup >= 1
    BY <1>3, <2>1
  <2>3. /\ d.motor[m].state = "RIGHT" /\ d.motor[m].drive = -1
        /\ d.spinup = IF Velocity(c, p) < 0 THEN c.spinup - 1 ELSE c.spinup
    BY <1>1, <2>2
  <2>4. d.spinup + BufSize - 2 >= SpinupRight
    <3>1. CASE BufSize - 2 <= j
      <4>1. Velocity(c, p) = 0
        BY <1>2, <1>5, <2>1, <3>1
      <4> QED
        BY <2>1, <2>3, <4>1
    <3>2. CASE ~(BufSize - 2 <= j)
      <4>1. d.spinup \in Nat
        BY <1>3, <2>2, <2>3
      <4> QED
        BY <1>3, <1>8, <2>3, <3>2, <4>1
    <3> QED
      BY <3>1, <3>2
  <2>5. \A k \in 1 .. BufSize : k <= j + 1 => Ago(d, k) = p
    <3> SUFFICES ASSUME NEW k \in 1 .. BufSize, k <= j + 1 PROVE Ago(d, k) = p
      OBVIOUS
    <3>1. k = 1 \/ (k \in 2 .. BufSize /\ k - 1 \in 1 .. BufSize /\ k - 1 <= j)
      BY <1>3
    <3> QED
      BY <1>2, <2>1, <3>1
  <2> QED
    BY <1>6, <1>8, <1>9, <2>3, <2>4, <2>5 DEF RightOK
<1>10. CASE started /\ p <= RightEnd(m)
  <2>1. ~(p > RightEnd(m))
    BY <1>3, <1>10
  <2>2. p \in RightStop[m] .. RightEnd(m)
    BY <1>3, <1>10
  <2> QED
    BY <1>1, <1>8, <1>10, <2>1, <2>2 DEF RightOK
<1>11. CASE started /\ p > RightEnd(m)
  <2>1. \A k \in 1 .. BufSize : k > n /\ k <= j => Ago(c, k) > p
    BY <1>11 DEF RightOK
  <2>2. d.motor[m].state = "RIGHT" /\ d.motor[m].drive = -1
    <3>1. CASE c.spinup = 0
      <4>1. BufSize - 2 > n /\ BufSize - 2 <= j
        BY <1>3, <1>11, <3>1 DEF RightOK
      <4>2. Ago(c, BufSize - 2) > p /\ Ago(c, BufSize - 2) \in Int
        BY <1>2, <1>5, <2>1, <4>1
      <4>3. ~(Velocity(c, p) > -1)
        BY <1>2, <4>2
      <4> QED
        BY <1>1, <3>1, <4>3
    <3>2. CASE c.spinup # 0
      BY <1>1, <3>2
    <3> QED
      BY <3>1, <3>2
  <2>3. \A k \in 1 .. BufSize : k > n + 1 /\ k <= j + 1 => Ago(d, k) > p
    <3> SUFFICES ASSUME NEW k \in 1 .. BufSize, k > n + 1, k <= j + 1
                 PROVE  Ago(d, k) > p
      OBVIOUS
    <3>1. k \in 2 .. BufSize /\ k - 1 \in 1 .. BufSize /\ k - 1 > n /\ k - 1 <= j
      BY <1>3
    <3> QED
      BY <1>2, <2>1, <3>1
  <2> QED
    BY <1>6, <1>8, <1>11, <2>2, <2>3 DEF RightOK
<1> QED
  BY <1>3, <1>9, <1>10, <1>11
-----------------------------------------------------------------------------
(* What no call takes back: a stop that was found, and nothing touches a   *)
(* motor that waits.                                                       *)
Keeps(c, d) ==
  \A m \in Motors :
    /\ d.motor[m].state = "WAITING" => d.motor[m] = c.motor[m]
    /\ c.motor[m].state \in {"RIGHT", "CENTER", "READY"} =>
         /\ d.motor[m].state \in {"RIGHT", "CENTER", "READY"}
         /\ d.motor[m].left_pos = c.motor[m].left_pos
    /\ Centered(c, m) =>
         Centered(d, m) /\ d.motor[m].right_pos = c.motor[m].right_pos

LEMMA KeepsTransitive ==
  ASSUME NEW c, NEW d, NEW e, Keeps(c, d), Keeps(d, e)
  PROVE  Keeps(c, e)
<1>1. ASSUME NEW m \in Motors, e.motor[m].state = "WAITING"
      PROVE  e.motor[m] = c.motor[m]
  BY <1>1 DEF Keeps
<1>2. ASSUME NEW m \in Motors, c.motor[m].state \in {"RIGHT", "CENTER", "READY"}
      PROVE  /\ e.motor[m].state \in {"RIGHT", "CENTER", "READY"}
             /\ e.motor[m].left_pos = c.motor[m].left_pos
  BY <1>2 DEF Keeps
<1>3. ASSUME NEW m \in Motors, Centered(c, m)
      PROVE  Centered(e, m) /\ e.motor[m].right_pos = c.motor[m].right_pos
  BY <1>3 DEF Keeps
<1> QED
  BY <1>1, <1>2, <1>3 DEF Keeps

LEMMA HandleKeeps ==
  ASSUME NEW c \in CalType, NEW q \in Motors, NEW p \in Int,
         NEW d, d = handle_state(c, q, p)
  PROVE  Keeps(c, d)
<1>1. /\ d \in CalType
      /\ \A n \in Motors \ {q} : d.motor[n] = c.motor[n]
      /\ Handled(c.motor[q], d.motor[q])
  BY HandleState
<1>2. PICK r \in MotorType : r = c.motor[q]
  BY DEF CalType
<1>3. SUFFICES
        /\ d.motor[q].state = "WAITING" => d.motor[q] = r
        /\ r.state \in {"RIGHT", "CENTER", "READY"} =>
             /\ d.motor[q].state \in {"RIGHT", "CENTER", "READY"}
             /\ d.motor[q].left_pos = r.left_pos
        /\ r.state \in {"CENTER", "READY"} =>
             /\ d.motor[q].state \in {"CENTER", "READY"}
             /\ d.motor[q].right_pos = r.right_pos
  BY <1>1, <1>2 DEF Keeps, Centered
<1>4. d.motor[q].state = "WAITING" => d.motor[q] = r
  BY <1>1, <1>2 DEF Handled, handle_state
<1>5. CASE r.state = "RIGHT"
  <2>1. /\ d.motor[q].left_pos = r.left_pos
        /\ d.motor[q].state \in {"RIGHT", "CENTER"}
    BY <1>2, <1>5, SearchRightDoes
  <2> QED
    BY <1>4, <1>5, <2>1
<1>6. CASE r.state \in {"CENTER", "READY"}
  <2>1. \E e \in MotorType : /\ d = [c EXCEPT !.motor[q] = e]
                             /\ e.state \in {"CENTER", "READY"}
                             /\ e.left_pos = r.left_pos /\ e.right_pos = r.right_pos
    <3>0. PICK goal \in Int : goal = r.center_pos
      BY DEF MotorType
    <3> DEFINE turned(x) == [r EXCEPT !.drive = x]
    <3>1. PICK there : there = [r EXCEPT !.drive = 0, !.target = goal, !.state = "READY"]
      OBVIOUS
    <3>2. /\ \A x \in {-1, 0, 1} :
               /\ turned(x) \in MotorType /\ turned(x).state \in {"CENTER", "READY"}
               /\ turned(x).left_pos = r.left_pos /\ turned(x).right_pos = r.right_pos
          /\ there \in MotorType /\ there.state = "READY"
          /\ there.left_pos = r.left_pos /\ there.right_pos = r.right_pos
      BY <1>6, <3>1 DEF MotorType, MotorState
    <3>3. \/ \E x \in {-1, 0, 1} : d = [c EXCEPT !.motor[q].drive = x]
          \/ d = [c EXCEPT !.motor[q].drive = 0,
                           !.motor[q].target = goal, !.motor[q].state = "READY"]
      <4>1. CASE r.state = "CENTER"
        <5>1. d = GoToCenter(c, q, p)
          BY <1>2, <4>1 DEF handle_state
        <5>2. \/ d = [c EXCEPT !.motor[q].drive = 1]
              \/ d = [c EXCEPT !.motor[q].drive = -1]
              \/ d = [c EXCEPT !.motor[q].drive = 0,
                               !.motor[q].target = goal, !.motor[q].state = "READY"]
          BY <1>2, <3>0, <5>1, Zenon DEF GoToCenter
        <5> QED
          BY <5>2
      <4>2. CASE r.state = "READY"
        BY <1>2, <4>2 DEF handle_state, FollowTarget
      <4> QED
        BY <1>6, <4>1, <4>2
    <3>4. CASE \E x \in {-1, 0, 1} : d = [c EXCEPT !.motor[q].drive = x]
      <4>1. PICK x \in {-1, 0, 1} : d = [c EXCEPT !.motor[q].drive = x]
        BY <3>4
      <4>2. d = [c EXCEPT !.motor[q] = turned(x)]
        BY <1>2, <4>1
      <4> QED
        BY <3>2, <4>2
    <3>5. CASE d = [c EXCEPT !.motor[q].drive = 0,
                             !.motor[q].target = goal, !.motor[q].state = "READY"]
      <4>1. [c EXCEPT !.motor[q].drive = 0, !.motor[q].target = goal,
                      !.motor[q].state = "READY"]
              = [c EXCEPT !.motor[q] =
                   [c.motor[q] EXCEPT !.drive = 0, !.target = goal, !.state = "READY"]]
        OBVIOUS
      <4>2. d = [c EXCEPT !.motor[q] = there]
        BY <1>2, <3>1, <3>5, <4>1
      <4> QED
        BY <3>2, <4>2
    <3> QED
      BY <3>3, <3>4, <3>5
  <2>2. PICK e \in MotorType : /\ d = [c EXCEPT !.motor[q] = e]
                               /\ e.state \in {"CENTER", "READY"}
                               /\ e.left_pos = r.left_pos /\ e.right_pos = r.right_pos
    BY <2>1
  <2>3. d.motor[q] = e
    <3>1. c.motor \in [Motors -> MotorType] /\ d.motor = [c.motor EXCEPT ![q] = e]
      BY <2>2 DEF CalType
    <3> QED
      BY <3>1
  <2> QED
    BY <1>6, <2>2, <2>3
<1>7. CASE r.state \in {"WAITING", "LEFT"}
  BY <1>4, <1>7
<1> QED
  BY <1>5, <1>6, <1>7 DEF MotorType, MotorState

(* All that a call for another motor leaves to motor m.                    *)
SameRing(c, d) ==
  d.pos = c.pos /\ d.pos_index = c.pos_index /\ d.spinup = c.spinup

Apart(c, d, m) == SameRing(c, d) /\ d.motor[m] = c.motor[m]

(* A call for m, and what else happens, which leaves m alone.              *)
Applied(c, d, m, p) ==
  \E a \in CalType : \E b \in {handle_state(a, m, p)} :
    Apart(c, a, m) /\ Apart(b, d, m)

LEMMA StandsApart ==
  ASSUME NEW c, Calm(c), NEW m \in Motors, c.rover_state = m,
         NEW q \in Motors, q # m, NEW p \in Int, NEW d, d = handle_state(c, q, p)
  PROVE  Apart(c, d, m)
<1>1. c \in CalType /\ c.motor[q].state \in {"WAITING", "READY"}
  <2>1. Rank(q) # Rank(m) /\ Rank(q) \in Int /\ Rank(m) \in Int
    BY RankFacts
  <2> QED
    BY <2>1 DEF Calm, Ordered
<1>2. d.motor[m] = c.motor[m]
  BY <1>1, HandleState
<1>3. d = c \/ \E x : d = [c EXCEPT !.motor[q].drive = x]
  BY <1>1 DEF handle_state, FollowTarget
<1>4. SameRing(c, d)
  BY <1>1, <1>3 DEF SameRing, CalType
<1> QED
  BY <1>2, <1>4 DEF Apart

LEMMA HandleTurn ==
  ASSUME NEW c \in CalType, NEW m \in Motors, NEW p \in Int
  PROVE  handle_state(c, m, p).rover_state = c.rover_state
BY HandleState

(* The loop over the motors is one call for the motor whose turn it is.    *)
LEMMA LoopApplies ==
  ASSUME NEW c1, Calm(c1), NEW m \in Motors, c1.rover_state = m,
         NEW s \in [Motors -> Int],
         NEW c2, c2 = handle_state(c1, "FR", s["FR"]),
         NEW c3, c3 = handle_state(c2, "RR", s["RR"]),
         NEW c4, c4 = handle_state(c3, "FL", s["FL"]),
         NEW c5, c5 = handle_state(c4, "RL", s["RL"])
  PROVE  Applied(c1, c5, m, s[m])
<1>1. /\ "FR" \in Motors /\ s["FR"] \in Int /\ "RR" \in Motors /\ s["RR"] \in Int
      /\ "FL" \in Motors /\ s["FL"] \in Int /\ "RL" \in Motors /\ s["RL"] \in Int
  BY DEF Motors
<1>2. Calm(c2) /\ c2.rover_state = m
  <2>1. Calm(c2)
    BY <1>1, HandleCalm
  <2>2. c2.rover_state = c1.rover_state
    BY <1>1, HandleTurn DEF Calm
  <2> QED
    BY <2>1, <2>2
<1>3. Calm(c3) /\ c3.rover_state = m
  <2>1. Calm(c3)
    BY <1>1, <1>2, HandleCalm
  <2>2. c3.rover_state = c2.rover_state
    BY <1>1, <1>2, HandleTurn DEF Calm
  <2> QED
    BY <1>2, <2>1, <2>2
<1>4. Calm(c4) /\ c4.rover_state = m
  <2>1. Calm(c4)
    BY <1>1, <1>3, HandleCalm
  <2>2. c4.rover_state = c3.rover_state
    BY <1>1, <1>3, HandleTurn DEF Calm
  <2> QED
    BY <1>3, <2>1, <2>2
<1>5. /\ c1 \in CalType /\ c2 \in CalType /\ c3 \in CalType /\ c4 \in CalType
  BY <1>2, <1>3, <1>4 DEF Calm
<1>6. /\ m # "FR" => Apart(c1, c2, m)
      /\ m # "RR" => Apart(c2, c3, m)
      /\ m # "FL" => Apart(c3, c4, m)
      /\ m # "RL" => Apart(c4, c5, m)
  BY <1>1, <1>2, <1>3, <1>4, StandsApart
<1>7. CASE m = "FR"
  <2>1. Apart(c1, c1, m) /\ Apart(c2, c5, m)
    BY <1>6, <1>7 DEF Apart, SameRing
  <2> QED
    BY <1>5, <1>7, <2>1 DEF Applied
<1>8. CASE m = "RR"
  <2>1. Apart(c1, c2, m) /\ Apart(c3, c5, m)
    BY <1>6, <1>8 DEF Apart, SameRing
  <2> QED
    BY <1>5, <1>8, <2>1 DEF Applied
<1>9. CASE m = "FL"
  <2>1. Apart(c1, c3, m) /\ Apart(c4, c5, m)
    BY <1>6, <1>9 DEF Apart, SameRing
  <2> QED
    BY <1>5, <1>9, <2>1 DEF Applied
<1>10. CASE m = "RL"
  <2>1. Apart(c1, c4, m) /\ Apart(c5, c5, m)
    BY <1>6, <1>10 DEF Apart, SameRing
  <2> QED
    BY <1>5, <1>10, <2>1 DEF Applied
<1> QED
  BY <1>7, <1>8, <1>9, <1>10 DEF Motors

(* A motor's turn begins with the ring as the one before has left it.      *)
Turn(c, n) == [calibrate(c, n) EXCEPT !.rover_state = n]

LEMMA TurnStarts ==
  ASSUME NEW c, Calm(c), NEW n \in Motors, c.motor[n].state = "WAITING"
  PROVE  /\ SameRing(c, Turn(c, n)) /\ Keeps(c, Turn(c, n))
         /\ Turn(c, n).motor[n].state = "LEFT" /\ Turn(c, n).rover_state = n
<1>0. PICK d : d = Turn(c, n)
  OBVIOUS
<1>1. PICK q : q = [c.motor[n] EXCEPT !.state = "LEFT"]
  OBVIOUS
<1>2. c \in CalType /\ q \in MotorType /\ q.state = "LEFT"
  BY <1>1 DEF Calm, CalType, MotorType, MotorState
<1>3. PICK e : e = [c EXCEPT !.motor[n] = q]
  OBVIOUS
<1>4. e = calibrate(c, n)
  BY <1>1, <1>3 DEF calibrate
<1>5. /\ e \in CalType /\ SameRing(c, e)
      /\ e.motor = [c.motor EXCEPT ![n] = q] /\ c.motor \in [Motors -> MotorType]
  BY <1>2, <1>3 DEF CalType, SameRing
<1>6. d.motor = e.motor /\ SameRing(e, d) /\ d.rover_state = n
  BY <1>0, <1>4, <1>5 DEF CalType, SameRing, Turn
<1>7. d.motor[n] = q /\ \A k \in Motors \ {n} : d.motor[k] = c.motor[k]
  BY <1>5, <1>6
<1>8. Keeps(c, d)
  BY <1>2, <1>7 DEF Keeps, Centered
<1>9. SameRing(c, d) /\ d.motor[n].state = "LEFT" /\ d.rover_state = n
  BY <1>2, <1>5, <1>6, <1>7 DEF SameRing
<1> QED
  BY <1>0, <1>8, <1>9

(* rover_calibrate: a call for the motor that searches or centers, the     *)
(* beginning of another one's turn, or the end of the last one's.          *)
Called(c, d, s) ==
  c.rover_state \in Motors /\ d.rover_state = c.rover_state
    /\ d = handle_state(c, c.rover_state, s[c.rover_state])

Begun(c, d) ==
  /\ c.rover_state \in Motors => Centered(c, c.rover_state)
  /\ SameRing(c, d) /\ d.rover_state \in Motors
  /\ Rank(d.rover_state) = Rank(c.rover_state) + 1
  /\ d.motor[d.rover_state].state = "LEFT"
  /\ c.motor[d.rover_state].state = "WAITING"

LEMMA CalibrateDoes ==
  ASSUME NEW c, Calm(c), NEW s \in [Motors -> Int],
         NEW d, d = rover_calibrate(c, s)
  PROVE  /\ Keeps(c, d)
         /\ \/ Called(c, d, s)
            \/ Begun(c, d)
            \/ d.rover_state = Everybody /\ \A m \in Motors : Centered(c, m)
<1>0. c \in CalType /\ Ordered(c) /\ c.rover_state \in Motors \cup {Nobody, Everybody}
  BY DEF Calm, CalType
<1>1. CASE c.rover_state = Nobody
  <2>1. d = [calibrate(c, "FR") EXCEPT !.rover_state = "FR"]
    BY <1>1 DEF rover_calibrate, Nobody, Everybody
  <2>2. "FR" \in Motors /\ Nobody \notin Motors /\ c.motor["FR"].state = "WAITING"
    BY <1>0, <1>1, RankFacts DEF Ordered, Motors
  <2>3. /\ SameRing(c, d) /\ Keeps(c, d)
        /\ d.motor["FR"].state = "LEFT" /\ d.rover_state = "FR"
    <3>1. d = Turn(c, "FR")
      BY <2>1 DEF Turn
    <3> QED
      BY <2>2, <3>1, TurnStarts
  <2> QED
    BY <1>1, <2>2, <2>3, RankFacts DEF Begun
<1>2. CASE c.rover_state = Everybody
  <2>1. d = c
    BY <1>2 DEF rover_calibrate, Nobody, Everybody
  <2>2. \A m \in Motors : Centered(c, m)
    BY <1>0, <1>2, RankFacts DEF Ordered, Centered
  <2> QED
    BY <1>2, <2>1, <2>2 DEF Keeps
<1>3. CASE c.rover_state \in Motors
  <2>1. PICK m \in Motors : m = c.rover_state
    BY <1>3
  <2>2. PICK e : e = handle_state(c, m, s[m])
    OBVIOUS
  <2>3. s[m] \in Int
    OBVIOUS
  <2>4. /\ Calm(e) /\ e.rover_state = m /\ Keeps(c, e) /\ e \in CalType
        /\ Handled(c.motor[m], e.motor[m])
    BY <1>0, <2>1, <2>2, <2>3, HandleCalm, HandleKeeps, HandleState
  <2>5. d = IF e.motor[m].state # "READY" THEN e
            ELSE [IF Successor(m) = Everybody THEN e ELSE calibrate(e, Successor(m))
                    EXCEPT !.rover_state = Successor(m)]
    BY <2>1, <2>2, RankFacts DEF rover_calibrate, Stage
  <2>6. CASE e.motor[m].state # "READY"
    BY <1>3, <2>1, <2>2, <2>4, <2>5, <2>6 DEF Called
  <2>7. CASE e.motor[m].state = "READY"
    <3>1. Centered(c, m) /\ SameRing(c, e)
      <4>1. PICK r \in MotorType : r = c.motor[m]
        BY <1>0 DEF CalType
      <4>2. r.state # "WAITING"
        BY <2>4, <2>7, <4>1 DEF Handled
      <4>3. r.state # "LEFT"
        <5>1. r.state = "LEFT" => e.motor[m].state \in {"LEFT", "RIGHT"}
          BY <1>0, <2>2, <2>3, <4>1, SearchLeftDoes
        <5> QED
          BY <2>7, <5>1
      <4>4. r.state # "RIGHT"
        <5>1. r.state = "RIGHT" => e.motor[m].state \in {"RIGHT", "CENTER"}
          BY <1>0, <2>2, <2>3, <4>1, SearchRightDoes
        <5> QED
          BY <2>7, <5>1
      <4>5. r.state \in {"CENTER", "READY"}
        BY <4>2, <4>3, <4>4 DEF MotorType, MotorState
      <4>6. SameRing(c, GoToCenter(c, m, s[m])) /\ SameRing(c, FollowTarget(c, m, s[m]))
        BY <1>0 DEF SameRing, GoToCenter, FollowTarget, CalType
      <4> QED
        BY <2>2, <4>1, <4>5, <4>6 DEF handle_state, Centered
    <3>2. CASE Successor(m) = Everybody
      <4>1. d = [e EXCEPT !.rover_state = Everybody]
        BY <2>5, <2>7, <3>2
      <4>2. d.motor = e.motor /\ d.rover_state = Everybody
        BY <2>4, <4>1 DEF CalType
      <4>3. Keeps(c, d)
        BY <2>4, <4>2 DEF Keeps, Centered
      <4>4. Rank(m) = 4
        BY <3>2, SuccessorRank, RankFacts
      <4>5. \A k \in Motors : Rank(k) < 4 \/ k = m
        BY <4>4, RankFacts
      <4>6. \A k \in Motors : Centered(c, k)
        BY <1>0, <2>1, <3>1, <4>4, <4>5 DEF Ordered, Centered
      <4> QED
        BY <4>2, <4>3, <4>6
    <3>3. CASE Successor(m) # Everybody
      <4>1. PICK n \in Motors : n = Successor(m)
        BY <3>3, SuccessorRank
      <4>2. e.motor[n].state = "WAITING" /\ c.motor[n].state = "WAITING" /\ n # m
        <5>1. Rank(n) = Rank(m) + 1 /\ Rank(m) \in Int
          BY <4>1, SuccessorRank, RankFacts
        <5> QED
          BY <1>0, <2>1, <2>4, <5>1 DEF Ordered, Calm
      <4>3. d = [calibrate(e, n) EXCEPT !.rover_state = n]
        BY <2>5, <2>7, <3>3, <4>1
      <4>4. /\ SameRing(e, d) /\ Keeps(e, d)
            /\ d.motor[n].state = "LEFT" /\ d.rover_state = n
        <5>1. d = Turn(e, n)
          BY <4>3 DEF Turn
        <5> QED
          BY <2>4, <4>2, <5>1, TurnStarts
      <4>5. Keeps(c, d) /\ SameRing(c, d)
        BY <2>4, <3>1, <4>4, KeepsTransitive DEF SameRing
      <4> QED
        BY <2>1, <3>1, <4>1, <4>2, <4>4, <4>5, SuccessorRank DEF Begun
    <3> QED
      BY <3>2, <3>3
  <2> QED
    BY <2>6, <2>7
<1> QED
  BY <1>0, <1>1, <1>2, <1>3

(* One period for one motor.                                               *)
LEMMA MotorTick ==
  ASSUME IInv, Tick, NEW m \in Motors
  PROVE  /\ Keeps(cal, cal') /\ cal'.rover_state # Nobody
         /\ \/ cal'.motor[m].state = "WAITING"
            \/ /\ cal.motor[m].state = "WAITING"
               /\ \E c \in CalType : /\ SameRing(cal, c) /\ c.motor[m].state = "LEFT"
                                     /\ Applied(c, cal', m, shaft'[m])
            \/ /\ cal.motor[m].state \in {"LEFT", "RIGHT"}
               /\ \E c \in CalType : /\ c = handle_state(cal, m, shaft'[m])
                                     /\ Applied(c, cal', m, shaft'[m])
            \/ Centered(cal, m)
<1>0. Calm(cal) /\ cal \in CalType /\ Ordered(cal)
  BY TypeIsCalType DEF IInv, Calm
<1>1. shaft' \in [Motors -> Int] /\ Calm(cal')
  BY <1>0, TickCalm DEF IInv
<1>2. PICK s \in [Motors -> Int] : s = shaft'
  BY <1>1
<1>3. PICK c1, c2, c3, c4 :
        /\ c1 = rover_calibrate(cal, shaft')
        /\ c2 = handle_state(c1, "FR", shaft'["FR"])
        /\ c3 = handle_state(c2, "RR", shaft'["RR"])
        /\ c4 = handle_state(c3, "FL", shaft'["FL"])
        /\ cal' = handle_state(c4, "RL", shaft'["RL"])
  <2>1. rover_isr
    BY DEF Tick
  <2> QED
    BY <2>1 DEF rover_isr
<1>4. PICK c5 : c5 = cal'
  OBVIOUS
<1>5. /\ c1 = rover_calibrate(cal, s)
      /\ c2 = handle_state(c1, "FR", s["FR"])
      /\ c3 = handle_state(c2, "RR", s["RR"])
      /\ c4 = handle_state(c3, "FL", s["FL"])
      /\ c5 = handle_state(c4, "RL", s["RL"])
  BY <1>2, <1>3, <1>4
<1>6. Calm(c1)
  BY <1>0, <1>5, CalibrateCalm
<1>7. /\ "FR" \in Motors /\ s["FR"] \in Int /\ "RR" \in Motors /\ s["RR"] \in Int
      /\ "FL" \in Motors /\ s["FL"] \in Int /\ "RL" \in Motors /\ s["RL"] \in Int
  BY DEF Motors
<1>8. Calm(c2) /\ Keeps(c1, c2) /\ c2.rover_state = c1.rover_state
  <2>1. Calm(c2)
    BY <1>5, <1>6, <1>7, HandleCalm
  <2>2. Keeps(c1, c2)
    BY <1>5, <1>6, <1>7, HandleKeeps DEF Calm
  <2>3. c2.rover_state = c1.rover_state
    BY <1>5, <1>6, <1>7, HandleTurn DEF Calm
  <2> QED
    BY <2>1, <2>2, <2>3
<1>9. Calm(c3) /\ Keeps(c2, c3) /\ c3.rover_state = c2.rover_state
  <2>1. Calm(c3)
    BY <1>5, <1>8, <1>7, HandleCalm
  <2>2. Keeps(c2, c3)
    BY <1>5, <1>8, <1>7, HandleKeeps DEF Calm
  <2>3. c3.rover_state = c2.rover_state
    BY <1>5, <1>8, <1>7, HandleTurn DEF Calm
  <2> QED
    BY <2>1, <2>2, <2>3
<1>10. Calm(c4) /\ Keeps(c3, c4) /\ c4.rover_state = c3.rover_state
  <2>1. Calm(c4)
    BY <1>5, <1>9, <1>7, HandleCalm
  <2>2. Keeps(c3, c4)
    BY <1>5, <1>9, <1>7, HandleKeeps DEF Calm
  <2>3. c4.rover_state = c3.rover_state
    BY <1>5, <1>9, <1>7, HandleTurn DEF Calm
  <2> QED
    BY <2>1, <2>2, <2>3
<1>11. Keeps(c4, c5) /\ c5.rover_state = c4.rover_state
  <2>1. Keeps(c4, c5)
    BY <1>5, <1>10, <1>7, HandleKeeps DEF Calm
  <2>2. c5.rover_state = c4.rover_state
    BY <1>5, <1>10, <1>7, HandleTurn DEF Calm
  <2> QED
    BY <2>1, <2>2
<1>12. /\ Keeps(cal, c1)
       /\ \/ Called(cal, c1, s)
          \/ Begun(cal, c1)
          \/ c1.rover_state = Everybody /\ \A k \in Motors : Centered(cal, k)
  BY <1>0, <1>5, CalibrateDoes
<1>13. Keeps(cal, c5)
  <2>1. Keeps(cal, c3)
    BY <1>8, <1>9, <1>12, KeepsTransitive
  <2> QED
    BY <1>10, <1>11, <2>1, KeepsTransitive
<1>14. c5.rover_state = c1.rover_state /\ c5.rover_state # Nobody
  BY <1>8, <1>9, <1>10, <1>11, <1>12, RankFacts DEF Called, Begun, Nobody, Everybody
<1>15. c1.rover_state \in Motors => Applied(c1, c5, c1.rover_state, s[c1.rover_state])
  <2>1. SUFFICES ASSUME NEW k \in Motors, c1.rover_state = k
                 PROVE  Applied(c1, c5, k, s[k])
    OBVIOUS
  <2> QED
    BY <1>5, <1>6, <2>1, LoopApplies
<1>16. c1 \in CalType /\ Ordered(c5)
  BY <1>1, <1>4, <1>6 DEF Calm
<1>17. CASE m = c1.rover_state /\ Called(cal, c1, s)
  <2>1. m = cal.rover_state /\ c1 = handle_state(cal, m, s[m])
    BY <1>17 DEF Called
  <2>2. cal.motor[m].state \in {"LEFT", "RIGHT"} \/ Centered(cal, m)
    BY <1>0, <2>1, RankFacts DEF Ordered, Centered, CalType, MotorType, MotorState
  <2>3. Applied(c1, c5, m, s[m])
    BY <1>15, <1>17
  <2> QED
    BY <1>2, <1>4, <1>13, <1>14, <1>16, <2>1, <2>2, <2>3
<1>18. CASE m = c1.rover_state /\ Begun(cal, c1)
  <2>1. /\ cal.motor[m].state = "WAITING" /\ SameRing(cal, c1)
        /\ c1.motor[m].state = "LEFT"
    BY <1>18 DEF Begun
  <2>2. Applied(c1, c5, m, s[m])
    BY <1>15, <1>18
  <2> QED
    BY <1>2, <1>4, <1>13, <1>14, <1>16, <2>1, <2>2
<1>19. CASE m # c1.rover_state /\ (Called(cal, c1, s) \/ Begun(cal, c1))
  <2>1. Centered(cal, m) \/ Rank(c1.rover_state) < Rank(m)
    <3>1. m = cal.rover_state => Centered(cal, m)
      BY <1>19 DEF Called, Begun
    <3>2. Rank(cal.rover_state) \in Int /\ Rank(c1.rover_state) \in Int /\ Rank(m) \in Int
      BY <1>0, <1>19, RankFacts DEF Called, Begun, CalType
    <3>3. Rank(m) < Rank(cal.rover_state) => Centered(cal, m)
      BY <1>0 DEF Ordered, Centered
    <3>4. m # cal.rover_state => Rank(m) # Rank(cal.rover_state)
      BY <1>0, RankFacts DEF CalType
    <3>5. Rank(m) # Rank(c1.rover_state)
      BY <1>19, RankFacts DEF Called, Begun
    <3>6. \/ Rank(c1.rover_state) = Rank(cal.rover_state)
          \/ Rank(c1.rover_state) = Rank(cal.rover_state) + 1
      BY <1>19 DEF Called, Begun
    <3> QED
      BY <3>1, <3>2, <3>3, <3>4, <3>5, <3>6
  <2>2. Rank(c1.rover_state) < Rank(m) => c5.motor[m].state = "WAITING"
    BY <1>14, <1>16 DEF Ordered
  <2> QED
    BY <1>4, <1>13, <1>14, <2>1, <2>2
<1> QED
  BY <1>4, <1>12, <1>13, <1>14, <1>17, <1>18, <1>19
-----------------------------------------------------------------------------
LEMMA SameAgo ==
  ASSUME NEW c, NEW d, SameRing(c, d)
  PROVE  /\ d.spinup = c.spinup /\ \A k : Ago(d, k) = Ago(c, k)
         /\ \A m, p, n, started :
              LeftOK(c, m, p, n, started) => LeftOK(d, m, p, n, started)
         /\ \A m, p, n, started, j :
              RightOK(c, m, p, n, started, j) => RightOK(d, m, p, n, started, j)
<1>1. d.spinup = c.spinup /\ \A k : Ago(d, k) = Ago(c, k)
  BY DEF SameRing, Ago
<1>2. ASSUME NEW m, NEW p, NEW n, NEW started, LeftOK(c, m, p, n, started)
      PROVE  LeftOK(d, m, p, n, started)
  BY <1>1, <1>2 DEF LeftOK
<1>3. ASSUME NEW m, NEW p, NEW n, NEW started, NEW j,
             RightOK(c, m, p, n, started, j)
      PROVE  RightOK(d, m, p, n, started, j)
  BY <1>1, <1>3 DEF RightOK
<1> QED
  BY <1>1, <1>2, <1>3

(* The two lemmas about a call, for a call among others.                   *)
LEMMA LeftApplied ==
  ASSUME NEW c, NEW m \in Motors, NEW p \in Int, NEW n \in Nat,
         NEW started \in BOOLEAN, LeftOK(c, m, p, n, started),
         c.motor[m].state = "LEFT", p <= LeftStop[m], Spinup >= 1,
         started /\ p < LeftEnd(m) => n <= BufSize - 3,
         NEW d, Applied(c, d, m, p)
  PROVE  \/ d.motor[m].state = "LEFT" /\ LeftOK(d, m, p, n + 1, started)
         \/ d.motor[m].state = "RIGHT" /\ d.motor[m].left_pos \in LeftEnd(m) .. LeftStop[m]
<1>1. PICK a, b : /\ a \in CalType /\ b = handle_state(a, m, p)
                  /\ Apart(c, a, m) /\ Apart(b, d, m)
  BY DEF Applied
<1>2. a.motor[m].state = "LEFT" /\ LeftOK(a, m, p, n, started)
  BY <1>1, SameAgo DEF Apart
<1>3. \/ b.motor[m].state = "LEFT" /\ LeftOK(b, m, p, n + 1, started)
      \/ b.motor[m].state = "RIGHT" /\ b.motor[m].left_pos \in LeftEnd(m) .. LeftStop[m]
  BY <1>1, <1>2, LeftStep
<1> QED
  BY <1>1, <1>3, SameAgo DEF Apart

LEMMA RightApplied ==
  ASSUME NEW c, NEW m \in Motors, NEW p \in Int, NEW n \in Nat,
         NEW started \in BOOLEAN, NEW j \in Nat, RightOK(c, m, p, n, started, j),
         c.motor[m].state = "RIGHT", RightStop[m] <= p, SpinupRight >= BufSize - 1,
         started /\ p > RightEnd(m) => n <= BufSize - 3,
         NEW d, Applied(c, d, m, p)
  PROVE  \/ /\ d.motor[m].state = "RIGHT" /\ d.motor[m].drive = -1
            /\ RightOK(d, m, p, n + 1, started, j + 1)
         \/ d.motor[m].state = "CENTER" /\ d.motor[m].right_pos \in RightStop[m] .. RightEnd(m)
<1>1. PICK a, b : /\ a \in CalType /\ b = handle_state(a, m, p)
                  /\ Apart(c, a, m) /\ Apart(b, d, m)
  BY DEF Applied
<1>2. a.motor[m].state = "RIGHT" /\ RightOK(a, m, p, n, started, j)
  BY <1>1, SameAgo DEF Apart
<1>3. \/ /\ b.motor[m].state = "RIGHT" /\ b.motor[m].drive = -1
         /\ RightOK(b, m, p, n + 1, started, j + 1)
      \/ b.motor[m].state = "CENTER" /\ b.motor[m].right_pos \in RightStop[m] .. RightEnd(m)
  BY <1>1, <1>2, RightStep
<1> QED
  BY <1>1, <1>3, SameAgo DEF Apart

(* The search to the left, wherever it ends: the way to the right begins   *)
(* with all of its spin-up and none of its samples.                        *)
LEMMA LeftEnds ==
  ASSUME NEW c \in CalType, NEW m \in Motors, NEW p \in Int,
         c.motor[m].state = "LEFT", NEW d, d = handle_state(c, m, p)
  PROVE  /\ d.motor[m].drive = 1
         /\ \/ d.motor[m].state = "LEFT"
            \/ d.motor[m].state = "RIGHT" /\ d.spinup = SpinupRight
BY SearchLeftDoes

LEMMA LeftAppliedEnds ==
  ASSUME NEW c, NEW m \in Motors, NEW p \in Int,
         c.motor[m].state = "LEFT", NEW d, Applied(c, d, m, p)
  PROVE  /\ d.motor[m].drive = 1
         /\ \/ d.motor[m].state = "LEFT"
            \/ d.motor[m].state = "RIGHT" /\ d.spinup = SpinupRight
<1>1. PICK a, b : /\ a \in CalType /\ b = handle_state(a, m, p)
                  /\ Apart(c, a, m) /\ Apart(b, d, m)
  BY DEF Applied
<1>2. /\ b.motor[m].drive = 1
      /\ \/ b.motor[m].state = "LEFT"
         \/ b.motor[m].state = "RIGHT" /\ b.spinup = SpinupRight
  BY <1>1, LeftEnds DEF Apart
<1> QED
  BY <1>1, <1>2 DEF Apart, SameRing

LEMMA RightBegins ==
  ASSUME NEW c, c.spinup = SpinupRight, NEW m \in Motors, NEW p, NEW n,
         NEW started \in BOOLEAN
  PROVE  RightOK(c, m, p, n, started, 0)
<1>1. BufSize \in Nat /\ BufSize > 2 /\ SpinupRight \in Nat
  BY Sizes
<1>2. \A k \in 1 .. BufSize : ~(k <= 0)
  OBVIOUS
<1> QED
  BY <1>1, <1>2 DEF RightOK

(* Where a motor may be after a period, and that one which turns has not   *)
(* stood still for as long as the velocity looks back.                     *)
LEMMA TickMoves ==
  ASSUME IInv, WithinOK, Tick, NEW m \in Motors, BufSize >= 2 * RunLag + 4
  PROVE  /\ shaft[m] \in Int /\ shaft'[m] \in Int
         /\ still[m] \in Nat /\ still'[m] \in Nat /\ cal.motor[m].drive \in {-1, 0, 1}
         /\ RightStop[m] <= shaft'[m] /\ shaft'[m] <= LeftStop[m]
         /\ turning'[m] \in BOOLEAN /\ turning[m] \in BOOLEAN
         /\ cal'.motor[m].drive # cal.motor[m].drive => turning'[m] = FALSE
         /\ \/ /\ shaft'[m] = shaft[m] + cal.motor[m].drive
               /\ cal.motor[m].drive # 0 /\ still'[m] = 0
               /\ cal'.motor[m].drive = cal.motor[m].drive => turning'[m] = TRUE
            \/ /\ shaft'[m] = shaft[m]
               /\ turning'[m] => turning[m]
               /\ cal'.motor[m].drive = cal.motor[m].drive => turning'[m] = turning[m]
               /\ Driven(m) => still'[m] = still[m] + 1
               /\ Driven(m) /\ turning[m] => still[m] + 1 <= RunLag
            \/ /\ cal.motor[m].drive # 0
               /\ cal.motor[m].drive = 1 => shaft'[m] >= LeftEnd(m)
               /\ cal.motor[m].drive = -1 => shaft'[m] <= RightEnd(m)
               /\ cal'.motor[m].drive = cal.motor[m].drive => turning'[m] = TRUE
<1>1. /\ shaft \in [Motors -> Int] /\ still \in [Motors -> Nat]
      /\ turning \in [Motors -> BOOLEAN] /\ cal \in CalType
  BY TypeIsCalType DEF IInv, TypeOK
<1>2. PICK k \in Steps(m) :
        /\ shaft'[m] = shaft[m] + k
        /\ still'[m] = IF Driven(m) /\ k = 0 THEN still[m] + 1 ELSE 0
        /\ turning'[m] = (/\ cal'.motor[m].drive = cal.motor[m].drive
                          /\ k # 0 \/ turning[m])
  <2>1. PICK fr \in Steps("FR"), rr \in Steps("RR"), fl \in Steps("FL"),
             rl \in Steps("RL") : \E step \in {Sides(fr, rr, fl, rl)} :
          /\ shaft' = [q \in Motors |-> shaft[q] + step[q]]
          /\ still' = [q \in Motors |-> IF Driven(q) /\ step[q] = 0
                                        THEN still[q] + 1 ELSE 0]
          /\ turning' = [q \in Motors |-> /\ cal'.motor[q].drive = cal.motor[q].drive
                                          /\ step[q] # 0 \/ turning[q]]
    BY DEF Tick
  <2>2. PICK step \in {Sides(fr, rr, fl, rl)} :
          /\ shaft' = [q \in Motors |-> shaft[q] + step[q]]
          /\ still' = [q \in Motors |-> IF Driven(q) /\ step[q] = 0
                                        THEN still[q] + 1 ELSE 0]
          /\ turning' = [q \in Motors |-> /\ cal'.motor[q].drive = cal.motor[q].drive
                                          /\ step[q] # 0 \/ turning[q]]
    BY <2>1
  <2>3. step[m] \in Steps(m)
    BY <2>1, <2>2 DEF Sides, Motors
  <2> QED
    BY <2>2, <2>3
<1>3. PICK r \in MotorType : r = cal.motor[m]
  BY <1>1 DEF CalType
<1>4. /\ r.drive \in {-1, 0, 1} /\ LeftStop[m] \in Int /\ RightStop[m] \in Int
      /\ RunLag \in Nat /\ LeftEnd(m) \in Int /\ RightEnd(m) \in Int
      /\ RightStop[m] <= LeftEnd(m) /\ LeftEnd(m) <= LeftStop[m]
      /\ RightStop[m] <= RightEnd(m) /\ RightEnd(m) <= LeftStop[m]
  BY Sizes DEF MotorType
<1>5. RightStop[m] <= shaft[m] /\ shaft[m] <= LeftStop[m]
  BY DEF WithinOK
<1>6. shaft[m] \in Int /\ still[m] \in Nat /\ turning[m] \in BOOLEAN
  BY <1>1
<1>7. /\ turning'[m] <=> (/\ cal'.motor[m].drive = r.drive
                          /\ k # 0 \/ turning[m])
      /\ turning'[m] \in BOOLEAN
  BY <1>2, <1>3
<1>8. CASE k # 0
  <2>1. cal'.motor[m].drive = r.drive => turning'[m] = TRUE
    BY <1>7, <1>8, Zenon
  <2>2. cal'.motor[m].drive # r.drive => turning'[m] = FALSE
    BY <1>7, Zenon
  <2>3. still'[m] \in Nat /\ still'[m] = 0
    BY <1>2, <1>8
  <2>4. r.drive # 0
    BY <1>2, <1>3, <1>8 DEF Steps
  <2>5. CASE Driven(m)
    <3>1. k = r.drive
      BY <1>2, <1>3, <1>8, <2>4, <2>5 DEF Steps
    <3>2. \/ r.drive = 1 /\ shaft[m] < LeftEnd(m)
          \/ r.drive = -1 /\ shaft[m] > RightEnd(m)
      BY <1>3, <2>5 DEF Driven
    <3>3. shaft'[m] = shaft[m] + r.drive
      BY <1>2, <3>1
    <3>4. RightStop[m] <= shaft'[m] /\ shaft'[m] <= LeftStop[m] /\ shaft'[m] \in Int
      BY <1>4, <1>5, <1>6, <3>2, <3>3
    <3> QED
      BY <1>3, <1>4, <1>6, <1>7, <2>1, <2>2, <2>3, <2>4, <3>3, <3>4
  <2>6. CASE ~Driven(m)
    <3>1. /\ k \in Int
          /\ shaft[m] + k \in IF r.drive = 1 THEN LeftEnd(m) .. LeftStop[m]
                                             ELSE RightStop[m] .. RightEnd(m)
      BY <1>2, <1>3, <2>4, <2>6 DEF Steps
    <3>2. /\ r.drive = 1 => shaft'[m] \in LeftEnd(m) .. LeftStop[m]
          /\ r.drive = -1 => shaft'[m] \in RightStop[m] .. RightEnd(m)
      <4>1. PICK x \in Int : x = shaft'[m] /\ x = shaft[m] + k
        BY <1>2, <1>6, <3>1
      <4>2. CASE r.drive = 1
        BY <3>1, <4>1, <4>2
      <4>3. CASE r.drive = -1
        BY <3>1, <4>1, <4>3
      <4> QED
        BY <4>2, <4>3
    <3>3. /\ RightStop[m] <= shaft'[m] /\ shaft'[m] <= LeftStop[m] /\ shaft'[m] \in Int
          /\ r.drive = 1 => shaft'[m] >= LeftEnd(m)
          /\ r.drive = -1 => shaft'[m] <= RightEnd(m)
      BY <1>4, <2>4, <3>2
    <3> QED
      BY <1>3, <1>4, <1>6, <1>7, <2>1, <2>2, <2>3, <2>4, <3>3
  <2> QED
    BY <2>5, <2>6
<1>9. CASE k = 0
  <2>1. /\ shaft'[m] = shaft[m]
        /\ still'[m] = IF Driven(m) THEN still[m] + 1 ELSE 0
    BY <1>2, <1>6, <1>9
  <2>2. Driven(m) => ~Overdue(m)
    <3>1. Driven(m) => r.drive # 0
      BY <1>3 DEF Driven
    <3>2. Driven(m) /\ Overdue(m) => k = r.drive
      BY <1>2, <1>3, <3>1 DEF Steps
    <3> QED
      BY <1>9, <3>1, <3>2
  <2>3. Driven(m) /\ turning[m] => still[m] + 1 <= RunLag
    BY <1>4, <1>6, <2>2 DEF Overdue
  <2>4. still'[m] \in Nat /\ (Driven(m) => still'[m] = still[m] + 1)
    BY <1>6, <2>1
  <2> QED
    BY <1>3, <1>4, <1>5, <1>6, <1>7, <1>9, <2>1, <2>3, <2>4
<1> QED
  BY <1>8, <1>9

LEMMA AppliedKeeps ==
  ASSUME NEW c, NEW m \in Motors, NEW p \in Int, NEW d, Applied(c, d, m, p)
  PROVE  /\ c.motor[m].state \in {"RIGHT", "CENTER", "READY"} =>
              /\ d.motor[m].state \in {"RIGHT", "CENTER", "READY"}
              /\ d.motor[m].left_pos = c.motor[m].left_pos
         /\ Centered(c, m) =>
              Centered(d, m) /\ d.motor[m].right_pos = c.motor[m].right_pos
<1>1. PICK a, b : /\ a \in CalType /\ b = handle_state(a, m, p)
                  /\ Apart(c, a, m) /\ Apart(b, d, m)
  BY DEF Applied
<1>2. Keeps(a, b)
  BY <1>1, HandleKeeps
<1>3. a.motor[m] = c.motor[m] /\ d.motor[m] = b.motor[m]
  BY <1>1 DEF Apart
<1>4. /\ a.motor[m].state \in {"RIGHT", "CENTER", "READY"} =>
           /\ b.motor[m].state \in {"RIGHT", "CENTER", "READY"}
           /\ b.motor[m].left_pos = a.motor[m].left_pos
      /\ Centered(a, m) =>
           Centered(b, m) /\ b.motor[m].right_pos = a.motor[m].right_pos
  BY <1>2 DEF Keeps
<1> QED
  BY <1>3, <1>4 DEF Centered

LEMMA AgoInt ==
  ASSUME NEW c \in CalType
  PROVE  \A k \in 1 .. BufSize : Ago(c, k) \in Int
<1>1. PICK d : d = Sample(c, 0)
  OBVIOUS
<1> QED
  BY <1>1, RingShifts

(* A count further on, every sample lies behind; one that has not started  *)
(* may stand still for any time, and so may one that presses its stop.     *)
LEMMA LeftMoves ==
  ASSUME NEW c \in CalType, NEW m \in Motors, NEW p \in Int, NEW n, NEW started \in BOOLEAN,
         LeftOK(c, m, p, n, started), NEW z, z = 0, NEW y \in BOOLEAN, y
  PROVE  /\ LeftOK(c, m, p + 1, z, y)
         /\ ~started => \A k : LeftOK(c, m, p, k, started)
         /\ \A q \in Int : q >= LeftEnd(m) => \A k : LeftOK(c, m, q, k, y)
<1>0. LeftEnd(m) \in Int
  BY Sizes
<1>1. p + 1 < LeftEnd(m) => p < LeftEnd(m)
  BY <1>0
<1>2. p + 1 < LeftEnd(m) =>
        \A k \in 1 .. BufSize : Ago(c, k) <= p + 1 /\ Ago(c, k) < p + 1
  <2>1. ASSUME p + 1 < LeftEnd(m), NEW k \in 1 .. BufSize
        PROVE  Ago(c, k) <= p + 1 /\ Ago(c, k) < p + 1
    <3>1. Ago(c, k) \in Int /\ Ago(c, k) <= p
      BY <1>1, <2>1, AgoInt DEF LeftOK
    <3> QED
      BY <3>1
  <2> QED
    BY <2>1
<1>3. LeftOK(c, m, p + 1, z, y)
  BY <1>2 DEF LeftOK
<1>4. ASSUME NEW q \in Int, q >= LeftEnd(m), NEW k PROVE LeftOK(c, m, q, k, y)
  <2>1. ~(q < LeftEnd(m))
    BY <1>0, <1>4
  <2> QED
    BY <2>1 DEF LeftOK
<1> QED
  BY <1>3, <1>4 DEF LeftOK

LEMMA RightMoves ==
  ASSUME NEW c \in CalType, NEW m \in Motors, NEW p \in Int, NEW n, NEW started \in BOOLEAN,
         NEW j \in Nat, RightOK(c, m, p, n, started, j),
         NEW z, z = 0, NEW y \in BOOLEAN, y
  PROVE  /\ RightOK(c, m, p - 1, z, y, j)
         /\ ~started => \A k : RightOK(c, m, p, k, started, j)
         /\ j = 0 => \A q, k : \A x \in BOOLEAN : ~x => RightOK(c, m, q, k, x, 0)
         /\ \A q \in Int : q <= RightEnd(m) => \A k : RightOK(c, m, q, k, y, j)
<1>0. RightEnd(m) \in Int
  BY Sizes
<1>1. p - 1 > RightEnd(m) => p > RightEnd(m)
  BY <1>0
<1>2. p - 1 > RightEnd(m) =>
        \A k \in 1 .. BufSize : k <= j => Ago(c, k) >= p - 1 /\ Ago(c, k) > p - 1
  <2>1. ASSUME p - 1 > RightEnd(m), NEW k \in 1 .. BufSize, k <= j
        PROVE  Ago(c, k) >= p - 1 /\ Ago(c, k) > p - 1
    <3>1. Ago(c, k) \in Int /\ Ago(c, k) >= p
      BY <1>1, <2>1, AgoInt DEF RightOK
    <3> QED
      BY <3>1
  <2> QED
    BY <2>1
<1>3. RightOK(c, m, p - 1, z, y, j)
  BY <1>2 DEF RightOK
<1>4. ASSUME NEW q \in Int, q <= RightEnd(m), NEW k PROVE RightOK(c, m, q, k, y, j)
  <2>1. ~(q > RightEnd(m))
    BY <1>0, <1>4
  <2> QED
    BY <2>1 DEF RightOK
<1>5. ~started => \A k : RightOK(c, m, p, k, started, j)
  BY DEF RightOK
<1>6. j = 0 => \A q, k : \A x \in BOOLEAN : ~x => RightOK(c, m, q, k, x, 0)
  <2>1. \A k \in 1 .. BufSize : ~(k <= 0)
    OBVIOUS
  <2>2. BufSize \in Nat /\ BufSize > 2 /\ SpinupRight \in Nat /\ c.spinup \in Nat
    BY Sizes DEF CalType
  <2>3. j = 0 => c.spinup + 0 >= SpinupRight /\ c.spinup + BufSize - 2 >= SpinupRight
    BY <2>2 DEF RightOK
  <2> QED
    BY <2>1, <2>3 DEF RightOK
<1> QED
  BY <1>3, <1>4, <1>5, <1>6

(* The two calls of a period.                                              *)
LEMMA LeftTwice ==
  ASSUME NEW c0 \in CalType, NEW m \in Motors, NEW p \in Int, NEW n \in Nat,
         NEW started \in BOOLEAN, LeftOK(c0, m, p, n, started),
         c0.motor[m].state = "LEFT", p <= LeftStop[m], Spinup >= 1,
         started /\ p < LeftEnd(m) => n + 1 <= BufSize - 3,
         NEW c, c = handle_state(c0, m, p), NEW d, Applied(c, d, m, p)
  PROVE  \/ d.motor[m].state = "LEFT" /\ LeftOK(d, m, p, n + 2, started)
         \/ /\ d.motor[m].state \in {"RIGHT", "CENTER", "READY"}
            /\ d.motor[m].left_pos \in LeftEnd(m) .. LeftStop[m]
<1>1. BufSize \in Nat
  BY Sizes
<1>2. \/ c.motor[m].state = "LEFT" /\ LeftOK(c, m, p, n + 1, started)
      \/ c.motor[m].state = "RIGHT" /\ c.motor[m].left_pos \in LeftEnd(m) .. LeftStop[m]
  <2>1. started /\ p < LeftEnd(m) => n <= BufSize - 3
    BY <1>1
  <2> QED
    BY <2>1, LeftStep
<1>3. CASE c.motor[m].state = "LEFT"
  <2>1. n + 1 \in Nat /\ LeftOK(c, m, p, n + 1, started) /\ (n + 1) + 1 = n + 2
    BY <1>2, <1>3
  <2>2. \/ d.motor[m].state = "LEFT" /\ LeftOK(d, m, p, (n + 1) + 1, started)
        \/ d.motor[m].state = "RIGHT" /\ d.motor[m].left_pos \in LeftEnd(m) .. LeftStop[m]
    BY <1>3, <2>1, LeftApplied
  <2> QED
    BY <2>1, <2>2
<1>4. CASE c.motor[m].state = "RIGHT"
  BY <1>2, <1>4, AppliedKeeps
<1> QED
  BY <1>2, <1>3, <1>4

LEMMA RightTwice ==
  ASSUME NEW c0 \in CalType, NEW m \in Motors, NEW p \in Int, NEW n \in Nat,
         NEW started \in BOOLEAN, NEW j \in Nat, RightOK(c0, m, p, n, started, j),
         c0.motor[m].state = "RIGHT", RightStop[m] <= p, SpinupRight >= BufSize - 1,
         started /\ p > RightEnd(m) => n + 1 <= BufSize - 3,
         NEW c, c = handle_state(c0, m, p), NEW d, Applied(c, d, m, p)
  PROVE  \/ /\ d.motor[m].state = "RIGHT" /\ d.motor[m].drive = -1
            /\ RightOK(d, m, p, n + 2, started, j + 2)
         \/ Centered(d, m) /\ d.motor[m].right_pos \in RightStop[m] .. RightEnd(m)
<1>1. BufSize \in Nat
  BY Sizes
<1>2. \/ c.motor[m].state = "RIGHT" /\ RightOK(c, m, p, n + 1, started, j + 1)
      \/ c.motor[m].state = "CENTER" /\ c.motor[m].right_pos \in RightStop[m] .. RightEnd(m)
  <2>1. started /\ p > RightEnd(m) => n <= BufSize - 3
    BY <1>1
  <2> QED
    BY <2>1, RightStep
<1>3. CASE c.motor[m].state = "RIGHT"
  <2>1. /\ n + 1 \in Nat /\ j + 1 \in Nat /\ RightOK(c, m, p, n + 1, started, j + 1)
        /\ (n + 1) + 1 = n + 2 /\ (j + 1) + 1 = j + 2
    BY <1>2, <1>3
  <2>2. \/ /\ d.motor[m].state = "RIGHT" /\ d.motor[m].drive = -1
           /\ RightOK(d, m, p, (n + 1) + 1, started, (j + 1) + 1)
        \/ d.motor[m].state = "CENTER" /\ d.motor[m].right_pos \in RightStop[m] .. RightEnd(m)
    BY <1>3, <2>1, RightApplied
  <2> QED
    BY <2>1, <2>2 DEF Centered
<1>4. CASE c.motor[m].state = "CENTER"
  BY <1>2, <1>4, AppliedKeeps DEF Centered
<1> QED
  BY <1>2, <1>3, <1>4

LEMMA RightAppliedEnds ==
  ASSUME NEW c, NEW m \in Motors, NEW p \in Int,
         c.motor[m].state = "RIGHT", NEW d, Applied(c, d, m, p)
  PROVE  \/ d.motor[m].state = "RIGHT" /\ d.motor[m].drive = -1
         \/ d.motor[m].state = "CENTER"
<1>1. PICK a, b : /\ a \in CalType /\ b = handle_state(a, m, p)
                  /\ Apart(c, a, m) /\ Apart(b, d, m)
  BY DEF Applied
<1>2. \/ b.motor[m].state = "RIGHT" /\ b.motor[m].drive = -1
      \/ b.motor[m].state = "CENTER"
  BY <1>1, SearchRightDoes DEF Apart
<1> QED
  BY <1>1, <1>2 DEF Apart
-----------------------------------------------------------------------------
(* The bounds under which a motor that turns is not taken to stand still:  *)
(* the velocity looks back over more calls than it may stand still for.    *)
Prompt == BufSize >= 2 * RunLag + 4

LEMMA TickWithin ==
  ASSUME IInv, WithinOK, Tick, Prompt
  PROVE  WithinOK'
<1> SUFFICES ASSUME NEW m \in Motors
             PROVE  /\ RightStop[m] <= shaft'[m] /\ shaft'[m] <= LeftStop[m]
                    /\ cal'.motor[m].state = "WAITING" => cal'.motor[m].drive = 0
                    /\ cal'.motor[m].state = "LEFT" => cal'.motor[m].drive = 1
                    /\ cal'.motor[m].state = "RIGHT" => cal'.motor[m].drive \in {-1, 1}
  BY DEF WithinOK
<1>1. RightStop[m] <= shaft'[m] /\ shaft'[m] <= LeftStop[m] /\ shaft'[m] \in Int
  BY TickMoves DEF Prompt
<1>2. cal \in CalType /\ Keeps(cal, cal')
  BY TypeIsCalType, MotorTick DEF IInv
<1>3. /\ cal.motor[m].state = "WAITING" => cal.motor[m].drive = 0
      /\ cal.motor[m].state = "LEFT" => cal.motor[m].drive = 1
      /\ cal.motor[m].state = "RIGHT" => cal.motor[m].drive \in {-1, 1}
  BY DEF WithinOK
<1>4. CASE cal'.motor[m].state = "WAITING"
  <2>1. cal'.motor[m] = cal.motor[m]
    BY <1>2, <1>4 DEF Keeps
  <2> QED
    BY <1>1, <1>3, <1>4, <2>1
<1>5. CASE \E c \in CalType : /\ SameRing(cal, c) /\ c.motor[m].state = "LEFT"
                              /\ Applied(c, cal', m, shaft'[m])
  <2>1. PICK c \in CalType : /\ c.motor[m].state = "LEFT"
                             /\ Applied(c, cal', m, shaft'[m])
    BY <1>5
  <2>2. /\ cal'.motor[m].drive = 1
        /\ cal'.motor[m].state = "LEFT" \/ cal'.motor[m].state = "RIGHT"
    BY <1>1, <2>1, LeftAppliedEnds
  <2> QED
    BY <1>1, <2>2
<1>6. CASE /\ cal.motor[m].state \in {"LEFT", "RIGHT"}
           /\ \E c \in CalType : /\ c = handle_state(cal, m, shaft'[m])
                                 /\ Applied(c, cal', m, shaft'[m])
  <2>1. PICK c \in CalType : /\ c = handle_state(cal, m, shaft'[m])
                             /\ Applied(c, cal', m, shaft'[m])
    BY <1>6
  <2>2. c.motor[m].state \in {"LEFT", "RIGHT", "CENTER"}
    <3>1. cal.motor[m].state = "LEFT" => c.motor[m].state \in {"LEFT", "RIGHT"}
      BY <1>1, <1>2, <2>1, LeftEnds
    <3>2. cal.motor[m].state = "RIGHT" => c.motor[m].state \in {"RIGHT", "CENTER"}
      BY <1>1, <1>2, <2>1, SearchRightDoes
    <3> QED
      BY <1>6, <3>1, <3>2
  <2>3. CASE c.motor[m].state = "LEFT"
    <3>1. /\ cal'.motor[m].drive = 1
          /\ cal'.motor[m].state = "LEFT" \/ cal'.motor[m].state = "RIGHT"
      BY <1>1, <2>1, <2>3, LeftAppliedEnds
    <3> QED
      BY <1>1, <3>1
  <2>4. CASE c.motor[m].state = "RIGHT"
    <3>1. \/ cal'.motor[m].state = "RIGHT" /\ cal'.motor[m].drive = -1
          \/ cal'.motor[m].state = "CENTER"
      BY <1>1, <2>1, <2>4, RightAppliedEnds
    <3> QED
      BY <1>1, <3>1
  <2>5. CASE c.motor[m].state = "CENTER"
    <3>1. cal'.motor[m].state \in {"CENTER", "READY"}
      BY <1>1, <2>1, <2>5, AppliedKeeps DEF Centered
    <3> QED
      BY <1>1, <3>1
  <2> QED
    BY <2>2, <2>3, <2>4, <2>5
<1>7. CASE Centered(cal, m)
  <2>1. cal'.motor[m].state \in {"CENTER", "READY"}
    BY <1>2, <1>7 DEF Keeps, Centered
  <2> QED
    BY <1>1, <2>1
<1> QED
  BY <1>4, <1>5, <1>6, <1>7, MotorTick

(* A motor on its way to the left, a period later.                         *)
LEMMA LeftTick ==
  ASSUME IInv, WithinOK, Tick, Prompt, Spinup >= 1, NEW m \in Motors,
         cal.motor[m].state = "LEFT",
         LeftOK(cal, m, shaft[m], Since(m), turning[m])
  PROVE  \/ /\ cal'.motor[m].state = "LEFT"
            /\ LeftOK(cal', m, shaft'[m], 2 * still'[m] + 2, turning'[m])
         \/ /\ cal'.motor[m].state \in {"RIGHT", "CENTER", "READY"}
            /\ cal'.motor[m].left_pos \in LeftEnd(m) .. LeftStop[m]
<1>0. /\ BufSize \in Nat /\ RunLag \in Nat /\ LeftEnd(m) \in Int
      /\ BufSize >= 2 * RunLag + 4
  BY Sizes DEF Prompt
<1>1. PICK p \in Int : p = shaft'[m]
  BY TickMoves DEF Prompt
<1>2. PICK q \in Int, n \in Nat, a \in BOOLEAN :
        q = shaft[m] /\ n = still[m] /\ a = turning[m]
  BY TickMoves DEF Prompt
<1>3. PICK t \in BOOLEAN, o \in Nat : t = turning'[m] /\ o = still'[m]
  BY TickMoves DEF Prompt
<1>4. cal \in CalType /\ cal.motor[m].drive = 1 /\ q <= LeftStop[m]
  BY <1>2, TypeIsCalType DEF IInv, WithinOK
<1>5. p <= LeftStop[m]
  BY <1>1, TickMoves DEF Prompt
<1>6. LeftOK(cal, m, q, 2 * n + 2, a)
  BY <1>2 DEF Since
<1>7. \/ /\ p = q + 1 /\ o = 0
         /\ cal'.motor[m].drive = 1 => t = TRUE
      \/ /\ p = q
         /\ cal'.motor[m].drive = 1 => t = a
         /\ q < LeftEnd(m) => o = n + 1
         /\ q < LeftEnd(m) /\ a => n + 1 <= RunLag
      \/ /\ p >= LeftEnd(m)
         /\ cal'.motor[m].drive = 1 => t = TRUE
  <2>1. \/ /\ shaft'[m] = shaft[m] + cal.motor[m].drive /\ still'[m] = 0
           /\ cal'.motor[m].drive = cal.motor[m].drive => turning'[m] = TRUE
        \/ /\ shaft'[m] = shaft[m]
           /\ cal'.motor[m].drive = cal.motor[m].drive => turning'[m] = turning[m]
           /\ Driven(m) => still'[m] = still[m] + 1
           /\ Driven(m) /\ turning[m] => still[m] + 1 <= RunLag
        \/ /\ cal.motor[m].drive = 1 => shaft'[m] >= LeftEnd(m)
           /\ cal'.motor[m].drive = cal.motor[m].drive => turning'[m] = TRUE
    BY TickMoves DEF Prompt
  <2>2. q < LeftEnd(m) => Driven(m)
    BY <1>2, <1>4 DEF Driven
  <2> QED
    BY <1>1, <1>2, <1>3, <1>4, <2>1, <2>2
<1>8. PICK c \in CalType : c = handle_state(cal, m, p) /\ Applied(c, cal', m, p)
  <2>1. ~(cal'.motor[m].state = "WAITING") /\ ~Centered(cal, m)
    <3>1. cal'.motor[m].state = "WAITING" => cal'.motor[m] = cal.motor[m]
      BY MotorTick DEF Keeps
    <3> QED
      BY <3>1 DEF Centered
  <2> QED
    BY <1>1, <2>1, MotorTick
<1>9. cal'.motor[m].state = "LEFT" => cal'.motor[m].drive = 1
  BY TickWithin DEF WithinOK
<1>10. SUFFICES \/ cal'.motor[m].state = "LEFT" /\ LeftOK(cal', m, p, 2 * o + 2, t)
                \/ /\ cal'.motor[m].state \in {"RIGHT", "CENTER", "READY"}
                   /\ cal'.motor[m].left_pos \in LeftEnd(m) .. LeftStop[m]
  BY <1>1, <1>3
<1>11. PICK d : d = cal'
  OBVIOUS
<1>12. CASE p = q + 1 /\ o = 0 /\ (cal'.motor[m].drive = 1 => t = TRUE)
  <2>0. PICK z \in Nat : z = 0
    OBVIOUS
  <2>4. PICK y \in BOOLEAN : y = TRUE
    OBVIOUS
  <2>1. LeftOK(cal, m, p, z, y)
    BY <1>4, <1>6, <1>12, <2>0, <2>4, LeftMoves
  <2>2. \/ d.motor[m].state = "LEFT" /\ LeftOK(d, m, p, z + 2, y)
        \/ /\ d.motor[m].state \in {"RIGHT", "CENTER", "READY"}
           /\ d.motor[m].left_pos \in LeftEnd(m) .. LeftStop[m]
    <3>1. z + 1 <= BufSize - 3
      BY <1>0, <2>0
    <3> QED
      BY <1>4, <1>5, <1>8, <1>11, <2>1, <3>1, LeftTwice
  <2>3. 2 * o + 2 = z + 2
    BY <1>12, <2>0
  <2> QED
    BY <1>9, <1>11, <1>12, <2>2, <2>3, <2>4
<1>13. CASE /\ p = q /\ (cal'.motor[m].drive = 1 => t = a)
            /\ q < LeftEnd(m) => o = n + 1
            /\ q < LeftEnd(m) /\ a => n + 1 <= RunLag
  <2>1. PICK k \in Nat : k = 2 * n + 2
    OBVIOUS
  <2>2. a /\ p < LeftEnd(m) => k + 1 <= BufSize - 3
    BY <1>0, <1>13, <2>1
  <2>3. \/ d.motor[m].state = "LEFT" /\ LeftOK(d, m, p, k + 2, a)
        \/ /\ d.motor[m].state \in {"RIGHT", "CENTER", "READY"}
           /\ d.motor[m].left_pos \in LeftEnd(m) .. LeftStop[m]
    <3>1. LeftOK(cal, m, p, k, a)
      BY <1>6, <1>13, <2>1
    <3> QED
      BY <1>4, <1>5, <1>8, <1>11, <2>2, <3>1, LeftTwice
  <2>4. CASE d.motor[m].state = "LEFT" /\ LeftOK(d, m, p, k + 2, a)
    <3>1. t = a
      BY <1>9, <1>11, <1>13, <2>4
    <3>2. CASE p < LeftEnd(m)
      <4>1. k + 2 = 2 * o + 2
        BY <1>13, <2>1, <3>2
      <4> QED
        BY <1>11, <2>4, <3>1, <4>1
    <3>3. CASE p >= LeftEnd(m)
      <4>1. d \in CalType
        BY <1>11, TickCalm, TypeIsCalType DEF IInv, Calm
      <4>2. \A x : LeftOK(d, m, p, x, a)
        <5>1. PICK z \in Nat, y \in BOOLEAN : z = 0 /\ y = TRUE
          OBVIOUS
        <5>2. ~a => \A x : LeftOK(d, m, p, x, a)
          BY <2>4, <4>1, <5>1, LeftMoves
        <5>3. \A x : LeftOK(d, m, p, x, y)
          BY <2>4, <3>3, <4>1, <5>1, LeftMoves
        <5> QED
          BY <5>1, <5>2, <5>3
      <4> QED
        BY <1>11, <2>4, <3>1, <4>2
    <3> QED
      BY <1>0, <1>5, <3>2, <3>3
  <2> QED
    BY <1>11, <2>3, <2>4
<1>14. CASE p >= LeftEnd(m) /\ (cal'.motor[m].drive = 1 => t = TRUE)
  <2>1. PICK z \in Nat, y \in BOOLEAN : z = 0 /\ y = TRUE
    OBVIOUS
  <2>2. LeftOK(cal, m, p, z, y)
    BY <1>4, <1>6, <1>14, <2>1, LeftMoves
  <2>3. \/ d.motor[m].state = "LEFT" /\ LeftOK(d, m, p, z + 2, y)
        \/ /\ d.motor[m].state \in {"RIGHT", "CENTER", "READY"}
           /\ d.motor[m].left_pos \in LeftEnd(m) .. LeftStop[m]
    <3>1. ~(p < LeftEnd(m))
      BY <1>0, <1>14
    <3> QED
      BY <1>4, <1>5, <1>8, <1>11, <2>2, <3>1, LeftTwice
  <2>4. CASE d.motor[m].state = "LEFT" /\ LeftOK(d, m, p, z + 2, y)
    <3>1. d \in CalType
      BY <1>11, TickCalm, TypeIsCalType DEF IInv, Calm
    <3>2. \A x : LeftOK(d, m, p, x, y)
      BY <1>14, <2>1, <2>4, <3>1, LeftMoves
    <3> QED
      BY <1>9, <1>11, <1>14, <2>1, <2>4, <3>2
  <2> QED
    BY <1>11, <2>3, <2>4
<1> QED
  BY <1>7, <1>12, <1>13, <1>14

(* A motor on its way to the right, a period later.                        *)
LEMMA RightTick ==
  ASSUME IInv, WithinOK, Tick, Prompt, SpinupRight >= BufSize - 1, NEW m \in Motors,
         cal.motor[m].state = "RIGHT", NEW j \in Nat,
         RightOK(cal, m, shaft[m], Since(m), turning[m], j),
         cal.motor[m].drive = 1 => j = 0
  PROVE  \/ /\ cal'.motor[m].state = "RIGHT" /\ cal'.motor[m].drive = -1
            /\ RightOK(cal', m, shaft'[m], 2 * still'[m] + 2, turning'[m], j + 2)
         \/ Centered(cal', m) /\ cal'.motor[m].right_pos \in RightStop[m] .. RightEnd(m)
<1>0. /\ BufSize \in Nat /\ RunLag \in Nat /\ RightEnd(m) \in Int
      /\ BufSize >= 2 * RunLag + 4
  BY Sizes DEF Prompt
<1>1. PICK p \in Int : p = shaft'[m]
  BY TickMoves DEF Prompt
<1>2. PICK q \in Int, n \in Nat, a \in BOOLEAN :
        q = shaft[m] /\ n = still[m] /\ a = turning[m]
  BY TickMoves DEF Prompt
<1>3. PICK t \in BOOLEAN, o \in Nat : t = turning'[m] /\ o = still'[m]
  BY TickMoves DEF Prompt
<1>4. cal \in CalType /\ cal.motor[m].drive \in {-1, 1} /\ RightStop[m] <= q
  BY <1>2, TypeIsCalType DEF IInv, WithinOK
<1>5. RightStop[m] <= p
  BY <1>1, TickMoves DEF Prompt
<1>6. RightOK(cal, m, q, 2 * n + 2, a, j)
  BY <1>2 DEF Since
<1>7. PICK c \in CalType : c = handle_state(cal, m, p) /\ Applied(c, cal', m, p)
  <2>1. ~(cal'.motor[m].state = "WAITING") /\ ~Centered(cal, m)
    <3>1. cal'.motor[m].state = "WAITING" => cal'.motor[m] = cal.motor[m]
      BY MotorTick DEF Keeps
    <3> QED
      BY <3>1 DEF Centered
  <2> QED
    BY <1>1, <2>1, MotorTick
<1>8. PICK d : d = cal'
  OBVIOUS
<1>9. d \in CalType
  BY <1>8, TickCalm, TypeIsCalType DEF IInv, Calm
<1>10. SUFFICES \/ /\ d.motor[m].state = "RIGHT" /\ d.motor[m].drive = -1
                   /\ RightOK(d, m, p, 2 * o + 2, t, j + 2)
                \/ Centered(d, m) /\ d.motor[m].right_pos \in RightStop[m] .. RightEnd(m)
  BY <1>1, <1>3, <1>8
<1>11. PICK z \in Nat : z = 0
  OBVIOUS
<1>12. z + 1 <= BufSize - 3
  BY <1>0, <1>11
<1>13. PICK y \in BOOLEAN, f \in BOOLEAN : y = TRUE /\ f = FALSE
  OBVIOUS
<1>14. CASE cal.motor[m].drive = 1
  <2>1. j = 0 /\ RightOK(cal, m, p, z, f, j)
    BY <1>4, <1>6, <1>11, <1>14, <1>13, RightMoves
  <2>2. \/ /\ d.motor[m].state = "RIGHT" /\ d.motor[m].drive = -1
           /\ RightOK(d, m, p, z + 2, f, j + 2)
        \/ Centered(d, m) /\ d.motor[m].right_pos \in RightStop[m] .. RightEnd(m)
    BY <1>4, <1>5, <1>7, <1>8, <1>13, <2>1, RightTwice
  <2>3. CASE /\ d.motor[m].state = "RIGHT" /\ d.motor[m].drive = -1
             /\ RightOK(d, m, p, z + 2, f, j + 2)
    <3>1. t = FALSE
      <4>1. cal'.motor[m].drive # cal.motor[m].drive
        BY <1>8, <1>14, <2>3
      <4> QED
        BY <1>3, <4>1, TickMoves DEF Prompt
    <3>2. \A x : RightOK(d, m, p, x, f, j + 2)
      <4>1. j + 2 \in Nat
        OBVIOUS
      <4> QED
        BY <1>9, <1>11, <1>13, <2>3, <4>1, RightMoves
    <3> QED
      BY <1>13, <2>3, <3>1, <3>2
  <2> QED
    BY <2>2, <2>3
<1>15. CASE cal.motor[m].drive = -1
  <2>1. \/ /\ p = q - 1 /\ o = 0
           /\ d.motor[m].drive = -1 => t = TRUE
        \/ /\ p = q
           /\ d.motor[m].drive = -1 => t = a
           /\ q > RightEnd(m) => o = n + 1
           /\ q > RightEnd(m) /\ a => n + 1 <= RunLag
        \/ /\ p <= RightEnd(m)
           /\ d.motor[m].drive = -1 => t = TRUE
    <3>1. \/ /\ shaft'[m] = shaft[m] + cal.motor[m].drive /\ still'[m] = 0
             /\ cal'.motor[m].drive = cal.motor[m].drive => turning'[m] = TRUE
          \/ /\ shaft'[m] = shaft[m]
             /\ cal'.motor[m].drive = cal.motor[m].drive => turning'[m] = turning[m]
             /\ Driven(m) => still'[m] = still[m] + 1
             /\ Driven(m) /\ turning[m] => still[m] + 1 <= RunLag
          \/ /\ cal.motor[m].drive = -1 => shaft'[m] <= RightEnd(m)
             /\ cal'.motor[m].drive = cal.motor[m].drive => turning'[m] = TRUE
      BY TickMoves DEF Prompt
    <3>2. q > RightEnd(m) => Driven(m)
      BY <1>2, <1>15 DEF Driven
    <3> QED
      BY <1>1, <1>2, <1>3, <1>8, <1>15, <3>1, <3>2
  <2>2. CASE p = q - 1 /\ o = 0 /\ (d.motor[m].drive = -1 => t = TRUE)
    <3>1. RightOK(cal, m, p, z, y, j)
      BY <1>4, <1>6, <1>11, <1>13, <2>2, RightMoves
    <3>2. \/ /\ d.motor[m].state = "RIGHT" /\ d.motor[m].drive = -1
             /\ RightOK(d, m, p, z + 2, y, j + 2)
          \/ Centered(d, m) /\ d.motor[m].right_pos \in RightStop[m] .. RightEnd(m)
      BY <1>4, <1>5, <1>7, <1>8, <1>12, <3>1, RightTwice
    <3>3. 2 * o + 2 = z + 2
      BY <1>11, <2>2
    <3> QED
      BY <1>13, <2>2, <3>2, <3>3
  <2>3. CASE /\ p = q /\ (d.motor[m].drive = -1 => t = a)
             /\ q > RightEnd(m) => o = n + 1
             /\ q > RightEnd(m) /\ a => n + 1 <= RunLag
    <3>1. PICK k \in Nat : k = 2 * n + 2
      OBVIOUS
    <3>2. a /\ p > RightEnd(m) => k + 1 <= BufSize - 3
      BY <1>0, <2>3, <3>1
    <3>3. \/ /\ d.motor[m].state = "RIGHT" /\ d.motor[m].drive = -1
             /\ RightOK(d, m, p, k + 2, a, j + 2)
          \/ Centered(d, m) /\ d.motor[m].right_pos \in RightStop[m] .. RightEnd(m)
      <4>1. RightOK(cal, m, p, k, a, j)
        BY <1>6, <2>3, <3>1
      <4> QED
        BY <1>4, <1>5, <1>7, <1>8, <3>2, <4>1, RightTwice
    <3>4. CASE /\ d.motor[m].state = "RIGHT" /\ d.motor[m].drive = -1
               /\ RightOK(d, m, p, k + 2, a, j + 2)
      <4>1. t = a
        BY <2>3, <3>4
      <4>2. CASE p > RightEnd(m)
        <5>1. k + 2 = 2 * o + 2
          BY <2>3, <3>1, <4>2
        <5> QED
          BY <3>4, <4>1, <5>1
      <4>3. CASE p <= RightEnd(m)
        <5>1. j + 2 \in Nat
          OBVIOUS
        <5>2. \A x : RightOK(d, m, p, x, a, j + 2)
          <6>1. ~a => \A x : RightOK(d, m, p, x, a, j + 2)
            BY <1>9, <1>11, <1>13, <3>4, <5>1, RightMoves
          <6>2. \A x : RightOK(d, m, p, x, y, j + 2)
            BY <1>9, <1>11, <1>13, <3>4, <4>3, <5>1, RightMoves
          <6> QED
            BY <1>13, <6>1, <6>2
        <5> QED
          BY <3>4, <4>1, <5>2
      <4> QED
        BY <1>0, <1>5, <4>2, <4>3
    <3> QED
      BY <3>3, <3>4
  <2>4. CASE p <= RightEnd(m) /\ (d.motor[m].drive = -1 => t = TRUE)
    <3>1. RightOK(cal, m, p, z, y, j)
      BY <1>4, <1>6, <1>11, <1>13, <2>4, RightMoves
    <3>2. \/ /\ d.motor[m].state = "RIGHT" /\ d.motor[m].drive = -1
             /\ RightOK(d, m, p, z + 2, y, j + 2)
          \/ Centered(d, m) /\ d.motor[m].right_pos \in RightStop[m] .. RightEnd(m)
      BY <1>4, <1>5, <1>7, <1>8, <1>12, <3>1, RightTwice
    <3>3. CASE /\ d.motor[m].state = "RIGHT" /\ d.motor[m].drive = -1
               /\ RightOK(d, m, p, z + 2, y, j + 2)
      <4>1. j + 2 \in Nat
        OBVIOUS
      <4>2. \A x : RightOK(d, m, p, x, y, j + 2)
        BY <1>9, <1>11, <1>13, <2>4, <3>3, <4>1, RightMoves
      <4> QED
        BY <1>13, <2>4, <3>3, <4>2
    <3> QED
      BY <3>2, <3>3
  <2> QED
    BY <2>1, <2>2, <2>3, <2>4
<1> QED
  BY <1>4, <1>14, <1>15
-----------------------------------------------------------------------------
LEMMA TickFirst ==
  ASSUME IInv, WithinOK, FirstOK, Tick, Prompt, Spinup >= 1
  PROVE  FirstOK'
<1>0. /\ "FR" \in Motors /\ Rank("FR") = 1 /\ LeftStop["FR"] \in Int
      /\ shaft'["FR"] \in Int /\ cal' \in CalType /\ Ordered(cal') /\ Keeps(cal, cal')
  <2>1. "FR" \in Motors
    BY DEF Motors
  <2>2. Calm(cal')
    BY TickCalm, TypeIsCalType DEF IInv, Calm
  <2> QED
    BY <2>1, <2>2, RankFacts, Sizes, TickMoves, MotorTick DEF Prompt, Calm
<1>1. SUFFICES
        /\ cal'.motor["FR"].state # "WAITING"
        /\ cal'.motor["FR"].state = "LEFT" =>
             LeftOK(cal', "FR", shaft'["FR"], 2 * still'["FR"] + 2, turning'["FR"])
        /\ cal'.motor["FR"].state \in {"RIGHT", "CENTER", "READY"} =>
             cal'.motor["FR"].left_pos \in LeftEnd("FR") .. LeftStop["FR"]
  BY DEF FirstOK, Since
<1>2. cal'.motor["FR"].state # "WAITING"
  <2>1. cal'.rover_state # Nobody
    BY <1>0, MotorTick
  <2>2. Rank(cal'.rover_state) \in Int /\ Rank(cal'.rover_state) >= 1
    BY <1>0, <2>1, RankFacts DEF CalType
  <2> QED
    BY <1>0, <2>2 DEF Ordered
<1>3. CASE cal.motor["FR"].state \in {"RIGHT", "CENTER", "READY"}
  <2>1. /\ cal'.motor["FR"].state \in {"RIGHT", "CENTER", "READY"}
        /\ cal'.motor["FR"].left_pos = cal.motor["FR"].left_pos
    BY <1>0, <1>3 DEF Keeps
  <2>2. cal.motor["FR"].left_pos \in LeftEnd("FR") .. LeftStop["FR"]
    BY <1>3 DEF FirstOK
  <2> QED
    BY <1>2, <2>1, <2>2
<1>4. CASE cal.motor["FR"].state = "LEFT"
  <2>1. LeftOK(cal, "FR", shaft["FR"], Since("FR"), turning["FR"])
    BY <1>4 DEF FirstOK
  <2>2. \/ /\ cal'.motor["FR"].state = "LEFT"
           /\ LeftOK(cal', "FR", shaft'["FR"], 2 * still'["FR"] + 2, turning'["FR"])
        \/ /\ cal'.motor["FR"].state \in {"RIGHT", "CENTER", "READY"}
           /\ cal'.motor["FR"].left_pos \in LeftEnd("FR") .. LeftStop["FR"]
    BY <1>0, <1>4, <2>1, LeftTick
  <2> QED
    BY <1>2, <2>2
<1>5. CASE cal.motor["FR"].state = "WAITING"
  <2>1. PICK c \in CalType : /\ SameRing(cal, c) /\ c.motor["FR"].state = "LEFT"
                             /\ Applied(c, cal', "FR", shaft'["FR"])
    BY <1>0, <1>2, <1>5, MotorTick DEF Centered
  <2>2. PICK p \in Int, f \in BOOLEAN, n \in Nat :
          p = shaft'["FR"] /\ f = FALSE /\ n = Since("FR")
    <3>1. PICK p \in Int, o \in Nat : p = shaft'["FR"] /\ o = still["FR"]
      BY <1>0, TickMoves DEF Prompt
    <3>2. Since("FR") = 2 * o + 2 /\ 2 * o + 2 \in Nat
      BY <3>1 DEF Since
    <3> QED
      BY <3>1, <3>2
  <2>3. cal.motor["FR"].drive = 0
    BY <1>0, <1>5 DEF WithinOK
  <2>4. shaft["FR"] = p /\ p <= LeftStop["FR"]
    BY <1>0, <2>2, <2>3, TickMoves DEF Prompt
  <2>5. LeftOK(c, "FR", p, n, f)
    <3>1. LeftOK(cal, "FR", p, n, f)
      BY <1>5, <2>2, <2>4 DEF FirstOK
    <3> QED
      BY <2>1, <3>1, SameAgo
  <2>6. \/ cal'.motor["FR"].state = "LEFT" /\ LeftOK(cal', "FR", p, n + 1, f)
        \/ /\ cal'.motor["FR"].state = "RIGHT"
           /\ cal'.motor["FR"].left_pos \in LeftEnd("FR") .. LeftStop["FR"]
    BY <1>0, <2>1, <2>2, <2>4, <2>5, LeftApplied
  <2>7. CASE cal'.motor["FR"].state = "LEFT" /\ LeftOK(cal', "FR", p, n + 1, f)
    <3>1. turning'["FR"] = f
      <4>1. cal'.motor["FR"].drive # cal.motor["FR"].drive
        BY <1>0, <2>3, <2>7, TickWithin DEF WithinOK
      <4> QED
        BY <1>0, <2>2, <4>1, TickMoves DEF Prompt
    <3>2. PICK z \in Nat, y \in BOOLEAN : z = 0 /\ y = TRUE
      OBVIOUS
    <3>3. \A k : LeftOK(cal', "FR", p, k, f)
      BY <1>0, <2>2, <2>7, <3>2, LeftMoves
    <3> QED
      BY <2>2, <2>7, <3>1, <3>3
  <2> QED
    BY <1>2, <2>6, <2>7
<1> QED
  <2>1. cal.motor["FR"].state \in MotorState
    BY <1>0, TypeIsCalType DEF IInv, CalType, MotorType
  <2> QED
    BY <1>3, <1>4, <1>5, <2>1 DEF MotorState

LEMMA TickRights ==
  ASSUME IInv, WithinOK, RightsOK, Tick, Prompt, SpinupRight >= BufSize - 1
  PROVE  RightsOK'
<1>1. SUFFICES ASSUME NEW m \in Motors
               PROVE  /\ cal'.motor[m].state = "RIGHT" =>
                           \E j \in Nat :
                             /\ RightOK(cal', m, shaft'[m], 2 * still'[m] + 2, turning'[m], j)
                             /\ cal'.motor[m].drive = 1 => j = 0
                      /\ Centered(cal', m) =>
                           cal'.motor[m].right_pos \in RightStop[m] .. RightEnd(m)
  BY DEF RightsOK, Since, Centered
<1>2. cal \in CalType /\ cal' \in CalType /\ Keeps(cal, cal')
  BY TickCalm, TypeIsCalType, MotorTick DEF IInv, Calm
<1>3. PICK p \in Int, t \in BOOLEAN, k \in Nat :
        p = shaft'[m] /\ t = turning'[m] /\ k = 2 * still'[m] + 2
  <2>1. PICK p \in Int, t \in BOOLEAN, o \in Nat :
          p = shaft'[m] /\ t = turning'[m] /\ o = still'[m]
    BY TickMoves DEF Prompt
  <2>2. 2 * still'[m] + 2 = 2 * o + 2 /\ 2 * o + 2 \in Nat
    BY <2>1
  <2> QED
    BY <2>1, <2>2
<1>4. RightStop[m] <= p
  BY <1>3, TickMoves DEF Prompt
<1>5. PICK d : d = cal'
  OBVIOUS
<1>6. SUFFICES /\ d.motor[m].state = "RIGHT" =>
                    \E j \in Nat : /\ RightOK(d, m, p, k, t, j)
                                   /\ d.motor[m].drive = 1 => j = 0
               /\ Centered(d, m) => d.motor[m].right_pos \in RightStop[m] .. RightEnd(m)
  BY <1>3, <1>5
<1>7. CASE d.motor[m].state = "WAITING"
  BY <1>7 DEF Centered
<1>8. CASE Centered(cal, m)
  <2>1. Centered(d, m) /\ d.motor[m].right_pos = cal.motor[m].right_pos
    BY <1>2, <1>5, <1>8 DEF Keeps
  <2>2. cal.motor[m].right_pos \in RightStop[m] .. RightEnd(m)
    BY <1>8 DEF RightsOK, Centered
  <2> QED
    BY <2>1, <2>2 DEF Centered
<1>9. ASSUME NEW c, c.motor[m].state = "LEFT", Applied(c, cal', m, shaft'[m])
      PROVE  /\ d.motor[m].state = "RIGHT" =>
                  \E j \in Nat : /\ RightOK(d, m, p, k, t, j)
                                 /\ d.motor[m].drive = 1 => j = 0
             /\ ~Centered(d, m)
  <2>1. \/ d.motor[m].state = "LEFT"
        \/ d.motor[m].state = "RIGHT" /\ d.spinup = SpinupRight
    BY <1>3, <1>5, <1>9, LeftAppliedEnds
  <2>2. PICK z \in Nat : z = 0
    OBVIOUS
  <2>3. d.motor[m].state = "RIGHT" => RightOK(d, m, p, k, t, z)
    BY <1>3, <2>1, <2>2, RightBegins
  <2> QED
    BY <2>1, <2>2, <2>3 DEF Centered
<1>10. CASE cal.motor[m].state = "RIGHT"
  <2>1. PICK j \in Nat : /\ RightOK(cal, m, shaft[m], Since(m), turning[m], j)
                         /\ cal.motor[m].drive = 1 => j = 0
    BY <1>10 DEF RightsOK
  <2>2. \/ /\ cal'.motor[m].state = "RIGHT" /\ cal'.motor[m].drive = -1
           /\ RightOK(cal', m, shaft'[m], 2 * still'[m] + 2, turning'[m], j + 2)
        \/ Centered(cal', m) /\ cal'.motor[m].right_pos \in RightStop[m] .. RightEnd(m)
    BY <1>10, <2>1, RightTick
  <2>3. \/ /\ d.motor[m].state = "RIGHT" /\ d.motor[m].drive = -1
           /\ RightOK(d, m, p, k, t, j + 2)
        \/ Centered(d, m) /\ d.motor[m].right_pos \in RightStop[m] .. RightEnd(m)
    BY <1>3, <1>5, <2>2
  <2>4. j + 2 \in Nat
    OBVIOUS
  <2> QED
    BY <2>3, <2>4 DEF Centered
<1>11. CASE cal.motor[m].state = "LEFT" /\ d.motor[m].state # "WAITING"
  <2>1. PICK c \in CalType : c = handle_state(cal, m, p) /\ Applied(c, cal', m, shaft'[m])
    BY <1>3, <1>5, <1>11, MotorTick DEF Centered
  <2>2. \/ c.motor[m].state = "LEFT"
        \/ c.motor[m].state = "RIGHT" /\ c.spinup = SpinupRight
    BY <1>2, <1>11, <2>1, LeftEnds
  <2>3. CASE c.motor[m].state = "LEFT"
    BY <1>9, <2>1, <2>3
  <2>4. CASE c.motor[m].state = "RIGHT" /\ c.spinup = SpinupRight
    <3>1. PICK z \in Nat, y \in BOOLEAN, f \in BOOLEAN : z = 0 /\ y = TRUE /\ f = FALSE
      OBVIOUS
    <3>2. RightOK(c, m, p, z, f, z)
      BY <2>4, <3>1, RightBegins
    <3>3. \/ /\ d.motor[m].state = "RIGHT" /\ d.motor[m].drive = -1
             /\ RightOK(d, m, p, z + 1, f, z + 1)
          \/ d.motor[m].state = "CENTER" /\ d.motor[m].right_pos \in RightStop[m] .. RightEnd(m)
      BY <1>3, <1>4, <1>5, <2>1, <2>4, <3>1, <3>2, RightApplied
    <3>4. CASE /\ d.motor[m].state = "RIGHT" /\ d.motor[m].drive = -1
               /\ RightOK(d, m, p, z + 1, f, z + 1)
      <4>1. t = f
        <5>1. cal'.motor[m].drive # cal.motor[m].drive
          BY <1>5, <1>11, <3>4 DEF WithinOK
        <5> QED
          BY <1>3, <3>1, <5>1, TickMoves DEF Prompt
      <4>2. z + 1 \in Nat
        OBVIOUS
      <4>3. RightOK(d, m, p, k, f, z + 1)
        BY <1>2, <1>5, <3>1, <3>4, <4>2, RightMoves
      <4> QED
        BY <3>4, <4>1, <4>2, <4>3 DEF Centered
    <3> QED
      BY <3>3, <3>4 DEF Centered
  <2> QED
    BY <2>2, <2>3, <2>4
<1>12. CASE cal.motor[m].state = "WAITING" /\ d.motor[m].state # "WAITING"
  <2>1. PICK c \in CalType : c.motor[m].state = "LEFT" /\ Applied(c, cal', m, shaft'[m])
    BY <1>5, <1>12, MotorTick DEF Centered
  <2> QED
    BY <1>9, <2>1
<1> QED
  <2>1. cal.motor[m].state \in MotorState
    BY <1>2 DEF CalType, MotorType
  <2> QED
    BY <1>7, <1>8, <1>10, <1>11, <1>12, <2>1 DEF MotorState, Centered
-----------------------------------------------------------------------------
(* The main thread moves nothing and has no part in the calibration: of    *)
(* the program's data it assigns targets only.                             *)
LEMMA MainLeaves ==
  ASSUME IInv, Main \/ UNCHANGED vars
  PROVE  /\ shaft' = shaft /\ still' = still /\ turning' = turning
         /\ SameRing(cal, cal')
         /\ \A m \in Motors :
              /\ cal'.motor[m].state = cal.motor[m].state
              /\ cal'.motor[m].drive = cal.motor[m].drive
              /\ cal'.motor[m].left_pos = cal.motor[m].left_pos
              /\ cal'.motor[m].right_pos = cal.motor[m].right_pos
<1>1. cal \in CalType
  BY TypeIsCalType DEF IInv
<1>2. shaft' = shaft /\ still' = still /\ turning' = turning
  BY DEF Main, Give, LoadCenter, StoreTarget, vars
<1>3. cal' = cal \/ \E q, x : cal' = [cal EXCEPT !.motor[q].target = x]
  BY DEF Main, Give, LoadCenter, StoreTarget, vars
<1>4. ASSUME NEW q, NEW x, cal' = [cal EXCEPT !.motor[q].target = x]
      PROVE  /\ SameRing(cal, cal')
             /\ \A m \in Motors :
                  /\ cal'.motor[m].state = cal.motor[m].state
                  /\ cal'.motor[m].drive = cal.motor[m].drive
                  /\ cal'.motor[m].left_pos = cal.motor[m].left_pos
                  /\ cal'.motor[m].right_pos = cal.motor[m].right_pos
  BY <1>1, <1>4 DEF CalType, MotorType, SameRing
<1> QED
  BY <1>2, <1>3, <1>4 DEF SameRing

LEMMA MainKeepsStops ==
  ASSUME IInv, Main \/ UNCHANGED vars
  PROVE  /\ WithinOK => WithinOK'
         /\ FirstOK => FirstOK'
         /\ RightsOK => RightsOK'
<1>1. WithinOK => WithinOK'
  BY MainLeaves DEF WithinOK
<1>2. FirstOK => FirstOK'
  <2>1. "FR" \in Motors
    BY DEF Motors
  <2> QED
    BY <2>1, MainLeaves, SameAgo DEF FirstOK, Since
<1>3. RightsOK => RightsOK'
  BY MainLeaves, SameAgo DEF RightsOK, Since
<1> QED
  BY <1>1, <1>2, <1>3

LEMMA InitStops == Init => WithinOK /\ FirstOK /\ RightsOK
<1> SUFFICES ASSUME Init PROVE WithinOK /\ FirstOK /\ RightsOK
  OBVIOUS
<1>1. /\ shaft = [m \in Motors |-> 0] /\ cal = CalInit
      /\ \A m \in Motors : /\ CalInit.motor[m].state = "WAITING"
                           /\ CalInit.motor[m].drive = 0
  BY DEF Init, CalInit
<1>2. WithinOK
  BY <1>1, Sizes DEF WithinOK
<1>3. RightsOK
  BY <1>1 DEF RightsOK
<1>4. FirstOK
  <2>1. CalInit.pos = [i \in 0 .. BufSize - 1 |-> 0] /\ CalInit.pos_index = 0
    BY DEF CalInit
  <2>2. \A k \in 1 .. BufSize : Ago(CalInit, k) = 0
    <3> SUFFICES ASSUME NEW k \in 1 .. BufSize PROVE Ago(CalInit, k) = 0
      OBVIOUS
    <3>1. (IF k <= 0 THEN 0 - k ELSE 0 - k + BufSize) \in 0 .. BufSize - 1
      BY Sizes
    <3> QED
      BY <2>1, <3>1 DEF Ago
  <2>3. "FR" \in Motors /\ shaft["FR"] = 0 /\ CalInit.spinup = Spinup
    BY <1>1 DEF Motors, CalInit
  <2>4. LeftOK(cal, "FR", shaft["FR"], Since("FR"), FALSE)
    BY <1>1, <2>2, <2>3 DEF LeftOK
  <2> QED
    BY <1>1, <2>3, <2>4 DEF FirstOK
<1> QED
  BY <1>2, <1>3, <1>4
-----------------------------------------------------------------------------
(* The first motor finds its left stop, wherever that is and however late  *)
(* it starts, and records a place no farther from it than the stop gives   *)
(* way: it has spin-up to wait for its start with, and once it moves it    *)
(* does not stand still for as long as the velocity looks back, until it   *)
(* presses against the stop, which may push it back.                       *)
THEOREM FirstLeftFound ==
  ASSUME BufSize >= 2 * RunLag + 4, Spinup >= 1
  PROVE  Spec => []FirstLeftStopFound
<1> DEFINE FInv == IInv /\ WithinOK /\ FirstOK
<1>1. Init => FInv
  BY InitOK, InitStops
<1>2. FInv /\ [Next]_vars => FInv'
  <2> SUFFICES ASSUME FInv, [Next]_vars PROVE FInv'
    OBVIOUS
  <2>1. IInv'
    BY InvariantStep
  <2>2. CASE Tick
    <3>1. Prompt /\ WithinOK'
      BY <2>2, TickWithin DEF Prompt
    <3>2. FirstOK'
      BY <2>2, <3>1, TickFirst
    <3> QED
      BY <2>1, <3>1, <3>2
  <2>3. CASE Main \/ UNCHANGED vars
    <3>1. WithinOK' /\ FirstOK'
      BY <2>3, MainKeepsStops
    <3> QED
      BY <2>1, <3>1
  <2> QED
    BY <2>2, <2>3 DEF Next
<1>3. FInv => FirstLeftStopFound
  BY DEF FirstOK, FirstLeftStopFound
<1> QED
  BY <1>1, <1>2, <1>3, PTL DEF Spec

(* Every motor that goes to its centre has found its right stop, also one  *)
(* whose left stop is wrong: the spin-up for this way is longer than the   *)
(* ring, which therefore holds nothing else when it is over.               *)
THEOREM RightsFound ==
  ASSUME BufSize >= 2 * RunLag + 4, SpinupRight >= BufSize - 1
  PROVE  Spec => []RightStopsFound
<1> DEFINE RInv == IInv /\ WithinOK /\ RightsOK
<1>1. Init => RInv
  BY InitOK, InitStops
<1>2. RInv /\ [Next]_vars => RInv'
  <2> SUFFICES ASSUME RInv, [Next]_vars PROVE RInv'
    OBVIOUS
  <2>1. IInv'
    BY InvariantStep
  <2>2. CASE Tick
    <3>1. Prompt /\ WithinOK'
      BY <2>2, TickWithin DEF Prompt
    <3>2. RightsOK'
      BY <2>2, <3>1, TickRights
    <3> QED
      BY <2>1, <3>1, <3>2
  <2>3. CASE Main \/ UNCHANGED vars
    <3>1. WithinOK' /\ RightsOK'
      BY <2>3, MainKeepsStops
    <3> QED
      BY <2>1, <3>1
  <2> QED
    BY <2>2, <2>3 DEF Next
<1>3. RInv => RightStopsFound
  BY DEF RightsOK, RightStopsFound
<1> QED
  BY <1>1, <1>2, <1>3, PTL DEF Spec
================================================================================
