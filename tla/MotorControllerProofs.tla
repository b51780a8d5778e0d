------------------------- MODULE MotorControllerProofs -------------------------
(***************************************************************************)
(* Proofs about MotorController for a counter of any range, any duty cycle *)
(* and any clock divisor: no edge of the encoder is lost or counted twice, *)
(* and the bridge drives the motor for the share the word asks for.        *)
(***************************************************************************)
EXTENDS MotorController, TLAPS

Near(p, q) == Edge(p, q) # 0 \/ p = q

(* At most one edge waits in front of the flip-flops and one between them. *)
EdgesOK == Near(Before(ff), Sampled(ff)) /\ Near(Sampled(ff), phase)

WordOK ==
  /\ driver = "clearing" => word.clr /\ word.dec /\ count = 0
  /\ driver = "open" => ~word.clr /\ word.dec

(* The clocks of this period that have passed, the last of a period being  *)
(* the one in which the tick is 0 again.                                   *)
Passed == IF pwm.tick = 0 THEN Period - 1 ELSE pwm.tick - 1

Least(a, b) == IF a < b THEN a ELSE b

(* In a period that is not spoilt the bridge drives first, until it has    *)
(* driven for the share, and then lets go.                                 *)
ShareOK ==
  drove # Spoilt =>
    /\ pwm.duty = word.duty
    /\ pwm.on <=> Passed < word.duty * Div
    /\ drove = IF BridgeOn THEN Least(Passed, word.duty * Div) ELSE 0

IInv == TypeOK /\ EdgesOK /\ WordOK /\ CountFollows /\ ShareOK
-----------------------------------------------------------------------------
(* Arithmetic in the counter's range: numbers that differ by whole turns   *)
(* of the counter are the same there.                                      *)
LEMMA Ranges ==
  EncHalf \in Nat /\ EncHalf >= 2 /\ Period \in Nat /\ Period >= 2
BY MotorControllerAssumption DEF Period

LEMMA RangeUnique ==
  ASSUME NEW a \in -EncHalf .. EncHalf - 1, NEW b \in -EncHalf .. EncHalf - 1,
         NEW k \in Int, a = b + k * (2 * EncHalf)
  PROVE  a = b
<1>1. EncHalf \in Nat /\ EncHalf >= 2
  BY Ranges
<1>2. PICK n \in Nat : n = 2 * EncHalf
  BY <1>1
<1>3. k >= 1 => k * n >= n
  BY <1>1, <1>2
<1>4. k <= -1 => k * n <= -n
  BY <1>1, <1>2
<1>5. k = 0
  BY <1>1, <1>2, <1>3, <1>4
<1> QED
  BY <1>2, <1>5

LEMMA Remainder ==
  ASSUME NEW y \in Int, NEW n \in Nat, n > 0
  PROVE  y % n \in 0 .. n - 1 /\ \E q \in Int : y = q * n + (y % n)
<1>1. y % n \in 0 .. n - 1
  OBVIOUS
<1>2. \E q \in Int : y = q * n + (y % n)
  OBVIOUS
<1> QED
  BY <1>1, <1>2

LEMMA InRangeFacts ==
  ASSUME NEW x \in Int
  PROVE  /\ InRange(x) \in -EncHalf .. EncHalf - 1
         /\ \E k \in Int : InRange(x) = x + k * (2 * EncHalf)
<1>1. PICK n \in Nat : n = 2 * EncHalf /\ n > 0
  BY Ranges
<1>2. PICK y \in Int : y = x + EncHalf
  BY Ranges
<1>3. PICK q \in Int : y = q * n + (y % n)
  BY <1>1, Remainder
<1>4. y % n \in 0 .. n - 1
  BY <1>1, Remainder
<1>5. InRange(x) = (y % n) - EncHalf
  BY <1>1, <1>2 DEF InRange
<1>6. InRange(x) \in -EncHalf .. EncHalf - 1
  BY <1>1, <1>4, <1>5, Ranges
<1>7. InRange(x) = x + (-q) * n
  BY <1>1, <1>2, <1>3, <1>4, <1>5, Ranges
<1>8. -q \in Int
  BY <1>3
<1> QED
  BY <1>1, <1>6, <1>7, <1>8

LEMMA InRangeCongruent ==
  ASSUME NEW x \in Int, NEW y \in Int, NEW k \in Int, x = y + k * (2 * EncHalf)
  PROVE  InRange(x) = InRange(y)
<1>1. PICK n \in Nat : n = 2 * EncHalf
  BY Ranges
<1>2. PICK i \in Int : InRange(x) = x + i * n
  BY <1>1, InRangeFacts
<1>3. PICK j \in Int : InRange(y) = y + j * n
  BY <1>1, InRangeFacts
<1>4. PICK h \in Int : h = i + k - j
  OBVIOUS
<1>5. InRange(x) = InRange(y) + h * n
  BY <1>1, <1>2, <1>3, <1>4
<1> QED
  BY <1>1, <1>5, InRangeFacts, RangeUnique

LEMMA InRangeSum ==
  ASSUME NEW x \in Int, NEW y \in Int
  PROVE  InRange(InRange(x) + y) = InRange(x + y)
<1>1. PICK k \in Int : InRange(x) = x + k * (2 * EncHalf)
  BY InRangeFacts
<1>2. InRange(x) \in Int
  BY InRangeFacts, Ranges
<1>3. InRange(x) + y = (x + y) + k * (2 * EncHalf)
  BY <1>1, Ranges
<1> QED
  BY <1>2, <1>3, InRangeCongruent

LEMMA InRangeIs ==
  ASSUME NEW x \in -EncHalf .. EncHalf - 1 PROVE InRange(x) = x
<1>1. x \in Int
  BY Ranges
<1>2. PICK k \in Int : InRange(x) = x + k * (2 * EncHalf)
  BY <1>1, InRangeFacts
<1>3. InRange(x) \in -EncHalf .. EncHalf - 1
  BY <1>1, InRangeFacts
<1> QED
  BY <1>2, <1>3, RangeUnique

(* The counter's steps, at its limits too.                                 *)
LEMMA CountSteps ==
  ASSUME NEW e \in -EncHalf .. EncHalf - 1
  PROVE  CountUp(e) = InRange(e + 1) /\ CountDown(e) = InRange(e + (-1))
<1>1. CASE e = EncHalf - 1
  <2>1. e + 1 = -EncHalf + 1 * (2 * EncHalf)
    BY <1>1, Ranges
  <2>2. InRange(e + 1) = InRange(-EncHalf)
    <3>1. e + 1 \in Int /\ -EncHalf \in Int /\ 1 \in Int
      BY Ranges
    <3> QED
      BY <2>1, <3>1, InRangeCongruent
  <2>3. InRange(-EncHalf) = -EncHalf /\ InRange(e + (-1)) = e + (-1)
    BY <1>1, InRangeIs, Ranges
  <2> QED
    BY <1>1, <2>2, <2>3, Ranges DEF CountUp, CountDown
<1>2. CASE e = -EncHalf
  <2>1. e + (-1) = (EncHalf - 1) + (-1) * (2 * EncHalf)
    BY <1>2, Ranges
  <2>2. InRange(e + (-1)) = InRange(EncHalf - 1)
    <3>1. e + (-1) \in Int /\ EncHalf - 1 \in Int /\ -1 \in Int
      BY Ranges
    <3> QED
      BY <2>1, <3>1, InRangeCongruent
  <2>3. InRange(EncHalf - 1) = EncHalf - 1 /\ InRange(e + 1) = e + 1
    BY <1>2, InRangeIs, Ranges
  <2> QED
    BY <1>2, <2>2, <2>3, Ranges DEF CountUp, CountDown
<1>3. CASE e # EncHalf - 1 /\ e # -EncHalf
  <2>1. InRange(e + 1) = e + 1 /\ InRange(e + (-1)) = e + (-1)
    BY <1>3, InRangeIs, Ranges
  <2> QED
    BY <1>3, <2>1, Ranges DEF CountUp, CountDown
<1> QED
  BY <1>1, <1>2, <1>3
-----------------------------------------------------------------------------
(* The two signals tell the phase, and the phase the signals.              *)
LEMMA Phases ==
  /\ PhaseOf(FALSE, FALSE) = 0 /\ PhaseOf(TRUE, FALSE) = 1
  /\ PhaseOf(TRUE, TRUE) = 2 /\ PhaseOf(FALSE, TRUE) = 3
<1>1. /\ ~EncA(0) /\ ~EncB(0) /\ EncA(1) /\ ~EncB(1)
      /\ EncA(2) /\ EncB(2) /\ ~EncA(3) /\ EncB(3)
  BY DEF EncA, EncB
<1>2. \A p \in 0 .. 3 : p \in {0, 1, 2, 3}
  OBVIOUS
<1> QED
  BY <1>1, <1>2 DEF PhaseOf, EncA, EncB

FFType == [A : BOOLEAN, B : BOOLEAN, A_FF : BOOLEAN, B_FF : BOOLEAN]

LEMMA PhaseFacts ==
  ASSUME NEW a \in BOOLEAN, NEW b \in BOOLEAN
  PROVE  /\ PhaseOf(a, b) \in 0 .. 3
         /\ EncA(PhaseOf(a, b)) = a /\ EncB(PhaseOf(a, b)) = b
<1>0. /\ EncA(0) = FALSE /\ EncB(0) = FALSE /\ EncA(1) = TRUE /\ EncB(1) = FALSE
      /\ EncA(2) = TRUE /\ EncB(2) = TRUE /\ EncA(3) = FALSE /\ EncB(3) = TRUE
      /\ 0 \in 0 .. 3 /\ 1 \in 0 .. 3 /\ 2 \in 0 .. 3 /\ 3 \in 0 .. 3
  BY DEF EncA, EncB
<1>1. CASE a = TRUE /\ b = TRUE
  BY <1>0, <1>1, Phases, Zenon
<1>2. CASE a = TRUE /\ b = FALSE
  BY <1>0, <1>2, Phases, Zenon
<1>3. CASE a = FALSE /\ b = TRUE
  BY <1>0, <1>3, Phases, Zenon
<1>4. CASE a = FALSE /\ b = FALSE
  BY <1>0, <1>4, Phases, Zenon
<1> QED
  BY <1>1, <1>2, <1>3, <1>4

LEMMA SignalsOfPhase ==
  ASSUME NEW p \in 0 .. 3 PROVE PhaseOf(EncA(p), EncB(p)) = p
<1>1. CASE p = 0
  <2>1. EncA(p) = FALSE /\ EncB(p) = FALSE
    BY <1>1 DEF EncA, EncB
  <2> QED
    BY <1>1, <2>1, Phases
<1>2. CASE p = 1
  <2>1. EncA(p) = TRUE /\ EncB(p) = FALSE
    BY <1>2 DEF EncA, EncB
  <2> QED
    BY <1>2, <2>1, Phases
<1>3. CASE p = 2
  <2>1. EncA(p) = TRUE /\ EncB(p) = TRUE
    BY <1>3 DEF EncA, EncB
  <2> QED
    BY <1>3, <2>1, Phases
<1>4. CASE p = 3
  <2>1. EncA(p) = FALSE /\ EncB(p) = TRUE
    BY <1>4 DEF EncA, EncB
  <2> QED
    BY <1>4, <2>1, Phases
<1> QED
  BY <1>1, <1>2, <1>3, <1>4

LEMMA EdgeFacts ==
  ASSUME NEW p \in 0 .. 3, NEW q \in 0 .. 3
  PROVE  /\ Edge(p, q) \in {-1, 0, 1} /\ Edge(p, p) = 0
         /\ q = (p + 1) % 4 \/ q = (p + 3) % 4 => Near(p, q)
BY DEF Edge, Near

LEMMA FlipFlops ==
  ASSUME NEW f \in FFType
  PROVE  Sampled(f) \in 0 .. 3 /\ Before(f) \in 0 .. 3
BY PhaseFacts DEF FFType, Sampled, Before

(* What the decoder makes of two samples that are at most one edge apart.  *)
LEMMA DecodedPhases ==
  ASSUME NEW p \in 0 .. 3, NEW q \in 0 .. 3, Near(p, q)
  PROVE  /\ Edge(p, q) = 1 <=> (EncA(q) # EncB(p)) /\ (EncB(q) = EncA(p))
         /\ Edge(p, q) = -1 <=> (EncA(q) = EncB(p)) /\ (EncB(q) # EncA(p))
<1>1. p = 0 \/ p = 1 \/ p = 2 \/ p = 3
  OBVIOUS
<1>2. q = 0 \/ q = 1 \/ q = 2 \/ q = 3
  OBVIOUS
<1> QED
  BY <1>1, <1>2 DEF Near, Edge, EncA, EncB

LEMMA Decoded ==
  ASSUME NEW f \in FFType, Near(Before(f), Sampled(f))
  PROVE  LET e == Edge(Before(f), Sampled(f))
         IN  /\ e = 1 <=> (f.A # f.B_FF) /\ (f.B = f.A_FF)
             /\ e = -1 <=> (f.A = f.B_FF) /\ (f.B # f.A_FF)
<1>1. f.A \in BOOLEAN /\ f.B \in BOOLEAN /\ f.A_FF \in BOOLEAN /\ f.B_FF \in BOOLEAN
  BY DEF FFType
<1>2. /\ EncA(Sampled(f)) = f.A /\ EncB(Sampled(f)) = f.B /\ Sampled(f) \in 0 .. 3
      /\ EncA(Before(f)) = f.A_FF /\ EncB(Before(f)) = f.B_FF /\ Before(f) \in 0 .. 3
  BY <1>1, PhaseFacts, Zenon DEF Sampled, Before
<1>3. /\ Edge(Before(f), Sampled(f)) = 1 <=>
           (EncA(Sampled(f)) # EncB(Before(f))) /\ (EncB(Sampled(f)) = EncA(Before(f)))
      /\ Edge(Before(f), Sampled(f)) = -1 <=>
           (EncA(Sampled(f)) = EncB(Before(f))) /\ (EncB(Sampled(f)) # EncA(Before(f)))
  BY <1>2, DecodedPhases
<1> QED
  BY <1>2, <1>3, Zenon
-----------------------------------------------------------------------------
LEMMA InFlightType ==
  ASSUME NEW p \in 0 .. 3, NEW f \in FFType PROVE InFlight(p, f) \in -2 .. 2
<1>1. Edge(Before(f), Sampled(f)) \in {-1, 0, 1} /\ Edge(Sampled(f), p) \in {-1, 0, 1}
  BY FlipFlops, EdgeFacts
<1> QED
  BY <1>1 DEF InFlight

(* A clock moves the edges on.                                             *)
LEMMA ClockEdges ==
  ASSUME TypeOK, Clock
  PROVE  /\ ff' \in FFType /\ Before(ff') = Sampled(ff) /\ Sampled(ff') = phase
<1>1. phase \in 0 .. 3 /\ ff \in FFType
  BY DEF TypeOK, FFType
<1>2. ff' = [A |-> EncA(phase), B |-> EncB(phase), A_FF |-> ff.A, B_FF |-> ff.B]
  BY DEF Clock
<1>3. ff' \in FFType
  BY <1>1, <1>2 DEF FFType, EncA, EncB
<1>4. Before(ff') = Sampled(ff)
  BY <1>2 DEF Before, Sampled
<1>5. Sampled(ff') = PhaseOf(EncA(phase), EncB(phase))
  BY <1>2 DEF Sampled
<1> QED
  BY <1>1, <1>3, <1>4, <1>5, SignalsOfPhase

(* The wheel gives its edge in front of the flip-flops.                    *)
LEMMA TurnEdge ==
  ASSUME TypeOK, Turn
  PROVE  /\ phase' \in 0 .. 3 /\ Near(phase, phase') /\ ff' = ff /\ phase = Sampled(ff)
         /\ InFlight(phase', ff) = InFlight(phase, ff) + Edge(phase, phase')
<1>1. phase \in 0 .. 3 /\ ff \in FFType /\ ff' = ff /\ phase = Sampled(ff)
  BY DEF TypeOK, FFType, Turn
<1>2. phase' \in 0 .. 3 /\ Near(phase, phase')
  <2>1. phase' = (phase + 1) % 4 \/ phase' = (phase + 3) % 4
    BY DEF Turn
  <2>2. phase' \in 0 .. 3
    BY <1>1, <2>1
  <2> QED
    BY <1>1, <2>1, <2>2, EdgeFacts
<1>3. /\ Edge(phase, phase) = 0 /\ Edge(phase, phase') \in {-1, 0, 1}
      /\ Edge(Before(ff), Sampled(ff)) \in {-1, 0, 1}
  BY <1>1, <1>2, EdgeFacts, FlipFlops
<1> QED
  BY <1>1, <1>2, <1>3 DEF InFlight

LEMMA EdgesPreserved == TypeOK /\ EdgesOK /\ [Next]_vars => EdgesOK'
<1> SUFFICES ASSUME TypeOK, EdgesOK, [Next]_vars PROVE EdgesOK'
  OBVIOUS
<1> USE DEF EdgesOK
<1>1. CASE Clock
  <2>1. phase' = phase /\ Near(Sampled(ff), phase)
    BY <1>1 DEF Clock
  <2>2. Near(phase, phase)
    BY DEF Near
  <2> QED
    BY <1>1, <2>1, <2>2, ClockEdges
<1>2. CASE Turn
  BY <1>2, TurnEdge
<1>3. CASE Clear \/ Release \/ Write \/ Close \/ Abandon \/ Gate \/ UNCHANGED vars
  BY <1>3 DEF Clear, Release, Write, Close, Abandon, Gate, vars, decoderVars
<1> QED
  BY <1>1, <1>2, <1>3 DEF Next

LEMMA WordPreserved == TypeOK /\ WordOK /\ [Next]_vars => WordOK'
<1> SUFFICES ASSUME TypeOK, WordOK, [Next]_vars PROVE WordOK'
  OBVIOUS
<1> USE DEF WordOK
<1>1. CASE Clear
  BY <1>1 DEF Clear
<1>2. CASE Release
  <2>1. word'.clr = FALSE /\ word'.dec = word.dec /\ driver' = "open" /\ driver = "clearing"
    BY <1>2 DEF Release, TypeOK
  <2> QED
    BY <2>1
<1>3. CASE Write
  <2>1. word'.clr = word.clr /\ word'.dec = word.dec /\ driver' = "open" /\ driver = "open"
    BY <1>3 DEF Write, TypeOK
  <2> QED
    BY <2>1
<1>4. CASE Clock
  BY <1>4 DEF Clock, driverVars, Counted
<1>5. CASE Close \/ Abandon \/ Gate \/ Turn \/ UNCHANGED vars
  BY <1>5 DEF Close, Abandon, Gate, Turn, vars, driverVars, decoderVars
<1> QED
  BY <1>1, <1>2, <1>3, <1>4, <1>5 DEF Next

(* A clock of the counter: an edge that leaves the flip-flops is counted.  *)
LEMMA CountedIs ==
  ASSUME TypeOK, EdgesOK, ~word.clr, word.dec
  PROVE  Counted = InRange(count + Edge(Before(ff), Sampled(ff)))
<1>1. ff \in FFType /\ count \in -EncHalf .. EncHalf - 1 /\ count \in Int
  BY Ranges DEF TypeOK, FFType
<1>2. Near(Before(ff), Sampled(ff))
  BY DEF EdgesOK
<1>3. PICK e \in {-1, 0, 1} : e = Edge(Before(ff), Sampled(ff))
  BY <1>1, FlipFlops, EdgeFacts
<1>4. /\ e = 1 <=> (ff.A # ff.B_FF) /\ (ff.B = ff.A_FF)
      /\ e = -1 <=> (ff.A = ff.B_FF) /\ (ff.B # ff.A_FF)
  BY <1>1, <1>2, <1>3, Decoded
<1>5. /\ e = 1 <=> CounterUp /\ ~CounterDown
      /\ e = -1 <=> CounterDown /\ ~CounterUp
  BY <1>4 DEF CounterUp, CounterDown
<1>6. CASE e = 1
  BY <1>1, <1>3, <1>5, <1>6, CountSteps DEF Counted
<1>7. CASE e = -1
  BY <1>1, <1>3, <1>5, <1>7, CountSteps DEF Counted
<1>8. CASE e = 0
  <2>1. ~(CounterUp # CounterDown)
    <3>1. CounterUp \in BOOLEAN /\ CounterDown \in BOOLEAN
      BY Zenon DEF CounterUp, CounterDown
    <3> QED
      BY <1>5, <1>8, <3>1
  <2>2. Counted = count
    BY <2>1, Zenon DEF Counted
  <2>3. InRange(count + e) = count
    BY <1>1, <1>8, InRangeIs
  <2> QED
    BY <1>3, <2>2, <2>3
<1> QED
  BY <1>6, <1>7, <1>8
-----------------------------------------------------------------------------
(* What the wheel gave and nobody counted yet is what is in flight.        *)
LEMMA NothingCounted ==
  ASSUME NEW i \in -2 .. 2 PROVE InRange(InRange(i) - i) = 0
<1>1. InRange(InRange(i) + (-i)) = InRange(i + (-i))
  BY InRangeSum
<1>2. InRange(i) \in Int
  BY InRangeFacts, Ranges
<1>3. InRange(0) = 0
  BY InRangeIs, Ranges
<1> QED
  BY <1>1, <1>2, <1>3

LEMMA CountPreserved ==
  TypeOK /\ EdgesOK /\ WordOK /\ CountFollows /\ [Next]_vars => CountFollows'
<1> SUFFICES ASSUME TypeOK, EdgesOK, WordOK, CountFollows, [Next]_vars,
                    driver' # "closed"
             PROVE  count' = InRange(turned' - InFlight(phase', ff'))
  BY DEF CountFollows
<1>1. /\ phase \in 0 .. 3 /\ ff \in FFType /\ InFlight(phase, ff) \in -2 .. 2
      /\ turned \in Int /\ turned \in -EncHalf .. EncHalf - 1
      /\ count \in Int /\ count \in -EncHalf .. EncHalf - 1
  BY InFlightType, Ranges DEF TypeOK, FFType
<1>0. driver # "closed" => IF word.clr THEN count = 0 ELSE word.dec
  BY DEF TypeOK, WordOK
<1>2. CASE Clear
  <2>1. /\ count' = 0 /\ turned' = InRange(InFlight(phase, ff))
        /\ phase' = phase /\ ff' = ff
    BY <1>2 DEF Clear
  <2> QED
    BY <1>1, <2>1, NothingCounted
<1>3. CASE Turn
  <2>1. /\ phase' \in 0 .. 3 /\ ff' = ff /\ count' = count
        /\ InFlight(phase', ff) = InFlight(phase, ff) + Edge(phase, phase')
        /\ Edge(phase, phase') \in {-1, 0, 1} /\ driver' = driver
    BY <1>1, <1>3, TurnEdge, EdgeFacts DEF Turn, driverVars
  <2>2. InFlight(phase', ff) \in -2 .. 2
    BY <1>1, <2>1, InFlightType
  <2>3. CASE word.clr
    <3>1. turned' = InRange(InFlight(phase', ff)) /\ count = 0
      BY <1>0, <1>3, <2>1, <2>3 DEF Turn
    <3> QED
      BY <2>1, <2>2, <3>1, NothingCounted
  <2>4. CASE ~word.clr
    <3>1. turned' = InRange(turned + Edge(phase, phase'))
      BY <1>0, <1>3, <2>1, <2>4 DEF Turn
    <3>2. PICK s \in Int, i \in Int, j \in Int :
            /\ s = turned + Edge(phase, phase')
            /\ i = InFlight(phase, ff) /\ j = InFlight(phase', ff)
      BY <1>1, <2>1, <2>2
    <3>3. InRange(InRange(s) + (-j)) = InRange(s + (-j)) /\ InRange(s) \in Int
      BY InRangeSum, InRangeFacts, Ranges
    <3>4. s + (-j) = turned - i
      BY <1>1, <2>1, <3>2
    <3>5. count = InRange(turned - i)
      BY <2>1, <3>2 DEF CountFollows
    <3>6. count' = InRange(InRange(s) + (-j))
      BY <2>1, <3>3, <3>4, <3>5
    <3>7. InRange(s) + (-j) = InRange(s) - j
      BY <3>3
    <3> QED
      BY <2>1, <3>1, <3>2, <3>6, <3>7
  <2> QED
    BY <2>3, <2>4
<1>4. CASE Clock
  <2>1. /\ ff' \in FFType /\ phase' = phase /\ driver' = driver
        /\ count' = Counted
        /\ Before(ff') = Sampled(ff) /\ Sampled(ff') = phase
    BY <1>4, ClockEdges DEF Clock, driverVars
  <2>2. InFlight(phase, ff') \in -2 .. 2
    BY <1>1, <2>1, InFlightType
  <2>3. CASE word.clr
    <3>1. count' = 0 /\ turned' = InRange(InFlight(phase, ff'))
      BY <1>4, <2>1, <2>3 DEF Clock, Counted
    <3> QED
      BY <2>1, <2>2, <3>1, NothingCounted
  <2>4. CASE ~word.clr
    <3>1. turned' = turned /\ word.dec
      BY <1>0, <1>4, <2>1, <2>4 DEF Clock
    <3>2. PICK e \in {-1, 0, 1} : e = Edge(Before(ff), Sampled(ff))
      BY <1>1, FlipFlops, EdgeFacts
    <3>3. PICK d \in {-1, 0, 1} : d = Edge(Sampled(ff), phase)
      BY <1>1, FlipFlops, EdgeFacts
    <3>4. count' = InRange(count + e)
      BY <2>1, <2>4, <3>1, <3>2, CountedIs
    <3>5. Edge(phase, phase) = 0
      BY <1>1, EdgeFacts
    <3>6. InFlight(phase, ff) = e + d /\ InFlight(phase, ff') = d
      BY <2>1, <3>2, <3>3, <3>5 DEF InFlight
    <3>7. count = InRange(turned - (e + d))
      BY <2>1, <3>6 DEF CountFollows
    <3>8. PICK s \in Int : s = turned - (e + d)
      BY <1>1
    <3>9. InRange(InRange(s) + e) = InRange(s + e)
      BY InRangeSum
    <3>10. s + e = turned - d
      BY <1>1, <3>8
    <3>11. count' = InRange(turned - d)
      BY <3>4, <3>7, <3>8, <3>9, <3>10
    <3> QED
      BY <2>1, <3>1, <3>6, <3>11
  <2> QED
    BY <2>3, <2>4
<1>5. CASE Release \/ Write \/ Close \/ Abandon \/ Gate \/ UNCHANGED vars
  <2>1. driver # "closed" /\ UNCHANGED <<phase, ff, count, turned>>
    BY <1>5 DEF Release, Write, Close, Abandon, Gate, vars, driverVars, decoderVars
  <2> QED
    BY <2>1 DEF CountFollows
<1> QED
  BY <1>2, <1>3, <1>4, <1>5 DEF Next
-----------------------------------------------------------------------------
(* The PWM counter stays Div clocks at each of its values, so the compare  *)
(* with the duty holds for the first duty * Div clocks of a period.        *)
LEMMA TickBelow ==
  ASSUME NEW x \in Nat, NEW d \in Nat, NEW n \in Nat, n > 0
  PROVE  x \div n < d <=> x < d * n
<1>1. PICK q \in Nat : q = x \div n
  OBVIOUS
<1>2. PICK r \in 0 .. n - 1 : x = q * n + r
  BY <1>1
<1>3. CASE q < d
  <2>1. PICK h \in Nat : d = q + 1 + h
    <3>1. d - q - 1 \in Nat /\ d = q + 1 + (d - q - 1)
      BY <1>3
    <3> QED
      BY <3>1
  <2>2. d * n = q * n + n + h * n /\ h * n >= 0
    BY <2>1
  <2> QED
    BY <1>1, <1>2, <1>3, <2>2
<1>4. CASE ~(q < d)
  <2>1. PICK h \in Nat : q = d + h
    <3>1. q - d \in Nat /\ q = d + (q - d)
      BY <1>4
    <3> QED
      BY <3>1
  <2>2. q * n = d * n + h * n /\ h * n >= 0 /\ d * n \in Int
    BY <2>1
  <2> QED
    BY <1>1, <1>2, <1>4, <2>2
<1> QED
  BY <1>3, <1>4

(* The longest share ends a PWM value before the period does.              *)
LEMMA ShareFits ==
  ASSUME NEW d \in 0 .. MaxDuty
  PROVE  d * Div \in Nat /\ d * Div <= Period - Div /\ Div \in Nat /\ Div >= 1
<1>1. MaxDuty \in Nat /\ Div \in Nat /\ Div >= 1
  BY MotorControllerAssumption
<1>2. PICK h \in Nat : MaxDuty = d + h
  <2>1. MaxDuty - d \in Nat /\ MaxDuty = d + (MaxDuty - d)
    BY <1>1
  <2> QED
    BY <2>1
<1>3. (MaxDuty + 1) * Div = d * Div + h * Div + Div /\ h * Div >= 0 /\ d * Div \in Nat
  BY <1>1, <1>2
<1> QED
  BY <1>1, <1>3 DEF Period

LEMMA NextTick ==
  ASSUME NEW t \in 0 .. Period - 1
  PROVE  (t + 1) % Period = IF t = Period - 1 THEN 0 ELSE t + 1
<1>1. PICK n \in Nat : n = Period /\ n >= 2
  BY Ranges
<1>2. CASE t = n - 1
  <2>1. n % n = 0
    BY <1>1
  <2> QED
    BY <1>1, <1>2, <2>1
<1>3. CASE t < n - 1
  <2>1. t + 1 \in 0 .. n - 1
    BY <1>1, <1>3
  <2>2. (t + 1) % n = t + 1
    BY <1>1, <2>1
  <2> QED
    BY <1>1, <1>3, <2>2
<1> QED
  BY <1>1, <1>2, <1>3

(* The bridge drives while it is on and the PWM output is.                 *)
LEMMA DrivingIs ==
  ASSUME TypeOK PROVE Driving <=> BridgeOn /\ pwm.on
<1>1. word.dir \in {0, 1} /\ pwm.on \in BOOLEAN /\ BridgeOn \in BOOLEAN
  BY DEF TypeOK, BridgeOn
<1> QED
  BY <1>1 DEF Driving, Out1, Out2

(* A clock of the PWM counter: after it, as many clocks of the period have *)
(* passed as the counter stood at before.                                  *)
LEMMA ClockPasses ==
  ASSUME TypeOK, Clock
  PROVE  /\ pwm'.tick \in 0 .. Period - 1 /\ Passed' = pwm.tick
         /\ pwm'.duty = word.duty /\ word' = word /\ gate' = gate
         /\ pwm'.on \in BOOLEAN
         /\ pwm'.on <=> pwm.tick < pwm.duty * Div
<1>1. /\ pwm.tick \in 0 .. Period - 1 /\ pwm.tick \in Nat /\ pwm.duty \in 0 .. MaxDuty
      /\ pwm.duty \in Nat /\ Div \in Nat /\ Div > 0 /\ Period \in Nat /\ Period >= 2
  BY Ranges, MotorControllerAssumption DEF TypeOK
<1>2. pwm' = [tick |-> (pwm.tick + 1) % Period, duty |-> word.duty, on |-> PwmOn]
  BY DEF Clock
<1>3. pwm'.tick = IF pwm.tick = Period - 1 THEN 0 ELSE pwm.tick + 1
  BY <1>1, <1>2, NextTick
<1>4. Passed' = pwm.tick /\ pwm'.tick \in 0 .. Period - 1
  BY <1>1, <1>3 DEF Passed
<1>5. PwmOn <=> pwm.tick < pwm.duty * Div
  BY <1>1, TickBelow DEF PwmOn
<1>6. PwmOn \in BOOLEAN
  BY <1>1 DEF PwmOn
<1> QED
  BY <1>2, <1>4, <1>5, <1>6 DEF Clock, driverVars

LEMMA SharePreserved == TypeOK /\ ShareOK /\ [Next]_vars => ShareOK'
<1> SUFFICES ASSUME TypeOK, ShareOK, [Next]_vars, drove' # Spoilt
             PROVE  /\ pwm'.duty = word'.duty
                    /\ pwm'.on <=> Passed' < word'.duty * Div
                    /\ drove' = IF BridgeOn'
                                 THEN Least(Passed', word'.duty * Div) ELSE 0
  BY DEF ShareOK
<1>1. CASE Clock
  <2>1. /\ Passed' = pwm.tick /\ pwm'.duty = word.duty /\ word' = word /\ gate' = gate
        /\ pwm'.on <=> pwm.tick < pwm.duty * Div
    BY <1>1, ClockPasses
  <2>2. BridgeOn' = BridgeOn
    BY <2>1 DEF BridgeOn
  <2>3. PICK share \in Nat : share = word.duty * Div
    BY ShareFits DEF TypeOK
  <2>4. pwm.tick \in 0 .. Period - 1 /\ Period \in Nat
    BY Ranges DEF TypeOK
  <2>5. drove' = IF pwm.tick = 0
                 THEN IF word.duty = pwm.duty THEN 0 ELSE Spoilt
                 ELSE IF drove # Spoilt /\ Driving THEN drove + 1 ELSE drove
    BY <1>1 DEF Clock
  <2>8. /\ word'.duty * Div = share
        /\ word.duty = pwm.duty => pwm.duty * Div = share
    BY <2>1, <2>3
  <2>6. CASE pwm.tick = 0
    <3>1. word.duty = pwm.duty /\ drove' = 0
      BY <2>5, <2>6
    <3> QED
      BY <2>1, <2>2, <2>3, <2>8, <2>6, <3>1 DEF Least
  <2>7. CASE pwm.tick # 0
    <3>1. drove # Spoilt
      BY <2>5, <2>7
    <3>2. /\ pwm.duty = word.duty
          /\ pwm.on <=> pwm.tick - 1 < share
          /\ drove = IF BridgeOn THEN Least(pwm.tick - 1, share) ELSE 0
      BY <2>3, <2>7, <3>1 DEF ShareOK, Passed
    <3>3. CASE BridgeOn
      <4>1. PICK t \in Nat : t = pwm.tick /\ t > 0
        BY <2>4, <2>7
      <4>2. pwm.on <=> t - 1 < share
        BY <3>2, <4>1, Zenon
      <4>3. drove = Least(t - 1, share)
        BY <3>2, <3>3, <4>1
      <4>4. drove' = Least(t, share)
        <5>1. CASE t - 1 < share
          <6>1. drove' = drove + 1
            BY <2>5, <2>7, <3>1, <3>3, <4>2, <5>1, DrivingIs
          <6> QED
            BY <2>3, <4>1, <4>3, <5>1, <6>1 DEF Least
        <5>2. CASE ~(t - 1 < share)
          <6>1. drove' = drove
            BY <2>5, <2>7, <3>1, <3>3, <4>2, <5>2, DrivingIs
          <6> QED
            BY <2>3, <4>1, <4>3, <5>2, <6>1 DEF Least
        <5> QED
          BY <5>1, <5>2
      <4> QED
        BY <2>1, <2>2, <2>8, <3>2, <3>3, <4>1, <4>4
    <3>4. CASE ~BridgeOn
      <4>1. drove' = drove
        BY <2>5, <2>7, <3>1, <3>4, DrivingIs
      <4> QED
        BY <2>1, <2>2, <2>8, <3>2, <3>4, <4>1
    <3> QED
      BY <3>3, <3>4
  <2> QED
    BY <2>6, <2>7
<1>2. CASE Release
  <2>1. /\ pwm' = pwm /\ gate' = gate /\ drove' = drove
        /\ word' = [word EXCEPT !.clr = FALSE]
    BY <1>2 DEF Release, pwmVars
  <2>2. word'.duty = word.duty /\ word'.en = word.en
    BY <2>1 DEF TypeOK
  <2> QED
    BY <2>1, <2>2 DEF ShareOK, Passed, BridgeOn
<1>3. CASE Write
  <2>1. pwm' = pwm /\ gate' = gate /\ drove' = drove /\ word' = word
    BY <1>3 DEF Write
  <2> QED
    BY <2>1 DEF ShareOK, Passed, BridgeOn
<1>4. CASE Clear \/ Close \/ Gate
  BY <1>4 DEF Clear, Close, Gate
<1>5. CASE Abandon \/ Turn \/ UNCHANGED vars
  <2>1. pwm' = pwm /\ gate' = gate /\ drove' = drove /\ word' = word
    BY <1>5 DEF Abandon, Turn, vars, driverVars, pwmVars
  <2> QED
    BY <2>1 DEF ShareOK, Passed, BridgeOn
<1> QED
  BY <1>1, <1>2, <1>3, <1>4, <1>5 DEF Next
-----------------------------------------------------------------------------
WordType == [duty : 0 .. MaxDuty, dir : {0, 1}, en : BOOLEAN, clr : BOOLEAN, dec : BOOLEAN]

LEMMA WordTyped == TypeOK /\ [Next]_vars => word' \in WordType
<1> SUFFICES ASSUME TypeOK, [Next]_vars PROVE word' \in WordType
  OBVIOUS
<1>0. word \in WordType /\ 0 \in 0 .. MaxDuty
  BY MotorControllerAssumption DEF TypeOK, WordType
<1>1. CASE Clear
  BY <1>0, <1>1 DEF Clear, WordType
<1>2. CASE Release
  BY <1>0, <1>2 DEF Release, WordType
<1>3. CASE Write
  <2>1. PICK duty \in Duties, dir \in {0, 1} :
          word' = [word EXCEPT !.duty = duty, !.dir = dir]
    BY <1>3 DEF Write
  <2>2. duty \in 0 .. MaxDuty
    BY <2>1, MotorControllerAssumption
  <2> QED
    BY <1>0, <2>1, <2>2 DEF WordType
<1>4. CASE Close
  BY <1>0, <1>4 DEF Close, WordType
<1>5. CASE Abandon \/ Gate \/ Turn \/ Clock \/ UNCHANGED vars
  BY <1>0, <1>5 DEF Abandon, Gate, Turn, Clock, vars, driverVars
<1> QED
  BY <1>1, <1>2, <1>3, <1>4, <1>5 DEF Next

(* The counter and the edges that should be in it stay in its range.       *)
LEMMA CountsTyped ==
  TypeOK /\ [Next]_vars => /\ count' \in -EncHalf .. EncHalf - 1
                           /\ turned' \in -EncHalf .. EncHalf - 1
<1> SUFFICES ASSUME TypeOK, [Next]_vars
             PROVE  /\ count' \in -EncHalf .. EncHalf - 1
                    /\ turned' \in -EncHalf .. EncHalf - 1
  OBVIOUS
<1>0. /\ count \in -EncHalf .. EncHalf - 1 /\ turned \in -EncHalf .. EncHalf - 1
      /\ count \in Int /\ turned \in Int /\ 0 \in -EncHalf .. EncHalf - 1
      /\ phase \in 0 .. 3 /\ ff \in FFType
  BY Ranges DEF TypeOK, FFType
<1>1. \A p \in 0 .. 3, f \in FFType : InRange(InFlight(p, f)) \in -EncHalf .. EncHalf - 1
  <2> TAKE p \in 0 .. 3, f \in FFType
  <2>1. InFlight(p, f) \in Int
    BY InFlightType
  <2> QED
    BY <2>1, InRangeFacts
<1>2. CASE Clear
  BY <1>0, <1>1, <1>2 DEF Clear
<1>3. CASE Turn
  <2>1. /\ phase' \in 0 .. 3 /\ count' = count
        /\ turned' \in {InRange(InFlight(phase', ff)),
                        InRange(turned + Edge(phase, phase')), turned}
    BY <1>3, TurnEdge DEF Turn
  <2>2. turned + Edge(phase, phase') \in Int
    BY <1>0, <2>1, EdgeFacts
  <2>3. InRange(turned + Edge(phase, phase')) \in -EncHalf .. EncHalf - 1
    BY <2>2, InRangeFacts
  <2> QED
    BY <1>0, <1>1, <2>1, <2>3
<1>4. CASE Clock
  <2>1. /\ ff' \in FFType /\ turned' \in {InRange(InFlight(phase, ff')), turned}
        /\ count' \in {0, CountUp(count), CountDown(count), count}
    BY <1>4, ClockEdges DEF Clock, Counted
  <2>2. /\ CountUp(count) = InRange(count + 1) /\ CountDown(count) = InRange(count + (-1))
        /\ count + 1 \in Int /\ count + (-1) \in Int
    BY <1>0, CountSteps
  <2>3. /\ CountUp(count) \in -EncHalf .. EncHalf - 1
        /\ CountDown(count) \in -EncHalf .. EncHalf - 1
    BY <2>2, InRangeFacts
  <2> QED
    BY <1>0, <1>1, <2>1, <2>3
<1>5. CASE Release \/ Write \/ Close \/ Abandon \/ Gate \/ UNCHANGED vars
  BY <1>0, <1>5 DEF Release, Write, Close, Abandon, Gate, vars, decoderVars
<1> QED
  BY <1>2, <1>3, <1>4, <1>5 DEF Next

LEMMA TypePreserved == TypeOK /\ ShareOK /\ [Next]_vars => TypeOK'
<1> SUFFICES ASSUME TypeOK, ShareOK, [Next]_vars PROVE TypeOK'
  OBVIOUS
<1>1. driver' \in {"closed", "clearing", "open"} /\ gate' \in BOOLEAN
  BY DEF TypeOK, Next, Clear, Release, Write, Close, Abandon, Gate, Turn, Clock,
         vars, driverVars
<1>2. word' \in WordType
  BY WordTyped
<1>3. phase' \in 0 .. 3 /\ ff' \in FFType
  <2>1. CASE Turn
    BY <2>1, TurnEdge DEF TypeOK, FFType
  <2>2. CASE Clock
    BY <2>2, ClockEdges DEF Clock, TypeOK
  <2>3. CASE Clear \/ Release \/ Write \/ Close \/ Abandon \/ Gate \/ UNCHANGED vars
    BY <2>3 DEF Clear, Release, Write, Close, Abandon, Gate, vars, decoderVars,
                TypeOK, FFType
  <2> QED
    BY <2>1, <2>2, <2>3 DEF Next
<1>4. pwm' \in [tick : 0 .. Period - 1, duty : 0 .. MaxDuty, on : BOOLEAN]
  <2>1. CASE Clock
    <3>1. PICK t \in 0 .. Period - 1, d \in 0 .. MaxDuty, b \in BOOLEAN :
            t = pwm'.tick /\ d = pwm'.duty /\ b = pwm'.on
      <4>1. pwm'.tick \in 0 .. Period - 1 /\ pwm'.on \in BOOLEAN /\ pwm'.duty \in 0 .. MaxDuty
        BY <2>1, ClockPasses DEF TypeOK
      <4> QED
        BY <4>1, Zenon
    <3>2. pwm' = [tick |-> t, duty |-> d, on |-> b]
      BY <2>1, <3>1, Zenon DEF Clock
    <3> QED
      BY <3>2
  <2>2. CASE pwm' = pwm
    BY <2>2 DEF TypeOK
  <2> QED
    BY <2>1, <2>2 DEF Next, Clear, Release, Write, Close, Abandon, Gate, Turn,
                      vars, pwmVars
<1>5. drove' \in {Spoilt} \cup 0 .. Period
  <2>1. CASE drove' = Spoilt
    BY <2>1
  <2>2. CASE drove' # Spoilt
    <3>1. drove' = IF BridgeOn' THEN Least(Passed', word'.duty * Div) ELSE 0
      BY <2>2, SharePreserved DEF ShareOK
    <3>2. Passed' \in 0 .. Period - 1 /\ Period \in Nat
      BY <1>4, Ranges DEF Passed
    <3>3. word'.duty * Div \in Nat
      BY <1>2, ShareFits DEF WordType
    <3> QED
      BY <3>1, <3>2, <3>3 DEF Least
  <2> QED
    BY <2>1, <2>2
<1> QED
  BY <1>1, <1>2, <1>3, <1>4, <1>5, CountsTyped DEF TypeOK, WordType, FFType
-----------------------------------------------------------------------------
LEMMA InitHolds == Init => IInv
<1> SUFFICES ASSUME Init PROVE IInv
  OBVIOUS
<1>1. /\ phase \in 0 .. 3 /\ ff = [A |-> EncA(phase), B |-> EncB(phase),
                                 A_FF |-> EncA(phase), B_FF |-> EncB(phase)]
      /\ driver = "closed" /\ drove = Spoilt /\ count = 0 /\ turned = 0
  BY DEF Init
<1>2. ff \in FFType
  BY <1>1 DEF FFType, EncA, EncB
<1>3. Sampled(ff) = phase /\ Before(ff) = phase
  BY <1>1, SignalsOfPhase DEF Sampled, Before
<1>4. EdgesOK
  BY <1>3 DEF EdgesOK, Near
<1>5. TypeOK
  <2>1. 0 \in 0 .. MaxDuty /\ 0 \in 0 .. Period - 1 /\ 0 \in -EncHalf .. EncHalf - 1
    BY Ranges, MotorControllerAssumption
  <2> QED
    BY <1>1, <1>2, <2>1 DEF Init, TypeOK, FFType
<1> QED
  BY <1>1, <1>4, <1>5 DEF IInv, WordOK, CountFollows, ShareOK

LEMMA StepHolds == IInv /\ [Next]_vars => IInv'
BY TypePreserved, EdgesPreserved, WordPreserved, CountPreserved, SharePreserved
   DEF IInv

(* Every state of the controller satisfies the inductive invariant.        *)
THEOREM InvariantHolds == Spec => []IInv
<1> QED
  BY InitHolds, StepHolds, PTL DEF Spec

(* Word, phase, counter and PWM stay in their ranges: the counter goes     *)
(* round at its limits and the clocks driven never exceed a period.        *)
THEOREM TypeCorrect == Spec => []TypeOK
<1>1. IInv => TypeOK
  BY DEF IInv
<1> QED
  BY <1>1, InvariantHolds, PTL

(* The counter holds each edge of the wheel once and in its direction, but *)
(* for those in the flip-flops, whatever the program clears, releases,     *)
(* closes or abandons in between.                                          *)
THEOREM EdgesCounted == Spec => []CountFollows
<1>1. IInv => CountFollows
  BY DEF IInv
<1> QED
  BY <1>1, InvariantHolds, PTL

(* In a period in which neither word nor watchdog changed the bridge drove *)
(* for exactly the share of the clocks the word asks for.                  *)
LEMMA ShareAtTheEnd ==
  ASSUME IInv, pwm.tick = 0, drove # Spoilt
  PROVE  drove + (IF Driving THEN 1 ELSE 0) = IF BridgeOn THEN word.duty * Div ELSE 0
<1>1. TypeOK /\ ShareOK
  BY DEF IInv
<1>2. PICK share \in Nat : share = word.duty * Div /\ share <= Period - 1
  <2>1. word.duty \in 0 .. MaxDuty
    BY <1>1 DEF TypeOK
  <2> QED
    BY <2>1, ShareFits, Ranges
<1>3. /\ pwm.on <=> Period - 1 < share
      /\ drove = IF BridgeOn THEN Least(Period - 1, share) ELSE 0
  BY <1>1, <1>2 DEF ShareOK, Passed
<1>4. ~pwm.on /\ drove = IF BridgeOn THEN share ELSE 0
  BY <1>2, <1>3, Ranges DEF Least
<1>5. ~Driving
  BY <1>1, <1>4, DrivingIs
<1> QED
  BY <1>2, <1>4, <1>5

(* A full period of the PWM counter drives the motor for exactly the share *)
(* of its clocks that the duty cycle asks for, the boundaries included.    *)
THEOREM ShareDriven == Spec => DrivesItsShare
<1>1. IInv /\ [Next]_vars =>
        [Clock /\ pwm.tick = 0 /\ drove # Spoilt =>
           drove + (IF Driving THEN 1 ELSE 0)
             = IF BridgeOn THEN word.duty * Div ELSE 0]_vars
  BY ShareAtTheEnd
<1> QED
  BY <1>1, InvariantHolds, PTL DEF Spec, DrivesItsShare
===============================================================================
