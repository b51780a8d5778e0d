-------------------------- MODULE MotorController --------------------------
(***************************************************************************)
(* One motor controller on the FPGA (vivado/.../motor_controller.v): the   *)
(* quadrature decoder that counts the edges of the encoder, and the PWM    *)
(* generator and H bridge driver, both under the control word that         *)
(* rover/motor.c writes.                                                   *)
(*                                                                         *)
(* The encoder gives four edges in a turn of its phase; between two clocks *)
(* it gives at most one, since the fabric is clocked many thousand times   *)
(* faster than a wheel can turn.                                           *)
(***************************************************************************)
EXTENDS UpDownCounter

CONSTANTS
  MaxDuty,  \* highest duty cycle; the PWM counter runs through 0 .. MaxDuty
  Div,      \* clocks the PWM counter stays at a value, 2^(clk_divisor+1)
  Duties    \* bound of the model: the duty cycles that are written

ASSUME MotorControllerAssumption ==
  /\ EncHalf \in Nat \ {0, 1}
  /\ MaxDuty \in Nat \ {0}
  /\ Div \in Nat \ {0}
  /\ Duties \subseteq 0 .. MaxDuty

VARIABLES
  driver,  \* what motor.c made of the controller: closed, clearing or open
  word,    \* the control word: duty, dir, en, clr (dec_clr), dec (dec_en)
  gate,    \* watchdog_out
  phase,   \* the phase of the encoder, 0 .. 3
  ff,      \* the flip-flops A, B, A_FF and B_FF of the decoder
  count,   \* motor_pos
  turned,  \* edges since the counter was cleared, in the counter's range
  pwm,     \* tick of the PWM period, pwm_duty and PWM_OUT
  drove    \* clocks of this PWM period in which the bridge drove the motor,
           \* or Spoilt: word or gate changed in it

driverVars  == <<driver, word, gate>>
decoderVars == <<phase, ff, count, turned>>
pwmVars     == <<pwm, drove>>
vars        == <<driverVars, decoderVars, pwmVars>>

(* The inverted encoder inputs in a phase: the first signal leads.         *)
EncA(p) == p \in {1, 2}
EncB(p) == p \in {2, 3}
PhaseOf(a, b) == CHOOSE p \in 0 .. 3 : EncA(p) = a /\ EncB(p) = b

(* The edge between two neighbouring phases.                               *)
Edge(p, q) == CASE q = (p + 1) % 4 -> 1 [] p = (q + 1) % 4 -> -1 [] OTHER -> 0

Sampled(f) == PhaseOf(f.A, f.B)
Before(f)  == PhaseOf(f.A_FF, f.B_FF)

(* Edges that were given and not counted yet: at most one waits in front   *)
(* of the flip-flops and one between them.                                 *)
InFlight(p, f) == Edge(Before(f), Sampled(f)) + Edge(Sampled(f), p)

Period == (MaxDuty + 1) * Div
Spoilt == -1

(* The H bridge: both inputs low let the motor coast, both high brake it,  *)
(* one of them alone drives it.                                            *)
BridgeOn == word.en /\ gate
Out1 == (~(BridgeOn /\ pwm.on) \/ word.dir = 1) /\ BridgeOn
Out2 == ~(BridgeOn /\ pwm.on /\ word.dir = 1) /\ BridgeOn

(* It drives the motor the way the word says.                              *)
Driving == IF word.dir = 1 THEN Out1 /\ ~Out2 ELSE Out2 /\ ~Out1

Init ==
  /\ driver = "closed"
  /\ word = [duty |-> 0, dir |-> 0, en |-> FALSE, clr |-> FALSE, dec |-> FALSE]
  /\ gate \in BOOLEAN
  /\ phase \in 0 .. 3
  /\ ff = [A |-> EncA(phase), B |-> EncB(phase),
           A_FF |-> EncA(phase), B_FF |-> EncB(phase)]
  /\ count = 0 /\ turned = 0
  /\ pwm = [tick |-> 0, duty |-> 0, on |-> FALSE] /\ drove = Spoilt
-----------------------------------------------------------------------------
(* MotorController_init: a word that clears the counter, which it does at  *)
(* once and for as long as the word stays, then one that releases it.      *)
Clear ==
  /\ driver = "closed"
  /\ driver' = "clearing"
  /\ word' = [duty |-> 0, dir |-> 1, en |-> TRUE, clr |-> TRUE, dec |-> TRUE]
  /\ count' = 0 /\ turned' = InRange(InFlight(phase, ff))
  /\ drove' = Spoilt
  /\ UNCHANGED <<gate, phase, ff, pwm>>

Release ==
  /\ driver = "clearing"
  /\ driver' = "open"
  /\ word' = [word EXCEPT !.clr = FALSE]
  /\ UNCHANGED <<gate, decoderVars, pwmVars>>

(* MotorController_write, as Servo_update calls it.                        *)
Write ==
  /\ driver = "open"
  /\ \E duty \in Duties, dir \in {0, 1} :
       word' = [word EXCEPT !.duty = duty, !.dir = dir]
  /\ drove' = IF word' = word THEN drove ELSE Spoilt
  /\ UNCHANGED <<driver, gate, decoderVars, pwm>>

(* MotorController_close; the next program begins with Clear again.        *)
Close ==
  /\ driver = "open"
  /\ driver' = "closed"
  /\ word' = [word EXCEPT !.en = FALSE, !.dec = FALSE]
  /\ drove' = Spoilt
  /\ UNCHANGED <<gate, decoderVars, pwm>>

(* A program that dies leaves its word behind for the next one's Clear.    *)
Abandon ==
  /\ driver \in {"clearing", "open"}
  /\ driver' = "closed"
  /\ UNCHANGED <<word, gate, decoderVars, pwmVars>>

(* The watchdog gives or takes the power.                                  *)
Gate ==
  /\ gate' = ~gate
  /\ drove' = Spoilt
  /\ UNCHANGED <<driver, word, decoderVars, pwm>>
-----------------------------------------------------------------------------
(* The wheel gives an edge, forwards or backwards.                         *)
Turn ==
  /\ phase = Sampled(ff)
  /\ \E step \in {1, 3} : phase' = (phase + step) % 4
  /\ turned' = IF word.clr THEN InRange(InFlight(phase', ff))
               ELSE IF word.dec THEN InRange(turned + Edge(phase, phase'))
               ELSE turned
  /\ UNCHANGED <<driverVars, ff, count, pwmVars>>

(* counter_up and counter_down of the decoder, and what the counter makes  *)
(* of them.                                                                *)
CounterUp   == ff.A # ff.B_FF
CounterDown == ff.B # ff.A_FF

(* Mutants of Counted: an edge is counted in every clock; the edge is      *)
(* looked for in one flip-flop instead of two.                             *)
Counted_NoEnable ==
  IF word.clr THEN 0
  ELSE IF CounterUp THEN CountUp(count) ELSE CountDown(count)

Counted_OneStage ==
  IF word.clr THEN 0
  ELSE IF (ff.A # ff.B) # (ff.B # ff.A_FF) /\ word.dec
       THEN IF ff.A # ff.B THEN CountUp(count) ELSE CountDown(count)
       ELSE count

Counted ==
  IF word.clr THEN 0
  ELSE IF CounterUp # CounterDown /\ word.dec
       THEN IF CounterUp THEN CountUp(count) ELSE CountDown(count)
       ELSE count

(* Mutant of PwmOn: the comparison includes the duty itself.               *)
PwmOn_AtLimit == pwm.tick \div Div <= pwm.duty

(* PWM_OUT compares the counter with the duty of a clock before.           *)
PwmOn == pwm.tick \div Div < pwm.duty

(* One clock of the FPGA.                                                  *)
Clock ==
  /\ ff' = [A |-> EncA(phase), B |-> EncB(phase), A_FF |-> ff.A, B_FF |-> ff.B]
  /\ count' = Counted
  /\ turned' = IF word.clr THEN InRange(InFlight(phase, ff')) ELSE turned
  /\ pwm' = [tick |-> (pwm.tick + 1) % Period, duty |-> word.duty, on |-> PwmOn]
  /\ drove' = IF pwm.tick = 0
              THEN IF word.duty = pwm.duty THEN 0 ELSE Spoilt
              ELSE IF drove # Spoilt /\ Driving THEN drove + 1 ELSE drove
  /\ UNCHANGED <<driverVars, phase>>

Next ==
  Clear \/ Release \/ Write \/ Close \/ Abandon \/ Gate \/ Turn \/ Clock

Spec == Init /\ [][Next]_vars
-----------------------------------------------------------------------------
TypeOK ==
  /\ driver \in {"closed", "clearing", "open"}
  /\ word \in [duty : 0 .. MaxDuty, dir : {0, 1}, en : BOOLEAN,
               clr : BOOLEAN, dec : BOOLEAN]
  /\ gate \in BOOLEAN
  /\ phase \in 0 .. 3
  /\ ff \in [A : BOOLEAN, B : BOOLEAN, A_FF : BOOLEAN, B_FF : BOOLEAN]
  /\ count \in -EncHalf .. EncHalf - 1
  /\ turned \in -EncHalf .. EncHalf - 1
  /\ pwm \in [tick : 0 .. Period - 1, duty : 0 .. MaxDuty, on : BOOLEAN]
  /\ drove \in {Spoilt} \cup 0 .. Period

(* From the word that clears it on the counter holds the edges the wheel   *)
(* gave, each once and in its direction, up to the one or two that are     *)
(* still in the flip-flops; over its limits it goes round.  An edge while  *)
(* the program clears and releases the counter is no exception.            *)
CountFollows ==
  driver # "closed" => count = InRange(turned - InFlight(phase, ff))

(* In a period of the PWM in which neither word nor watchdog changed the   *)
(* bridge drove the motor the way and for the share of the clocks that the *)
(* word asks for: zero never drives, and even the highest duty cycle lets  *)
(* go once in a period.                                                    *)
DrivesItsShare ==
  [][Clock /\ pwm.tick = 0 /\ drove # Spoilt =>
       drove + (IF Driving THEN 1 ELSE 0)
         = IF BridgeOn THEN word.duty * Div ELSE 0]_vars
=============================================================================
