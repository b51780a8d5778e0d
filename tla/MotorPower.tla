----------------------------- MODULE MotorPower -----------------------------
(***************************************************************************)
(* What the watchdog is there for, without saying how: the motors of the   *)
(* rover have power only while a program keeps beating.                    *)
(*                                                                         *)
(* A beat is a toggle of the watchdog register.  A clock either sees a     *)
(* beat made since the last one, or counts one quiet clock more; after     *)
(* Window quiet clocks nothing has power, and before that no clock takes   *)
(* power away.  RoverLifecycle implements it.                              *)
(***************************************************************************)
EXTENDS Naturals

CONSTANTS Motors, Window

VARIABLES
  phase,    \* "alive", "dead", or "closed": ended by rover_close
  beat,     \* a beat was made that no clock has seen yet
  quiet,    \* clocks since one saw a beat, up to Window + 1
  powered   \* the motors that turn

power == <<phase, beat, quiet, powered>>

Init ==
  /\ phase = "dead" /\ ~beat /\ quiet = 0 /\ powered = {}

(* A program starts; it has power over nothing yet.                        *)
Start ==
  /\ phase # "alive"
  /\ phase' = "alive"
  /\ UNCHANGED <<beat, quiet, powered>>

(* A living program beats and gives its motors new commands, which have no *)
(* effect once the power is gone; it may die of it.                        *)
Beat ==
  /\ phase = "alive" /\ ~beat
  /\ beat' = TRUE
  /\ phase' \in {"alive", "dead"}
  /\ powered' \subseteq Motors
  /\ quiet > Window => powered' = {}
  /\ UNCHANGED quiet

(* A living program takes motors out of power one by one, and may end with *)
(* that, by rover_close only when it has left none of them under power.    *)
Withdraw ==
  /\ phase = "alive"
  /\ powered' \subseteq powered
  /\ phase' \in {"alive", "dead"} \cup (IF powered' = {} THEN {"closed"} ELSE {})
  /\ UNCHANGED <<beat, quiet>>

(* A clock sees the beat.  Power may come back, not to a closed rover.     *)
Seen ==
  /\ beat
  /\ beat' = FALSE /\ quiet' = 0
  /\ powered \subseteq powered' /\ powered' \subseteq Motors
  /\ phase = "closed" => powered' = {}
  /\ UNCHANGED phase

(* A clock without one.                                                    *)
Quiet ==
  /\ ~beat
  /\ quiet' = IF quiet <= Window THEN quiet + 1 ELSE quiet
  /\ powered' = IF quiet' <= Window THEN powered ELSE {}
  /\ UNCHANGED <<phase, beat>>

Next == Start \/ Beat \/ Withdraw \/ Seen \/ Quiet

Spec == Init /\ [][Next]_power
=============================================================================
