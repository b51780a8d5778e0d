--------------------------- MODULE RoverLifecycle ---------------------------
(***************************************************************************)
(* The life of a process that drives the rover: rover_init, isr_init, the  *)
(* timer interrupt, the ways of ending, and the hardware that outlives it: *)
(* the control registers of the motors and the watchdog that cuts their    *)
(* power when the interrupt stops toggling the watchdog register.          *)
(*                                                                         *)
(* Three programs are built on the library: Control_Server/server.c        *)
(* ("server"), test/main.c ("test") and rover/Main.c ("demo").             *)
(*                                                                         *)
(* Tick is one clock of the watchdog; its 500000 are scaled down.          *)
(***************************************************************************)
EXTENDS Naturals

CONSTANTS
  NumMotors,  \* servos set up by rover_init (10)
  Timeout,    \* watchdog clocks without a toggle that are tolerated
  Period,     \* watchdog clocks between two expiries of the timer
  MaxGap,     \* the kernel delivers SIGALRM within this many clocks
  Programs    \* the programs that are started

Motors == 1 .. NumMotors

ASSUME LifecycleAssumption ==
  /\ NumMotors \in Nat \ {0}
  /\ Timeout \in Nat
  /\ Period \in Nat \ {0}
  /\ MaxGap \in Nat
  /\ Period <= MaxGap
  /\ MaxGap <= Timeout + 1
  /\ Programs \subseteq {"server", "test", "demo"}

VARIABLES
  prog,     \* the program that runs or ran last
  pc,       \* where its main thread is
  k,        \* the motor whose turn it is in rover_init and rover_close
  map,      \* the mapping behind motor.mmio: null, open or closed (unmapped)
  en,       \* motor.en_motor
  flag,     \* watchdog_flag is mapped
  armed,    \* the interval timer runs and its handler is installed
  masked,   \* SIGALRM is blocked
  reg,      \* the control registers: bridge enabled, nonzero duty cycle
  signal,   \* the watchdog register
  prev,     \* prev_signal in watchdog.v
  count,    \* count in watchdog.v
  out,      \* watchdog_out: power to every H bridge
  age,      \* clocks since the timer was armed or the interrupt last ran
  quiet,    \* clocks since the watchdog last saw a toggle
  beating   \* the interrupt of this process has run

process  == <<prog, pc, k, map, en, flag, armed, masked>>
watchdog == <<prev, count, out, quiet>>
vars     == <<process, reg, signal, watchdog, age, beating>>

Dead == {"off", "exited", "returned", "failed", "killed", "segv"}

Init ==
  /\ prog \in Programs /\ pc = "off" /\ k = 1
  /\ map = [m \in Motors |-> "null"] /\ en = [m \in Motors |-> FALSE]
  /\ flag = FALSE /\ armed = FALSE /\ masked = FALSE
  /\ reg = [m \in Motors |-> [en |-> FALSE, duty |-> FALSE]]
  /\ signal = FALSE /\ prev = FALSE /\ count = 0
  /\ out \in BOOLEAN            \* the register has no initial value
  /\ age = 0 /\ quiet = 0 /\ beating = FALSE

(* The process ends: its timer and its mappings go, the registers stay.    *)
End(how) ==
  /\ pc' = how
  /\ armed' = FALSE /\ masked' = FALSE /\ beating' = FALSE
-----------------------------------------------------------------------------
(* The watchdog's always block.  A pending interrupt that has waited MaxGap*)
(* clocks comes before the next one.                                       *)
InterruptDue == armed /\ ~masked /\ age >= MaxGap

Older(clocks, bound) == IF clocks < bound THEN clocks + 1 ELSE clocks

Tick_NeverTrips ==
  /\ ~InterruptDue
  /\ prev' = signal
  /\ IF signal # prev THEN count' = 0 /\ out' = TRUE /\ quiet' = 0
     ELSE /\ UNCHANGED <<count, out>>
          /\ quiet' = Older(quiet, Timeout + 1)
  /\ age' = Older(age, MaxGap)
  /\ UNCHANGED <<process, reg, signal, beating>>

Tick_PrevForgotten ==
  /\ ~InterruptDue
  /\ IF signal # prev THEN count' = 0 /\ out' = TRUE /\ quiet' = 0
     ELSE /\ IF count < Timeout THEN count' = count + 1 /\ out' = out
             ELSE count' = 0 /\ out' = FALSE
          /\ quiet' = Older(quiet, Timeout + 1)
  /\ age' = Older(age, MaxGap)
  /\ UNCHANGED <<process, reg, signal, prev, beating>>

Tick_ToggleKeepsCount ==
  /\ ~InterruptDue
  /\ prev' = signal
  /\ IF signal # prev THEN count' = count /\ out' = TRUE /\ quiet' = 0
     ELSE /\ IF count < Timeout THEN count' = count + 1 /\ out' = out
             ELSE count' = 0 /\ out' = FALSE
          /\ quiet' = Older(quiet, Timeout + 1)
  /\ age' = Older(age, MaxGap)
  /\ UNCHANGED <<process, reg, signal, beating>>

Tick_TripKeepsCounting ==
  /\ ~InterruptDue
  /\ prev' = signal
  /\ IF signal # prev THEN count' = 0 /\ out' = TRUE /\ quiet' = 0
     ELSE /\ count' = count + 1 /\ out' = (out /\ count < Timeout)
          /\ quiet' = Older(quiet, Timeout + 1)
  /\ age' = Older(age, MaxGap)
  /\ UNCHANGED <<process, reg, signal, beating>>

Tick ==
  /\ ~InterruptDue
  /\ prev' = signal
  /\ \/ /\ signal # prev
        /\ count' = 0 /\ out' = TRUE /\ quiet' = 0
     \/ /\ signal = prev /\ count < Timeout
        /\ count' = count + 1 /\ out' = out
        /\ quiet' = Older(quiet, Timeout + 1)
     \/ /\ signal = prev /\ count >= Timeout
        /\ count' = 0 /\ out' = FALSE
        /\ quiet' = Older(quiet, Timeout + 1)
  /\ age' = Older(age, MaxGap)
  /\ UNCHANGED <<process, reg, signal, beating>>

(* What the update of an open servo writes; the duty is the PID's business.*)
Written(m) == {[en |-> en[m], duty |-> d] : d \in BOOLEAN}

(* isr and rover_isr.  The watchdog register comes first; through a null   *)
(* watchdog_flag, or at the first unmapped servo, the process dies, and a  *)
(* part of the open servos may have been updated by then.                  *)
Isr ==
  /\ armed /\ ~masked /\ age >= Period
  /\ \/ /\ ~flag
        /\ End("segv")
        /\ UNCHANGED <<prog, k, map, en, flag, reg, signal, age>>
     \/ /\ flag /\ \A m \in Motors : map[m] = "open"
        /\ signal' = ~signal /\ age' = 0 /\ beating' = TRUE
        /\ reg' \in [Motors -> [en : BOOLEAN, duty : BOOLEAN]]
        /\ \A m \in Motors : reg'[m] \in Written(m)
        /\ UNCHANGED process
     \/ /\ flag /\ \E m \in Motors : map[m] # "open"
        /\ signal' = ~signal /\ age' = 0
        /\ reg' \in [Motors -> [en : BOOLEAN, duty : BOOLEAN]]
        /\ \A m \in Motors : \/ reg'[m] = reg[m]
                             \/ map[m] = "open" /\ reg'[m] \in Written(m)
        /\ End("segv")
        /\ UNCHANGED <<prog, k, map, en, flag>>
  /\ UNCHANGED watchdog
-----------------------------------------------------------------------------
(* The main thread.                                                        *)
Boot ==
  /\ pc \in Dead
  /\ prog' \in Programs
  /\ pc' = "init" /\ k' = 1
  /\ map' = [m \in Motors |-> "null"] /\ en' = [m \in Motors |-> FALSE]
  /\ flag' = FALSE
  /\ UNCHANGED <<armed, masked, reg, signal, watchdog, age, beating>>

(* Servo_init of one motor: map its registers, clear its duty cycle.       *)
InitServo ==
  /\ pc = "init"
  /\ map' = [map EXCEPT ![k] = "open"]
  /\ en' = [en EXCEPT ![k] = TRUE]
  /\ reg' = [reg EXCEPT ![k] = [en |-> TRUE, duty |-> FALSE]]
  /\ IF k = NumMotors THEN pc' = "arm" /\ k' = 1 ELSE pc' = pc /\ k' = k + 1
  /\ UNCHANGED <<prog, flag, armed, masked, signal, watchdog, age, beating>>

(* isr_init: the timer is armed first, the watchdog register mapped last.  *)
ArmTimer ==
  /\ pc = "arm"
  /\ pc' = "mapFlag" /\ armed' = TRUE /\ age' = 0
  /\ UNCHANGED <<prog, k, map, en, flag, masked, reg, signal, watchdog, beating>>

MapFlag ==
  /\ pc = "mapFlag"
  /\ pc' = "run" /\ flag' = TRUE
  /\ UNCHANGED <<prog, k, map, en, armed, masked, reg, signal, watchdog, age,
                 beating>>

(* mmio_init gives up when a register cannot be mapped.                    *)
InitFails ==
  /\ pc \in {"init", "mapFlag"}
  /\ End("failed")
  /\ UNCHANGED <<prog, k, map, en, flag, reg, signal, watchdog, age>>

(* SIGINT.  The server's handler, installed before anything else, blocks   *)
(* SIGALRM and closes the rover; the test program's makes main close it.   *)
Interrupt_AlarmNotBlocked ==
  /\ prog \in {"server", "test"} /\ pc = "run"
  /\ pc' = "close" /\ k' = 1
  /\ UNCHANGED <<prog, map, en, flag, armed, masked, reg, signal, watchdog, age,
                 beating>>

Interrupt ==
  /\ \/ /\ prog = "server" /\ pc \in {"init", "arm", "mapFlag", "run"}
        /\ masked' = TRUE
     \/ /\ prog = "test" /\ pc = "run"
        /\ masked' = FALSE
  /\ pc' = "close" /\ k' = 1
  /\ UNCHANGED <<prog, map, en, flag, armed, reg, signal, watchdog, age, beating>>

(* MotorController_close: disable the bridge, then unmap the registers.    *)
Disable_FieldKept ==
  /\ pc = "close" /\ map[k] # "null"
  /\ pc' = "unmap"
  /\ reg' = [reg EXCEPT ![k].en = FALSE]
  /\ UNCHANGED <<prog, k, map, en, flag, armed, masked, signal, watchdog, age,
                 beating>>

Disable ==
  /\ pc = "close"
  /\ \/ /\ map[k] = "null"
        /\ End("segv")
        /\ UNCHANGED <<en, reg>>
     \/ /\ map[k] # "null"
        /\ pc' = "unmap"
        /\ en' = [en EXCEPT ![k] = FALSE]
        /\ reg' = [reg EXCEPT ![k].en = FALSE]
        /\ UNCHANGED <<armed, masked, beating>>
  /\ UNCHANGED <<prog, k, map, flag, signal, watchdog, age>>

Unmap ==
  /\ pc = "unmap"
  /\ map' = [map EXCEPT ![k] = "closed"]
  /\ IF k = NumMotors THEN End("exited") /\ k' = 1
     ELSE pc' = "close" /\ k' = k + 1 /\ UNCHANGED <<armed, masked, beating>>
  /\ UNCHANGED <<prog, en, flag, reg, signal, watchdog, age>>

(* rover/Main.c returns from main with the rover open.                     *)
ReturnFromMain ==
  /\ pc = "run" /\ prog = "demo"
  /\ End("returned")
  /\ UNCHANGED <<prog, k, map, en, flag, reg, signal, watchdog, age>>

(* A crash elsewhere, a kill, an exit(-1) of the server's socket layer.    *)
Die ==
  /\ pc \notin Dead
  /\ End("killed")
  /\ UNCHANGED <<prog, k, map, en, flag, reg, signal, watchdog, age>>

Main == Boot \/ InitServo \/ ArmTimer \/ MapFlag \/ Disable \/ Unmap

Next == Tick \/ Isr \/ Main \/ Interrupt \/ ReturnFromMain \/ InitFails \/ Die

(* The clock never stops, and the kernel runs the thread and delivers the  *)
(* timer's signal; nobody has to start or end a program.                   *)
Fairness ==
  /\ WF_vars(Tick)
  /\ WF_vars(Isr)
  /\ WF_vars(InitServo \/ ArmTimer \/ MapFlag \/ Disable \/ Unmap)

Spec == Init /\ [][Next]_vars

FairSpec == Spec /\ Fairness
-----------------------------------------------------------------------------
TypeOK ==
  /\ prog \in Programs
  /\ pc \in Dead \cup {"init", "arm", "mapFlag", "run", "close", "unmap"}
  /\ k \in Motors
  /\ map \in [Motors -> {"null", "open", "closed"}]
  /\ en \in [Motors -> BOOLEAN]
  /\ reg \in [Motors -> [en : BOOLEAN, duty : BOOLEAN]]
  /\ flag \in BOOLEAN /\ armed \in BOOLEAN /\ masked \in BOOLEAN
  /\ signal \in BOOLEAN /\ prev \in BOOLEAN /\ out \in BOOLEAN
  /\ beating \in BOOLEAN
  /\ count \in 0 .. Timeout
  /\ age \in 0 .. MaxGap
  /\ quiet \in 0 .. Timeout + 1

(* The H bridge turns a motor: enabled by the register and the watchdog.   *)
Powered(m) == out /\ reg[m].en /\ reg[m].duty

(* A motor is powered only within Timeout clocks of a toggle the watchdog  *)
(* saw, whatever the process does, crashes and restarts included.          *)
PoweredOnlyWhileBeating == \A m \in Motors : Powered(m) => quiet <= Timeout

(* While the interrupt of a living process comes in time, the watchdog     *)
(* never cuts the power.                                                   *)
NoSpuriousTrip == [][out /\ ~out' => ~beating \/ masked]_vars

(* A process that ended by rover_close has left every bridge disabled: no  *)
(* interrupt wrote its registers once more after it had disabled them.     *)
CleanExit == pc = "exited" => \A m \in Motors : ~reg[m].en

(* A step that kills the process by an access to a register it has not, or *)
(* no longer, mapped, although rover_init and isr_init were through.       *)
UnmappedAfterSetup ==
  pc # "segv" /\ pc' = "segv" /\ flag /\ \A m \in Motors : map[m] # "null"

(* rover_close of the server never loses the race with the interrupt that  *)
(* still fires: the handler that calls it has blocked SIGALRM.             *)
ServerClosesSafely == [][prog = "server" => ~UnmappedAfterSetup]_vars

(* rover_close succeeds in every program that calls it.                    *)
CloseSucceeds == [][~UnmappedAfterSetup]_vars

(* However a process ended, the motors lose their power unless somebody    *)
(* starts another.                                                         *)
DeadMeansOff ==
  pc \in Dead ~> (pc \notin Dead \/ \A m \in Motors : ~Powered(m))

(* SIGINT to the server ends in a moment at which no motor is powered.     *)
InterruptStops == pc = "close" ~> \A m \in Motors : ~Powered(m)

(* The abstract view: MotorPower sees neither the program nor its mappings *)
(* nor the registers and the watchdog, only which motors turn.             *)
Phase == IF pc \notin Dead THEN "alive"
         ELSE IF pc = "exited" THEN "closed" ELSE "dead"

Power == INSTANCE MotorPower WITH
           Window  <- Timeout,
           phase   <- Phase,
           beat    <- signal # prev,
           powered <- {m \in Motors : Powered(m)}

(* Registers, interrupt, watchdog and the three programs together grant    *)
(* and withdraw power as MotorPower says and in no other way.              *)
ImplementsMotorPower == Power!Spec
=============================================================================
