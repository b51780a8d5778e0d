------------------------ MODULE RoverLifecycleProofs ------------------------
(***************************************************************************)
(* Proofs about RoverLifecycle for any number of motors, any timeout of    *)
(* the watchdog and any timer: the power cut comes when it must and only   *)
(* then, and rover_close of the server is not disturbed by the interrupt.  *)
(***************************************************************************)
EXTENDS RoverLifecycle, TLAPS

(* The main thread's stage fixes what the timer and the watchdog's mapping *)
(* can be: they live from isr_init to the end of the process.              *)
StageOK ==
  /\ armed => pc \in {"mapFlag", "run", "close", "unmap"}
  /\ beating => armed /\ pc \in {"run", "close", "unmap"}
  /\ flag => pc \notin {"init", "arm", "mapFlag"}
  /\ masked => pc \in {"close", "unmap"}

(* While power is on, the watchdog has counted the quiet clocks exactly.   *)
CountOK == out => count = quiet

(* A toggle the watchdog has not seen is younger than a clock, and since   *)
(* one it has seen fewer clocks passed than since the interrupt that made  *)
(* it.                                                                     *)
BeatOK ==
  /\ armed /\ signal # prev => age = 0
  /\ beating /\ ~masked /\ signal = prev => quiet + 1 <= age

(* rover_close leaves a trail of disabled motors.                          *)
CloseOK ==
  /\ pc \in {"close", "unmap"} =>
       \A m \in Motors : m < k => ~en[m] /\ ~reg[m].en
  /\ pc = "unmap" => ~en[k] /\ ~reg[k].en
  /\ CleanExit

(* A register is unmapped only by rover_close, which the server runs with  *)
(* SIGALRM blocked.                                                        *)
MapOK ==
  /\ (\E m \in Motors : map[m] = "closed") => pc \in {"close", "unmap"} \cup Dead
  /\ prog = "server" /\ pc \in {"close", "unmap"} => masked

IInv == TypeOK /\ StageOK /\ CountOK /\ BeatOK /\ CloseOK /\ MapOK
-----------------------------------------------------------------------------
(* The initial states.                                                     *)
LEMMA InitOK == Init => IInv
<1> SUFFICES ASSUME Init PROVE IInv
  OBVIOUS
<1> USE LifecycleAssumption DEF Init, Dead
<1>1. 1 \in Motors
  BY DEF Motors
<1>2. TypeOK
  <2>1. prog \in Programs /\ pc \in Dead /\ k \in Motors
    BY <1>1
  <2>2. map \in [Motors -> {"null", "open", "closed"}] /\ en \in [Motors -> BOOLEAN]
    OBVIOUS
  <2>3. reg \in [Motors -> [en : BOOLEAN, duty : BOOLEAN]]
    OBVIOUS
  <2>4. /\ flag \in BOOLEAN /\ armed \in BOOLEAN /\ masked \in BOOLEAN
        /\ signal \in BOOLEAN /\ prev \in BOOLEAN /\ out \in BOOLEAN
        /\ beating \in BOOLEAN
    OBVIOUS
  <2>5. count \in 0 .. Timeout /\ age \in 0 .. MaxGap /\ quiet \in 0 .. Timeout + 1
    OBVIOUS
  <2> QED
    BY <2>1, <2>2, <2>3, <2>4, <2>5 DEF TypeOK
<1>3. StageOK /\ CountOK /\ BeatOK /\ CloseOK /\ MapOK
  BY <1>1 DEF StageOK, CountOK, BeatOK, CloseOK, CleanExit, MapOK
<1> QED
  BY <1>2, <1>3 DEF IInv

(* What a clock of the watchdog does to its counters.                      *)
TickEffect ==
  /\ count \in Nat /\ quiet \in 0 .. Timeout + 1 /\ age \in 0 .. MaxGap
  /\ prev' = signal
  /\ age' = Older(age, MaxGap)
  /\ UNCHANGED <<process, reg, signal, beating>>
  /\ \/ signal # prev /\ count' = 0 /\ out' = TRUE /\ quiet' = 0
     \/ /\ signal = prev /\ count < Timeout
        /\ count' = count + 1 /\ out' = out
        /\ quiet' = Older(quiet, Timeout + 1)
     \/ /\ signal = prev /\ count = Timeout
        /\ count' = 0 /\ out' = FALSE
        /\ quiet' = Older(quiet, Timeout + 1)

LEMMA TickCases == ASSUME TypeOK, Tick PROVE TickEffect
<1>1. /\ count \in Nat /\ quiet \in 0 .. Timeout + 1 /\ age \in 0 .. MaxGap
      /\ Timeout \in Nat /\ count <= Timeout
  BY LifecycleAssumption DEF TypeOK
<1>2. count >= Timeout => count = Timeout
  BY <1>1
<1> QED
  BY <1>1, <1>2 DEF Tick, TickEffect

(* What the interrupt does to the signal and its age.                      *)
IsrEffect ==
  /\ age >= Period /\ armed /\ ~masked
  /\ UNCHANGED <<prog, k, map, en, flag, watchdog>>
  /\ \/ pc' = "segv" /\ armed' = FALSE /\ masked' = FALSE /\ beating' = FALSE
     \/ UNCHANGED <<pc, armed, masked>> /\ beating' = TRUE /\ flag
  /\ \/ signal' = signal /\ age' = age /\ ~armed'
     \/ signal' = ~signal /\ age' = 0
  /\ signal' = signal => ~armed' /\ ~beating'

LEMMA IsrCases == ASSUME TypeOK, Isr PROVE IsrEffect
<1>1. signal \in BOOLEAN
  BY DEF TypeOK
<1>2. signal' = signal => ~armed' /\ ~beating'
  <2>1. signal # ~signal
    BY <1>1
  <2>2. signal' = ~signal \/ End("segv")
    BY DEF Isr
  <2> QED
    BY <2>1, <2>2 DEF End
<1> QED
  BY <1>2 DEF Isr, End, IsrEffect, process

LEMMA OlderStays ==
  ASSUME NEW bound \in Nat, NEW clocks \in 0 .. bound
  PROVE  Older(clocks, bound) \in 0 .. bound
BY DEF Older

(* Every action preserves the types.                                       *)
LEMMA TypePreserved == TypeOK /\ [Next]_vars => TypeOK'
<1> SUFFICES ASSUME TypeOK, [Next]_vars PROVE TypeOK'
  OBVIOUS
<1>t. Tick => TickEffect
  BY TickCases
<1>i. Isr => IsrEffect
  BY IsrCases
<1> USE LifecycleAssumption DEF TypeOK, Dead
<1>0. /\ 1 \in Motors
      /\ \A i \in Motors : i # NumMotors => i + 1 \in Motors
  BY DEF Motors
<1>1. CASE Tick
  <2>1. /\ age' \in 0 .. MaxGap
        /\ Older(quiet, Timeout + 1) \in 0 .. Timeout + 1
    BY <1>1, <1>t, OlderStays DEF TickEffect
  <2>2. count' \in 0 .. Timeout /\ quiet' \in 0 .. Timeout + 1
    BY <1>1, <1>t, <2>1 DEF TickEffect
  <2>3. prev' \in BOOLEAN /\ out' \in BOOLEAN
    BY <1>1, <1>t DEF TickEffect
  <2>4. UNCHANGED <<process, reg, signal, beating>>
    BY <1>1, <1>t DEF TickEffect
  <2> QED
    BY <2>1, <2>2, <2>3, <2>4 DEF process
<1>2. CASE Isr
  <2>1. reg' \in [Motors -> [en : BOOLEAN, duty : BOOLEAN]]
    BY <1>2 DEF Isr
  <2>2. age' \in 0 .. MaxGap
    BY <1>2, <1>i DEF IsrEffect
  <2>3. /\ signal' \in BOOLEAN /\ beating' \in BOOLEAN
        /\ armed' \in BOOLEAN /\ masked' \in BOOLEAN
    BY <1>2, <1>i DEF IsrEffect
  <2>4. /\ UNCHANGED <<prog, k, map, en, flag>> /\ UNCHANGED watchdog
        /\ pc' \in {pc, "segv"}
    BY <1>2, <1>i DEF IsrEffect
  <2> QED
    BY <2>1, <2>2, <2>3, <2>4 DEF watchdog
<1>3. CASE Boot
  BY <1>0, <1>3 DEF Boot, watchdog
<1>4. CASE InitServo
  BY <1>0, <1>4 DEF InitServo, watchdog
<1>5. CASE ArmTimer \/ MapFlag \/ Interrupt
  <2>1. CASE ArmTimer
    BY <2>1 DEF ArmTimer, watchdog
  <2>2. CASE MapFlag
    BY <2>2 DEF MapFlag, watchdog
  <2>3. CASE Interrupt
    <3>1. masked' \in BOOLEAN
      BY <2>3 DEF Interrupt
    <3> QED
      BY <1>0, <2>3, <3>1 DEF Interrupt, watchdog
  <2> QED
    BY <1>5, <2>1, <2>2, <2>3
<1>6. CASE InitFails \/ ReturnFromMain \/ Die
  BY <1>6 DEF InitFails, ReturnFromMain, Die, End, watchdog
<1>7. CASE Disable
  <2>1. en' \in [Motors -> BOOLEAN]
    BY <1>7 DEF Disable
  <2>4. reg' \in [Motors -> [en : BOOLEAN, duty : BOOLEAN]]
    <3>1. [reg EXCEPT ![k].en = FALSE]
            \in [Motors -> [en : BOOLEAN, duty : BOOLEAN]]
      OBVIOUS
    <3> QED
      BY <1>7, <3>1 DEF Disable
  <2>2. armed' \in BOOLEAN /\ masked' \in BOOLEAN /\ beating' \in BOOLEAN
    BY <1>7 DEF Disable, End
  <2>3. pc' \in {"segv", "unmap"}
    BY <1>7 DEF Disable, End
  <2> QED
    BY <1>7, <2>1, <2>2, <2>3, <2>4 DEF Disable, watchdog
<1>8. CASE Unmap
  BY <1>0, <1>8 DEF Unmap, End, watchdog
<1>9. CASE UNCHANGED vars
  BY <1>9 DEF vars, process, watchdog
<1> QED
  BY <1>1, <1>2, <1>3, <1>4, <1>5, <1>6, <1>7, <1>8, <1>9 DEF Next, Main

(* The stages of a process.                                                *)
LEMMA StagePreserved == TypeOK /\ StageOK /\ [Next]_vars => StageOK'
<1> SUFFICES ASSUME TypeOK, StageOK, [Next]_vars PROVE StageOK'
  OBVIOUS
<1>i. Isr => IsrEffect
  BY IsrCases
<1> USE DEF TypeOK, StageOK, Dead
<1>1. CASE Tick
  BY <1>1 DEF Tick, process
<1>2. CASE Isr
  <2>1. UNCHANGED flag
    BY <1>2, <1>i DEF IsrEffect
  <2>2. CASE pc' = "segv" /\ armed' = FALSE /\ masked' = FALSE /\ beating' = FALSE
    BY <2>1, <2>2
  <2>3. CASE UNCHANGED <<pc, armed, masked>> /\ beating' = TRUE /\ flag /\ armed
    BY <2>1, <2>3
  <2> QED
    BY <1>2, <1>i, <2>2, <2>3 DEF IsrEffect
<1>3. CASE Boot \/ InitServo \/ ArmTimer \/ MapFlag
  BY <1>3 DEF Boot, InitServo, ArmTimer, MapFlag
<1>6. CASE Interrupt
  BY <1>6 DEF Interrupt
<1>4. CASE InitFails \/ ReturnFromMain \/ Die \/ Disable \/ Unmap
  BY <1>4 DEF InitFails, ReturnFromMain, Die, Disable, Unmap, End
<1>5. CASE UNCHANGED vars
  BY <1>5 DEF vars, process
<1> QED
  BY <1>1, <1>2, <1>3, <1>4, <1>5, <1>6 DEF Next, Main

(* Only the watchdog's clock changes its counters.                         *)
LEMMA CountPreserved == TypeOK /\ CountOK /\ [Next]_vars => CountOK'
<1> SUFFICES ASSUME TypeOK, CountOK, [Next]_vars PROVE CountOK'
  OBVIOUS
<1>1. CASE Tick
  <2>1. TickEffect /\ Timeout \in Nat
    BY <1>1, TickCases, LifecycleAssumption
  <2>2. CASE count < Timeout /\ out' = out /\ signal = prev
    BY <2>1, <2>2 DEF TickEffect, CountOK, Older
  <2>3. CASE ~out'
    BY <2>3 DEF CountOK
  <2>4. CASE signal # prev
    BY <2>1, <2>4 DEF TickEffect, CountOK
  <2> QED
    BY <2>1, <2>2, <2>3, <2>4 DEF TickEffect
<1>2. CASE Next /\ ~Tick
  <2>1. UNCHANGED watchdog
    BY <1>2 DEF Next, Main, Isr, Boot, InitServo, ArmTimer, MapFlag, Interrupt,
                Disable, Unmap, ReturnFromMain, InitFails, Die
  <2> QED
    BY <2>1 DEF watchdog, CountOK
<1>3. CASE UNCHANGED vars
  BY <1>3 DEF vars, watchdog, CountOK
<1> QED
  BY <1>1, <1>2, <1>3

(* The interrupt comes a clock or more after the one before.               *)
LEMMA BeatPreserved ==
  TypeOK /\ StageOK /\ BeatOK /\ [Next]_vars => BeatOK'
<1> SUFFICES ASSUME TypeOK, StageOK, BeatOK, [Next]_vars PROVE BeatOK'
  OBVIOUS
<1>1. CASE Tick
  <2>1. TickEffect /\ Timeout \in Nat /\ MaxGap \in Nat
    BY <1>1, TickCases, LifecycleAssumption
  <2> SUFFICES ASSUME beating, ~masked PROVE quiet' + 1 <= age'
    BY <2>1 DEF TickEffect, BeatOK, process
  <2>2. age < MaxGap /\ age' = age + 1
    BY <1>1, <2>1 DEF Tick, InterruptDue, StageOK, TickEffect, Older
  <2>3. CASE signal # prev
    BY <2>1, <2>2, <2>3 DEF TickEffect
  <2>4. CASE signal = prev
    <3>1. quiet' <= quiet + 1 /\ quiet' \in Nat
      BY <2>1, <2>4 DEF TickEffect, Older
    <3>2. quiet + 1 <= age
      BY <2>4 DEF BeatOK
    <3>3. quiet \in Nat /\ age \in Nat
      BY <2>1 DEF TickEffect
    <3>4. \A q, r, a \in Nat : q <= r + 1 /\ r + 1 <= a => q + 1 <= a + 1
      OBVIOUS
    <3>5. quiet' + 1 <= age + 1
      BY <3>1, <3>2, <3>3, <3>4
    <3> QED
      BY <2>2, <3>5
  <2> QED
    BY <2>3, <2>4
<1>2. CASE Isr
  <2>0. signal \in BOOLEAN /\ prev \in BOOLEAN
    BY DEF TypeOK
  <2>1. IsrEffect /\ age \in Nat /\ Period \in Nat \ {0}
    BY <1>2, IsrCases, LifecycleAssumption DEF TypeOK
  <2>2. signal = prev
    BY <2>1 DEF IsrEffect, BeatOK
  <2>3. signal' = signal => ~armed' /\ ~beating'
    BY <2>0, <2>1 DEF IsrEffect
  <2>4. signal' # signal => signal' # prev' /\ age' = 0
    BY <2>1, <2>2 DEF IsrEffect, watchdog
  <2> QED
    BY <2>2, <2>3, <2>4, <2>1 DEF BeatOK, IsrEffect, watchdog
<1> USE LifecycleAssumption DEF TypeOK, StageOK, BeatOK, Dead
<1>3. CASE Boot \/ InitServo \/ ArmTimer \/ MapFlag \/ Interrupt
  <2>1. CASE Boot
    BY <2>1 DEF Boot, watchdog
  <2>2. CASE InitServo
    BY <2>2 DEF InitServo, watchdog
  <2>3. CASE ArmTimer
    BY <2>3 DEF ArmTimer, watchdog
  <2>4. CASE MapFlag
    BY <2>4 DEF MapFlag, watchdog
  <2>5. CASE Interrupt
    <3>1. UNCHANGED <<armed, signal, age, beating, prev, quiet>>
      BY <2>5 DEF Interrupt, watchdog
    <3>2. ~masked' => ~masked
      BY <2>5 DEF Interrupt
    <3> QED
      BY <3>1, <3>2
  <2> QED
    BY <1>3, <2>1, <2>2, <2>3, <2>4, <2>5
<1>4. CASE InitFails \/ ReturnFromMain \/ Die \/ Disable \/ Unmap
  BY <1>4 DEF InitFails, ReturnFromMain, Die, Disable, Unmap, End, watchdog
<1>5. CASE UNCHANGED vars
  BY <1>5 DEF vars, process, watchdog
<1> QED
  BY <1>1, <1>2, <1>3, <1>4, <1>5 DEF Next, Main

(* rover_close disables the motors one after the other.                    *)
LEMMA ClosePreserved ==
  TypeOK /\ StageOK /\ CloseOK /\ [Next]_vars => CloseOK'
<1> SUFFICES ASSUME TypeOK, StageOK, CloseOK, [Next]_vars PROVE CloseOK'
  OBVIOUS
<1> USE LifecycleAssumption DEF TypeOK, StageOK, CloseOK, CleanExit, Dead
<1>0. \A i \in Motors : i \in Nat /\ 1 <= i /\ i <= NumMotors
  BY DEF Motors
<1>1. CASE Tick
  BY <1>1 DEF Tick, process
<1>2. CASE Isr
  <2>1. ASSUME NEW m \in Motors, ~en[m], ~reg[m].en
        PROVE  ~reg'[m].en
    <3>1. reg' = reg \/ reg'[m] = reg[m] \/ reg'[m] \in Written(m)
      BY <1>2 DEF Isr
    <3>2. \A w \in Written(m) : w.en = en[m]
      BY DEF Written
    <3> QED
      BY <2>1, <3>1, <3>2
  <2>2. UNCHANGED <<k, en>> /\ pc' \in {pc, "segv"} /\ k \in Motors /\ pc # "exited"
    BY <1>2 DEF Isr, End, process
  <2> QED
    BY <2>1, <2>2
<1>3. CASE Boot \/ InitServo \/ ArmTimer \/ MapFlag
  BY <1>3 DEF Boot, InitServo, ArmTimer, MapFlag
<1>4. CASE Interrupt
  BY <1>0, <1>4 DEF Interrupt
<1>5. CASE InitFails \/ ReturnFromMain \/ Die
  BY <1>5 DEF InitFails, ReturnFromMain, Die, End
<1>6. CASE Disable
  BY <1>0, <1>6 DEF Disable, End
<1>7. CASE Unmap
  BY <1>0, <1>7 DEF Unmap, End
<1>8. CASE UNCHANGED vars
  BY <1>8 DEF vars, process
<1> QED
  BY <1>1, <1>2, <1>3, <1>4, <1>5, <1>6, <1>7, <1>8 DEF Next, Main

(* Registers are unmapped by rover_close only.                             *)
LEMMA MapPreserved == TypeOK /\ MapOK /\ [Next]_vars => MapOK'
<1> SUFFICES ASSUME TypeOK, MapOK, [Next]_vars PROVE MapOK'
  OBVIOUS
<1> USE DEF TypeOK, MapOK, Dead
<1>1. CASE Tick
  BY <1>1 DEF Tick, process
<1>2. CASE Isr
  BY <1>2 DEF Isr, End, process
<1>3. CASE Boot \/ InitServo \/ ArmTimer \/ MapFlag \/ Interrupt
  BY <1>3 DEF Boot, InitServo, ArmTimer, MapFlag, Interrupt
<1>4. CASE InitFails \/ ReturnFromMain \/ Die \/ Disable \/ Unmap
  BY <1>4 DEF InitFails, ReturnFromMain, Die, Disable, Unmap, End
<1>5. CASE UNCHANGED vars
  BY <1>5 DEF vars, process
<1> QED
  BY <1>1, <1>2, <1>3, <1>4, <1>5 DEF Next, Main

(* The inductive invariant.                                                *)
THEOREM InvariantHolds == Spec => []IInv
<1>1. IInv /\ [Next]_vars => IInv'
  BY TypePreserved, StagePreserved, CountPreserved, BeatPreserved,
     ClosePreserved, MapPreserved DEF IInv
<1> QED
  BY InitOK, <1>1, PTL DEF Spec
-----------------------------------------------------------------------------
(* Type correctness.                                                       *)
THEOREM TypeCorrect == Spec => []TypeOK
<1>1. IInv => TypeOK
  BY DEF IInv
<1> QED
  BY InvariantHolds, <1>1, PTL

(* Whatever happens to the process, a motor has power for Timeout clocks   *)
(* after the last toggle at most.                                          *)
THEOREM WatchdogCutsPower == Spec => []PoweredOnlyWhileBeating
<1>1. IInv => PoweredOnlyWhileBeating
  BY LifecycleAssumption
     DEF IInv, TypeOK, CountOK, PoweredOnlyWhileBeating, Powered
<1> QED
  BY InvariantHolds, <1>1, PTL

(* An interrupt that is never later than the timeout allows keeps the      *)
(* power on.                                                               *)
THEOREM WatchdogIsPatient == Spec => NoSpuriousTrip
<1>1. IInv /\ [Next]_vars => [out /\ ~out' => ~beating \/ masked]_vars
  <2> SUFFICES ASSUME IInv, [Next]_vars, out, ~out', beating, ~masked
               PROVE FALSE
    OBVIOUS
  <2>1. CASE Tick
    <3>1. TickEffect /\ Timeout \in Nat
      BY <2>1, TickCases, LifecycleAssumption DEF IInv
    <3>2. signal = prev /\ count = Timeout /\ quiet = count
      BY <3>1 DEF TickEffect, IInv, CountOK
    <3>3. age >= Timeout + 1
      BY <3>1, <3>2 DEF IInv, BeatOK, TickEffect
    <3>4. armed /\ age < MaxGap /\ MaxGap <= Timeout + 1
      BY <2>1, <3>1, LifecycleAssumption
         DEF Tick, InterruptDue, TickEffect, IInv, StageOK
    <3> QED
      BY <3>1, <3>3, <3>4, LifecycleAssumption DEF TickEffect
  <2>2. CASE Next /\ ~Tick
    BY <2>2 DEF Next, Main, Isr, Boot, InitServo, ArmTimer, MapFlag, Interrupt,
                Disable, Unmap, ReturnFromMain, InitFails, Die, watchdog
  <2>3. CASE UNCHANGED vars
    BY <2>3 DEF vars, watchdog
  <2> QED
    BY <2>1, <2>2, <2>3
<1> QED
  BY InvariantHolds, <1>1, PTL DEF Spec, NoSpuriousTrip

(* A process that went through rover_close left every bridge disabled.     *)
THEOREM ClosedMeansDisabled == Spec => []CleanExit
<1>1. IInv => CleanExit
  BY DEF IInv, CloseOK
<1> QED
  BY InvariantHolds, <1>1, PTL

(* The server closes the rover without touching an unmapped register.      *)
THEOREM ServerCloses == Spec => ServerClosesSafely
<1>1. IInv /\ [Next]_vars => [prog = "server" => ~UnmappedAfterSetup]_vars
  <2> SUFFICES ASSUME IInv, [Next]_vars, prog = "server", UnmappedAfterSetup
               PROVE FALSE
    OBVIOUS
  <2> USE DEF UnmappedAfterSetup
  <2>1. CASE Isr
    BY <2>1 DEF Isr, IInv, TypeOK, StageOK, MapOK, Dead, process
  <2>2. CASE Disable
    BY <2>2 DEF Disable, IInv, TypeOK
  <2>3. CASE Tick \/ (Next /\ ~Isr /\ ~Disable /\ ~Tick)
    BY <2>3 DEF Tick, Next, Main, Boot, InitServo, ArmTimer, MapFlag, Interrupt,
                Unmap, ReturnFromMain, InitFails, Die, End, process
  <2>4. CASE UNCHANGED vars
    BY <2>4 DEF vars, process
  <2> QED
    BY <2>1, <2>2, <2>3, <2>4 DEF Next
<1> QED
  BY InvariantHolds, <1>1, PTL DEF Spec, ServerClosesSafely
-----------------------------------------------------------------------------
(* The refinement: what every step looks like to MotorPower.               *)
LEMMA TickSeenOrQuiet ==
  ASSUME IInv, Tick PROVE Power!Seen \/ Power!Quiet
<1>1. TickEffect /\ TypeOK /\ CountOK /\ CleanExit /\ Timeout \in Nat
  BY TickCases, LifecycleAssumption DEF IInv, CloseOK
<1>2. UNCHANGED <<pc, reg>> /\ prev' = signal /\ signal' = signal
  BY <1>1 DEF TickEffect, process
<1>3. Phase' = Phase
  BY <1>2 DEF Phase, Dead
<1>4. CASE signal # prev
  <2>1. out' /\ quiet' = 0
    BY <1>1, <1>4 DEF TickEffect
  <2>2. \A m \in Motors : Powered(m) => Powered(m)'
    BY <1>2, <2>1 DEF Powered
  <2>3. Phase = "closed" => \A m \in Motors : ~Powered(m)'
    BY <1>1, <1>2 DEF Phase, CleanExit, Powered
  <2>4. Power!Seen
    BY <1>2, <1>3, <1>4, <2>1, <2>2, <2>3 DEF Power!Seen
  <2> QED
    BY <2>4
<1>5. CASE signal = prev
  <2>1. quiet \in 0 .. Timeout + 1 /\ quiet' = Older(quiet, Timeout + 1)
    BY <1>1, <1>5 DEF TickEffect
  <2>2. quiet' = IF quiet <= Timeout THEN quiet + 1 ELSE quiet
    BY <1>1, <2>1 DEF Older
  <2>3. quiet' <= Timeout => (out' <=> out)
    <3>1. CASE out /\ count < Timeout
      <4>1. count # Timeout
        BY <1>1, <3>1 DEF TickEffect
      <4>2. out' = out
        BY <1>1, <1>5, <4>1 DEF TickEffect
      <4> QED
        BY <4>2
    <3>2. CASE out /\ ~(count < Timeout)
      <4>1. quiet = Timeout
        BY <1>1, <1>5, <3>2 DEF TickEffect, CountOK
      <4>2. quiet' = Timeout + 1
        BY <1>1, <2>2, <4>1
      <4> QED
        BY <1>1, <4>2
    <3>3. CASE ~out
      BY <1>1, <1>5, <3>3 DEF TickEffect
    <3> QED
      BY <3>1, <3>2, <3>3
  <2>4. ~(quiet' <= Timeout) => ~out'
    BY <1>1, <1>5, <2>2 DEF TickEffect, CountOK
  <2>5. quiet' <= Timeout => \A m \in Motors : Powered(m)' <=> Powered(m)
    BY <1>2, <2>3 DEF Powered
  <2>6. ~(quiet' <= Timeout) => \A m \in Motors : ~Powered(m)'
    BY <2>4 DEF Powered
  <2>7. Power!Quiet
    BY <1>2, <1>3, <1>5, <2>2, <2>5, <2>6 DEF Power!Quiet
  <2> QED
    BY <2>7
<1> QED
  BY <1>4, <1>5

LEMMA IsrBeatsOrDies ==
  ASSUME IInv, Isr PROVE Power!Beat \/ Power!Withdraw
<1>1. /\ IsrEffect /\ TypeOK /\ StageOK /\ CountOK /\ signal = prev
      /\ Timeout \in Nat
  <2>1. IsrEffect /\ age \in Nat /\ Period \in Nat \ {0} /\ Timeout \in Nat
    BY IsrCases, LifecycleAssumption DEF IInv, TypeOK
  <2>2. age # 0 /\ armed
    BY <2>1 DEF IsrEffect
  <2>3. TypeOK /\ StageOK /\ CountOK /\ BeatOK
    BY DEF IInv
  <2>4. signal = prev
    BY <2>2, <2>3 DEF BeatOK
  <2> QED
    BY <2>1, <2>3, <2>4
<1>2. Phase = "alive" /\ Phase' \in {"alive", "dead"}
  BY <1>1 DEF IsrEffect, StageOK, Phase, Dead
<1>3. UNCHANGED <<prev, quiet, out>>
  BY <1>1 DEF IsrEffect, watchdog
<1>4. CASE signal' = signal
  <2>1. reg' = reg
    BY <1>1, <1>4 DEF Isr, TypeOK
  <2>2. \A m \in Motors : Powered(m)' <=> Powered(m)
    BY <1>3, <2>1 DEF Powered
  <2>3. Power!Withdraw
    BY <1>1, <1>2, <1>3, <1>4, <2>2 DEF Power!Withdraw
  <2> QED
    BY <2>3
<1>5. CASE signal' # signal
  <2>1. quiet > Timeout => \A m \in Motors : ~Powered(m)'
    BY <1>1, <1>3 DEF CountOK, TypeOK, Powered
  <2>2. Power!Beat
    BY <1>1, <1>2, <1>3, <1>5, <2>1 DEF Power!Beat
  <2> QED
    BY <2>2
<1> QED
  BY <1>4, <1>5

(* The main thread gives no motor power.                                   *)
LEMMA MainWithdraws ==
  ASSUME IInv, Next, ~Tick, ~Isr, ~Boot PROVE Power!Withdraw
<1>1. UNCHANGED <<signal, prev, out, quiet>>
  BY DEF Next, Main, InitServo, ArmTimer, MapFlag, Interrupt, Disable, Unmap,
         ReturnFromMain, InitFails, Die, watchdog
<1>2. Phase = "alive"
  BY DEF Next, Main, InitServo, ArmTimer, MapFlag, Interrupt, Disable, Unmap,
         ReturnFromMain, InitFails, Die, Phase, Dead
<1>3. ASSUME NEW m \in Motors, Powered(m)' PROVE Powered(m)
  <2>1. reg \in [Motors -> [en : BOOLEAN, duty : BOOLEAN]] /\ k \in Motors
    BY DEF IInv, TypeOK
  <2>2. \/ reg' = reg
        \/ reg' = [reg EXCEPT ![k] = [en |-> TRUE, duty |-> FALSE]]
        \/ reg' = [reg EXCEPT ![k].en = FALSE]
    BY DEF Next, Main, InitServo, ArmTimer, MapFlag, Interrupt, Disable, Unmap,
           ReturnFromMain, InitFails, Die
  <2>3. reg'[m].en /\ reg'[m].duty => reg[m].en /\ reg[m].duty
    BY <2>1, <2>2
  <2> QED
    BY <1>1, <1>3, <2>3 DEF Powered
<1>4. CASE pc' # "exited"
  <2>1. Phase' \in {"alive", "dead"}
    BY <1>4 DEF Phase
  <2> QED
    BY <1>1, <1>2, <1>3, <2>1 DEF Power!Withdraw
<1>5. CASE pc' = "exited"
  <2>1. CleanExit' /\ Phase' = "closed"
    <3>1. CloseOK'
      BY ClosePreserved DEF IInv
    <3> QED
      BY <1>5, <3>1 DEF CloseOK, Phase, Dead
  <2>2. \A m \in Motors : ~Powered(m)'
    BY <1>5, <2>1 DEF CleanExit, Powered
  <2> QED
    BY <1>1, <1>2, <2>1, <2>2 DEF Power!Withdraw
<1> QED
  BY <1>4, <1>5

LEMMA StepsAreSteps == IInv /\ [Next]_vars => [Power!Next]_(Power!power)
<1> SUFFICES ASSUME IInv, [Next]_vars PROVE [Power!Next]_(Power!power)
  OBVIOUS
<1>1. CASE Tick
  BY <1>1, TickSeenOrQuiet DEF Power!Next
<1>2. CASE Isr
  BY <1>2, IsrBeatsOrDies DEF Power!Next
<1>3. CASE Boot
  <2>1. Phase # "alive" /\ Phase' = "alive"
    BY <1>3 DEF Boot, Phase, Dead
  <2>2. UNCHANGED <<signal, prev, quiet, out, reg>>
    BY <1>3 DEF Boot, watchdog
  <2>3. \A m \in Motors : Powered(m)' <=> Powered(m)
    BY <2>2 DEF Powered
  <2>4. Power!Start
    BY <2>1, <2>2, <2>3 DEF Power!Start
  <2> QED
    BY <2>4 DEF Power!Next
<1>4. CASE Next /\ ~Tick /\ ~Isr /\ ~Boot
  BY <1>4, MainWithdraws DEF Power!Next
<1>5. CASE UNCHANGED vars
  <2>1. UNCHANGED <<pc, signal, prev, quiet, out, reg>>
    BY <1>5 DEF vars, process, watchdog
  <2>2. Phase' = Phase
    BY <2>1 DEF Phase, Dead
  <2>3. \A m \in Motors : Powered(m)' <=> Powered(m)
    BY <2>1 DEF Powered
  <2> QED
    BY <2>1, <2>2, <2>3 DEF Power!power
<1> QED
  BY <1>1, <1>2, <1>3, <1>4, <1>5

(* Programs, interrupt, registers and watchdog implement MotorPower: power *)
(* comes with a program that beats and goes within Timeout quiet clocks.   *)
THEOREM PowerRefines == Spec => ImplementsMotorPower
<1>1. Init => Power!Init
  <2> SUFFICES ASSUME Init PROVE Power!Init
    OBVIOUS
  <2>1. Phase = "dead" /\ signal = prev /\ quiet = 0
    BY DEF Init, Phase, Dead
  <2>2. \A m \in Motors : ~Powered(m)
    BY DEF Init, Powered
  <2> QED
    BY <2>1, <2>2 DEF Power!Init
<1> QED
  BY <1>1, InvariantHolds, StepsAreSteps, PTL
     DEF Spec, ImplementsMotorPower, Power!Spec
=============================================================================
