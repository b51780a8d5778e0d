# TLA+ models of my-SIMBA

my-SIMBA drives a six-wheeled rover from a Kria board: a C library that
controls ten motors through memory-mapped FPGA registers from a 1 ms timer
signal, a TCP server that gives the library its commands, a Python client, an
IMU-based correction of the drive with the port of its sensor, and the Verilog of
the motor controllers and of the watchdog that cuts their power.  The modules in this directory model the
parts of it whose correctness depends on the order in which things happen, the
`.cfg` files check them with TLC on small instances, and the `*Proofs` modules
prove the most important results with TLAPS for every value of the constants.

Run a model with `tlc -workers 2 -config wheel_drive.cfg MCWheelDrive`, check a
proof with `tlapm WheelDriveProofs.tla`.  `PROJECT.json` lists the runs with
their properties, the mutated definitions every property was tried against, the
source lines every definition stands for, and the hazards.

## 1. Inventory

### Components

| Component | Source | State | Operations |
|---|---|---|---|
| Servo: PID step and motor registers | `rover/servo.c`, `pid.c`, `motor.c` | per motor: `counts`, `prevCounts`, `setpoint`, `speed_controlled`, PID limits and integral, `dir`, `duty_cycle`, the mapping | `Servo_init`, `Servo_update`, `Servo_close` |
| Drive API | `rover/rover.c:37-250` | `servos[0..5]` | `motor_set_speed`, the four gaits, `rover_move_x`, `rover_stop`, `check_rover_done` |
| Steering | `rover/steering_motor.c`, `rover.c:255-490` | four `steering_motor_t`, the shared ring of samples `pos`/`pos_index`, `spinup`, `rover_state` | `rover_calibrate`, `rover_update_steering`, `rover_steer_*` |
| Process and interrupt life cycle | `rover.c:313-440, 490-510`, `mmio.c`, the three `main`s | mappings, timer, signal mask | `rover_init`, `isr_init`, `isr`, `rover_close`, SIGINT |
| Hardware watchdog | `vivado/.../watchdog.v` | `prev_signal`, `count`, `watchdog_out` | one clock |
| Motor controller on the FPGA | `vivado/.../motor_controller.v` and below, `motor.c` | control word, position counter, decoder flip-flops, PWM counter | one clock, one edge of the encoder, a word written |
| Control server | `Control_Server/server.c`, `serverUtil.c`, `pollLib.c` | poll set, `workerSocket`, `quit` | accept, receive a command, dispatch, acknowledge |
| Mission control client | `Mission_Control/remote.py` | socket, typed command | send, wait for the acknowledgement |
| IMU correction | `rover/imu_correction.c` | warning, critical, stall and fault flags with their timers, heading reference, commanded speed | update, apply, the handlers of the flags |
| Demonstration main loop | `rover/Main.c` | - | sample, filter, correct, sleep 20 ms |
| IMU bus port | `rover/bmi270_port.c` | the two FIFOs of the AXI IIC controller, a transaction under way | reset, read, write, delay |
| Orientation filter | `rover/ESKF.cpp`, `Quaternion.h` | state vector, covariance | predict, update |

### How they interact

- *Shared memory, timer signal against main thread.*  `isr` (SIGALRM, 1 ms)
  toggles the watchdog register and calls `rover_isr`, which runs the
  calibration, the steering motors and `Servo_update` for all ten servos.  The
  main thread writes the same structs through the API, without masking the
  signal and without atomics.  Nearly every hazard of the library is here.
- *Registers that outlive the process.*  Control words stay when a program
  ends; only the watchdog takes the power away.
- *Calls.*  The server, `test/main.c` and `rover/Main.c` call the API from
  their only thread.  Two handlers of the server (`serverUtil.c`) wait in a
  loop until the interrupt has done its work.
- *Messages.*  The client sends a command with two or three integers and waits
  for an acknowledgement; the server sends it to the socket accepted last.

### What is hard in it, and what makes each part correct

- *Servo and Drive API.*  An interrupt between any two accesses of
  `motor_set_speed`, `rover_move_x` or `rover_stop` sees half of a command.
  Correct means: positions are what the wheels turned; a returned gait is in
  force on all wheels; torn limits never give a speed nobody asked for;
  `rover_stop` ends in distance control.
- *Steering.*  Four motors share one ring of samples and one countdown, and a
  stop is recognised by a motor that stopped moving, which is also what a motor
  does that has not started.  Correct means: one motor at a time, both stops
  found, the calibration ends, a command moves all wheels or none.
- *Life cycle and watchdog.*  The interrupt can come before the registers are
  mapped, after they are unmapped, late, or never again.  Correct means: no
  power without a living interrupt, no loss of power with one, motors disabled
  after `rover_close`.
- *Server and client.*  One thread, signals that interrupt `recv`, connections
  that come and go, acknowledgements without identity.  Correct means: every
  command is acknowledged once to its sender; a Stop that has arrived is carried
  out; one client's end does not harm another.  Not all of it holds (section 4).
- *IMU correction.*  Flags with timers of their own that slow, stop and release
  the same wheels.  Correct means: a critical state slows all six wheels, a
  fault stops them, neither is released by the other's timer.
- *IMU bus.*  Words written ahead of a slow bus with nothing but delays between
  them, delays that the timer's signal cuts short, and a timeout that reports
  nothing.  Correct means: a read returns the bytes of its own register, and
  returns at all.
- *Motor controller.*  A counter that is cleared by one write and released by the
  next while the wheel may turn.  Correct means: every edge counts once, and the
  bridge drives for the share of the time the word asks for.

Every hazard is in `PROJECT.json` under "hazards", at its line, with the
properties that would catch it going wrong, or a note on what none of them says.

## 2. Plan

In order of what the rover can least do without:

| # | Module | Composes | State of the work |
|---|---|---|---|
| 1 | `UpDownCounter`, `Servo` | `Servo` extends `UpDownCounter` | done: operators of the counter and of one servo |
| 2 | `WheelDrive` (+ `MCWheelDrive`, `WheelDriveProofs`) | extends `Servo` | done: API, interrupt, wheels; eight theorems |
| 3 | `MotorPower`, `RoverLifecycle` (+ `MCRoverLifecycle`, `RoverLifecycleProofs`) | `RoverLifecycle` implements `MotorPower` | done: programs, timer, watchdog; six theorems, the refinement among them |
| 4 | `Steering` (+ `MCSteering`, `SteeringProofs`, `SteeringStopsProofs`) | `SteeringStopsProofs` extends `SteeringProofs` | done; five theorems |
| 5 | `ControlServer` (+ `MCControlServer`, `ControlServerProofs`) | the drive API as what a handler does | done; five theorems |
| 6 | `ImuCorrection` (+ `MCImuCorrection`, `ImuCorrectionProofs`) with the main loop | the wheel commands of 2 | done; five theorems |
| 7 | `MotorController` (+ `MCMotorController`, `MotorControllerProofs`) | extends `UpDownCounter` | done; three theorems |
| 8 | `ImuBus` (+ `MCImuBus`, `ImuBusProofs`) | - | done; two theorems |

*Abstract specifications.*  `MotorPower` says only that power follows a beating
program within a bound; `RoverLifecycle` implements it, checked and proved.  A
request/acknowledge channel between one client and the server is what
`ControlServer` would implement in orderly worlds; `OrderlyAnswers` states it
directly.

*Theorems.*  Every safety invariant and every action property that a passing run
checks is a theorem too; what stays with TLC is liveness (section 5).  Left of the
plan: that `ControlServer` implements a request/acknowledge channel, as an abstract
specification of its own.

## 3. The modules

### `Servo`

One servo as a record with the fields of the C structs, and the functions of
`servo.c`, `pid.c` and `motor.c` as operators on it: `UpdateCounts`,
`PIDController_update`, `ApplyOutput`, together `Servo_update`; `ControlWord`
and `Drive` for the register and what the FPGA makes of it.  `UpDownCounter`, which it
extends, is `cntr_udclr_nb.v`: `CountUp` and `CountDown`, going round at the ends
of the range, and `InRange`, what a register of that width shows of a number.

What is abstracted: the PID computes in doubles.  Here the proportional term is
kept, in integers, and what integral and derivative add to it is an element of
`Kicks`, chosen anew on every update.  `ServoAssumption` says of them only that
they do not outweigh the error of 10000 that speed control feeds the PID; the
comment there gives the range of wheel speeds this stands for.  The clamp keeps
the order of its two tests: a negative speed leaves the lower limit *above* the
upper one, and which limit applies is then decided by that order.

### `WheelDrive`

State: `shaft`, the steps every wheel really turned; `enc`, its hardware
counter; `servo`, the array `servos[]`; `reg`, the control registers; `main`,
the main thread with its program counter, its call, the wheel it is at and the
one value it holds in a register.

Actions: `Turn(w)` the wheel and the counter on the FPGA; `Isr` the whole of
`rover_isr` for the wheels; and for the main thread one action for every access
to a servo.  `Begin`, `SetLimMin`, `SetLimMax`, `SetSpeedMode` are
`motor_set_speed` and the gaits; `LoadPosition`, `StoreSetpoint` complete
`rover_move_x`; with `ClearSpeedMode` and the actions from `ReadCounter` to
`StoreWord`, which are `Servo_update` on the main thread, they are `rover_stop`
(`LoadWord` reads the two fields of the control word one after the other); `CheckDone` is `check_rover_done`.

Why the interrupt is one action: a signal handler runs in the thread it
interrupts, so the thread does not move until it returns.  Why the accesses come
in program order: the library's Makefile sets no optimisation.  The fields are
aligned words, so single loads and stores do not tear.

`TickKeepsDrift` and `TickReadsPosition` are the two views of the position: the
interrupt itself never loses a step, but `rover_stop` may already have.
`ModeFollowsCalls` relates the modes of all wheels to the last call that went
round.  `MoveNeedsStop` says what `rover_move_x` is worth: it leads the wheels to
their setpoints, unless a gait came before it without `rover_stop` in between;
then no wheel heeds its setpoint, as `speed_controlled` stays set.

### `RoverLifecycle` and `MotorPower`

State: the program and where its main thread is (`prog`, `pc`, `k`), the
mappings (`map`, `flag`), timer and signal mask (`armed`, `masked`), the control
registers (`reg`: bridge enabled, nonzero duty cycle), the watchdog (`signal`,
`prev`, `count`, `out`), and two clocks for the properties (`age` since the last
interrupt, `quiet` since the last toggle the watchdog saw).

Actions: `Tick` is the `always` block of `watchdog.v`; `Isr` the handler, with
the accesses through unmapped pointers that kill the process; `InitServo`,
`ArmTimer`, `MapFlag` are `rover_init` and `isr_init` in their order;
`Interrupt` the SIGINT handlers of the server (which blocks SIGALRM and closes)
and of the test program (which does not block it); `Disable` and `Unmap` are
`MotorController_close` for one motor after the other; `ReturnFromMain` the end
of `rover/Main.c`, which does not close; `InitFails` and `Die` the other ends;
`Boot` starts a program on the registers as the last one left them.

What is abstracted: the duty cycle is zero or not; `Isr` writes any duty to an
open servo, since `WheelDrive` is about which.  The watchdog's 500000 clocks
are scaled by `Timeout`; `Period` and `MaxGap` say in the same clocks how often
the timer expires and how late the kernel may deliver the signal.

`MotorPower` is the promise behind it: a program is alive, dead or closed; while
it lives it beats and commands motors; a clock sees a beat or counts a quiet one,
and after `Window` quiet ones nothing turns; before that no clock takes power away.
`RoverLifecycle` implements it with `Window <- Timeout`: the phase is read off
`pc` (`exited`, the end of `rover_close`, is "closed"), a beat is a toggle the
watchdog has not seen (`signal # prev`), and a motor is powered when its bridge is
enabled, its duty is nonzero and `watchdog_out` is set.  The beat, and not the
register, carries the promise, since registers outlive the program.

### `Steering`

State: `shaft` and the mechanics of each motor (`still`, `turning`), `cal` the
program's data (the four structs, `pos`, `pos_index`, `spinup`, `rover_state`),
`main` the main thread.

Actions: `Tick` is one period of the timer: the motors move by a count or stand
still (`Steps`), then `rover_isr` runs, which is `rover_calibrate` followed by
`rover_update_steering`.  `handle_state` is `steering_motor_handle_state` with an
operator for each state (`SearchLeft`, `SearchRight`, `GoToCenter`,
`FollowTarget`); `Stage` is a stage of `rover_calibrate`.  `Give`, `LoadCenter`
and `StoreTarget` are the four `rover_steer_*` functions, one load of a centre
and one store of a target per motor.

What is abstracted: the velocity is the sum of the differences of neighbouring
samples, which telescopes to the newest less the oldest but one of the window.
The four servos' own `Servo_update` is not repeated: a position is the count,
and `motor_set_speed` is the direction it gives.  A motor moves at most one
count per period and pauses for at most `StartLag` periods after its drive
changed and `RunLag` while it turns: stiction, as in the log of a real
calibration (`test/out.txt:5` and on), where the motor stands still for 64
samples before it starts.

The motor is idealised in one way: between its stops it turns only the way it is
driven.  At a stop it does not.  The stop gives way by `Rebound` counts, and a motor
that presses against it may go on, stand still or be pushed back, at every period
anew, as in the same log (`test/out.txt:188-219`): the first motor, driven left,
reaches 8, comes back to 7 and 6, and 6 is recorded.  So the end a motor records can
be short of the farthest place it reached, and "found its stop" means: recorded a
place within what the stop gives way (`LeftEnd .. LeftStop`, `RightStop .. RightEnd`).
A motor that is switched off stays where it is.

`Give` comes after the calibration or, at the stages in `EarlyAt`, as a point turn
in the middle of it: the server does not wait.  `main.early` remembers that, and
`WheelsAgree` says what is left of such a command: a motor that was `READY` keeps
its target, one that was not stands at its centre, and one whose calibration ended
between the load of its centre and the store of its target is sent to an offset
from the place where it was switched on.

### `ControlServer`

State: `server`, the data of the one thread (`pc`, `workerSocket` as `worker`,
the poll set with its array size and maximum, the move under way); `sock`, the
connections behind the open descriptors; `backlog`, those not accepted yet;
`client`, what each client does; `mail`, what was sent to it and not yet read;
`rover`, what the drive API was last told and whether `check_rover_done` would
say so; `orderly`, which world this is.

Actions: `Accept` is `addNewSocket`; `Read`, `Close` and `ReadFails` are the ways
through `processMsgFromClient`; each is guarded by `pollCall`, which takes the
lowest descriptor with news.  `Stop`, `Steer`, `Await` and `Drive` are
`handleMoveRover`, one step for each call of the drive API.  `HangUp` is what
the unused slots of the poll set lead to.  `Connect`, `ReadGreeting`, `Send`,
`Receive`, `Leave` are `remote.py` or the client's death; `Arrive` and `ArriveEarly`
are the network;
`Settle` the rover.

Why polling, receiving and answering are one step: the server holds nothing in
between that another process changes.  What a client or the network does
meanwhile can be put before the poll, since `pollCall` had already chosen.

A connection has one of four ends, as TCP has them: open; closed by the client,
which the server may still send to once; gone, when that send was answered by a
reset; reset, when the client closed with data unread.  A failed send or
receive ends the whole server (`exit(-1)`), a send to a gone one by SIGPIPE.

A message may come apart behind its text, because 1024 bytes may take more than
one segment and the timer's signal cuts the `recv` with MSG_WAITALL short.  The
text itself never comes apart: it is far shorter than the smallest segment.  The
first piece alone is a payload without a terminating zero, so the move is
recognised or not (`Recognised`); the second begins with a zero, and `strtok`
returns the null pointer that `strcmp` is given.

`StopsOrWaits` says what becomes of a Stop that has arrived on a descriptor.  The
server may die; it may wait for ever in `Await`; and as `pollCall` takes the lowest
descriptor, "which could cause higher file descriptors to never be processed"
(`pollLib.c:9-10`), it may be kept busy: by a client that sends on a lower one for
ever, or by connections that never cease, since the listening socket is the lowest of
all.  The property names this starvation as an exception for each descriptor
(`Overtakes`), and says that otherwise the Stop is carried out.  TLC finds it
violated without the exception, and also when only the listening socket is excepted:
a client on descriptor 4 that was accepted last gets its answers and goes on for ever,
while the Stop waits on 5.

*Orderly* worlds are those in which clients come one at a time, read the
greeting and every answer before they leave, no message comes apart and stdin
stays open.  `OutlivesOrderlyClients` and `OrderlyAnswers` are about those; the
other properties about all.

What is abstracted: the speed and the distance a client sends are stored and
never read (`handleMoveRover` drives at 64).  A message that `serverControl` does
not know changes nothing and is not answered; it is left out.

### `ImuCorrection`

State: `pc` and `done`, the main thread and the flag that ends its loop; `now`, the
monotonic clock; `flag`, the five flags of `imu_correction.c`; `map`, `mag`,
`heading`, what the samples said last; `active`, whether a heading reference is
set; `drive`, the speed of each wheel, forwards being positive on both sides,
where the code negates the right ones; `start` and `first`, the static variables of
`imu_correction_check_motion`; `seen`, a history variable for `AlarmsWait`.

Actions: one for each call of the loop in `Main.c`: `Update`
(`imu_correction_update` with what main makes of its result), `Fault`,
`Terrain`, then `FirstCall`, `Watch` or `Alarm` for `imu_correction_check_motion`,
whose braking takes the step `Brake`, `Alarmed` for what main makes of an alarm,
`Apply`, `Wait`; `Start` or `InitFails` before the loop, `Exit` after it, and
`sigint_handler` at any time.  `Watch` and `Alarm` treat a stall and a slide
alike, as the two halves of the C function do.

What is abstracted: angles and accelerations are classes between the thresholds
of the code.  `heading` is what yaw error and rate together call for, one of the
four ways through `imu_correction_apply`; the size of the correction
(`weighted_correction`, `boosted_speed`) is only printed there.  Whether the
wheels rolled further than `ENCODER_DELTA_THRESHOLD` is an input.  A `sleep`
takes any of the `Delays`, since the timer's signal cuts `nanosleep` short.  A
sample that cannot be read at all is among the failures of an update, as the code
has a branch for it; the port as written never reports one (`ImuBus`).

### `MotorController`

State: `driver`, what `motor.c` made of the controller; `word`, the control word;
`gate`, the watchdog's output; `phase` of the encoder; `ff`, the four flip-flops of
`Quadrature_Decoder.v`; `count`, the position register; `turned`, the edges the wheel
gave since the word that clears the counter, a history; `pwm`, the counter, the
latched duty and the output of `PWM_Generator.v`; `drove`, the clocks of the present
period in which the bridge drove the motor, a history.

Actions: `Clear` and `Release` are the two writes of `MotorController_init`, `Write`
is `MotorController_write`, `Close` `MotorController_close`, `Abandon` a program
that dies in between; `Gate` is the watchdog; `Turn` an edge of the encoder; `Clock` one
clock of decoder, counter and PWM.  `Out1` and `Out2` are the equations of
`H_Bridge_Driver.v`, `Driving` that exactly one of them pulls the way of the word.

What is abstracted: the encoder gives at most one edge between two clocks, so the
flip-flops never see two inputs change at once; the fabric is clocked many
thousand times faster than a wheel can turn.  Metastability is left out.

### `ImuBus`

State: the program (`pc`, `op`, the words `todo`, the bytes `left` and the `data` it
has), its `wait`; `iic`, the controller with its FIFOs and the bytes a read still
owes; `imu`, the device; `timer`; `trouble`, a history: the bus has stalled since the
controller was reset, or the device did not acknowledge.

Actions: `Start` is `axi_iic_init`, `ReadReg` and `WriteReg` are `bmi270_read_reg` and
`bmi270_write_reg`: they lay out their words, which `Send` writes one by one, each
followed by a delay that `Awake` ends, in time or by the timer's signal.
`FetchByte` and `GiveUp` are the loop over the status register, which ends when a
byte is there or after 1000 looks and then stores what the register reads as.
`ArmTimer` is the `rover_init` that comes after the device was set up; `Die` ends the
program at any point and leaves the controller running.

External are the controller and the device, modelled from how the port uses them:
`Deliver`, `TakeAddress` and `TakeWord` are one word's time on the bus, in order,
bytes owed first; a device may refuse any address and then ignores what follows;
`Stall` is a bus that makes no progress; a word written to a full FIFO is lost, and
a full receive FIFO halts the bus.

Time is counted in words of the bus (9 bits, 90 us).  A byte is known by the
transaction it was read for and its place, and what the program asks of the device
is a list of tagged words.  The choice of registers, the values written and the
vendor driver above the port are left out: the transactions come in any order.

## 4. What the runs check

| Run | Question | Result |
|---|---|---|
| `wheel_drive` | two wheels, every call of the API in any order, the interrupt at every access | `TypeOK`, `ModeFollowsCalls`, `GaitApplied`, `SpeedTickDrivesACommand`, `MoveNeedsStop`, `DriftOnlyInStop`, `TickKeepsDrift` hold |
| `wheel_stop_race` | does the position stay true with `rover_stop`? | `TickReadsPosition` is violated |
| `lifecycle` | three programs started, interrupted, killed, restarted, against the watchdog | `TypeOK`, `PoweredOnlyWhileBeating`, `CleanExit`, `NoSpuriousTrip`, `ServerClosesSafely`, `DeadMeansOff`, `InterruptStops`, `ImplementsMotorPower` hold |
| `lifecycle_close` | does `rover_close` succeed in every program that calls it? | `CloseSucceeds` is violated |
| `steering` | calibration of four motors, a command in the middle of it or after it, access by access | `TypeOK`, `OneAtATime`, `FirstLeftStopFound`, `RightStopsFound`, `WheelsAgree`, `CalibrationEnds`, `TargetsReached` hold |
| `steering_left` | does every motor find its left stop? | `LeftStopsFound` is violated |
| `control_server` | two clients that connect, send, leave and die, the server's one thread, the rover | `TypeOK`, `PollSetMatches`, `OutlivesOrderlyClients`, `OrderlyAnswers`, `StartsStraight`, `StopsOrWaits` hold |
| `control_answers` | is a command answered to its sender? | `AnswersGoToSender` is violated |
| `imu_correction` | every sequence of samples, failures, stalls, slides and SIGINT | `TypeOK`, `HaltStays`, `TerrainIsExpected`, `BackwardsOnlyToBrake`, `AlarmsWait`, `Ends` hold |
| `imu_slow` | is the rover slow while it waits on a critical slope? | `SlowOnCriticalSlope` is violated |
| `imu_bus` | reads and writes with delays cut short, a device that does not answer, a bus that stalls, a program killed and restarted | `TypeOK`, `OwnBytes`, `Returns` hold |
| `motor_controller` | a wheel that turns while programs clear, write, close and die, clock by clock | `TypeOK`, `CountFollows`, `DrivesItsShare` hold |

### Bounds, and why they are enough

- *Wheels.*  Wheels do not interact except through the order in which a gait
  addresses them: two wheels, one on each side, one of them left out by
  `check_rover_done`, show every order and both signs.  One of the two rolls
  (`Rolling`), so that `rover_stop`, with its twenty-one accesses per wheel, fits into
  the same run as all other calls.  The theorems are for any number, any of
  which roll.
- *Counter.*  `EncHalf = 4` instead of 32768 and `ShaftMax = 1`: positions
  before, at and after the start.  `DriftMax = 1` lets `rover_stop` begin on a
  position that has gone wrong by one, so that a second race can add to the
  first, and not without end.  A wheel in these runs does not wrap its counter;
  see section 7.
- *Kicks.*  One value, 25: the sum `Kp * error + kick` then takes values below,
  between and above the limits.
- *Watchdog.*  `Timeout = 3`, `Period = 1`, `MaxGap = 4 = Timeout + 1`: the
  latest interrupt that the watchdog still tolerates, one that is in time and
  everything between.  In the hardware the interrupt has about as many
  milliseconds as 500000 clocks last.
- *Motors of the life cycle.*  Two: first and last of the loops, one disabled
  and unmapped while the other is still open.
- *Steering.*  `BufSize = 6`, `Spinup = 2`, `SpinupRight = 5` for 20, 20 and 50;
  the left stops at 1 to 3 counts and the right ones at 2 the other way
  (`MCSteering`).  The stops of the first motor give way by one count (`Rebound`), so
  that what it records can be short of where it was; those of the others do not.
  `StartLag` is two periods for the first two motors and one for the others, `RunLag`
  one for all.  `EarlyAt = {"RL"}`: the early command
  comes while the first motors are calibrated and the last are not.  `StartLag`
  and `RunLag` are chosen against the window `BufSize - 2` of the velocity: a
  motor that turns does not stand still for a window; one that starts may, and
  this is what the violated run shows.  `BufSize = 2 * RunLag + 4` is exactly what the
  theorems about the stops ask for: with `BufSize = 5` TLC finds both of them
  violated, with `Spinup = 0` the one about the left stop.  `MaxCommands = 1`:
  a second command replaces the targets of the first access by access.
- *Server.*  Two clients, `MaxConnects = 2` connections at a time and three
  commands: a move that waits, `Stop`, and one that is no move.  Neither the commands
  nor the connections one after another are counted, so a client can be busy for
  ever, and a descriptor be used again any number of times; a command can lie on a
  connection just left, and a `Stop` behind a move.  `MaxUnread = 1` bounds what is
  under way: a client sends only when its connection holds no text the server has not
  read and no client has mail it has not read.  Both clients can still have a command
  under way, and a mailbox can come to hold the greeting and two answers.
  `PollSetSize = 5` instead of 10: the second connection has descriptor 5 and makes the
  array grow.
- *IMU.*  Turns of one or two units, alarms after more than one, a duration of
  six: an alarm never comes with the first suspicion, and two stalls, or a slide
  after a stall, fit in.  In the code the thresholds are 500 and 200 ms, many
  turns; more turns only repeat `Watch`.  `Steps = 2`: the beginning and the
  middle of each class of slopes.
- *Motor controller.*  `EncHalf = 4`: the counter goes round, and the two edges that
  can be on their way are well below half its range.  `MaxDuty = 2`, `Div = 2`: no
  duty, part of it, and the highest; every value of the PWM counter lasts longer
  than the one clock by which duty and output lag behind the word.
- *Bus.*  `Depth = 2` for 16: neither a read's four words nor a write's five nor three
  bytes fit at once, so only the pace of the delays keeps the FIFOs from
  overflowing.  `PollTime = 2`: 1000 reads of the status over the
  processor's bus take at least as long as two words on the IMU's (180 us), which
  is 0.18 us for each; the least time that is enough.  `Gap = 4` for 11: the signal
  comes more often than in the code, so more delays of one transaction are cut.
  `Depth = 2`, `PollTime = 2` and a `Gap` of 3 are each the least that work: with
  `Depth = 1`, `PollTime = 1` or `Gap = 2` TLC finds `OwnBytes` violated, and the
  theorem names the same three bounds.
  `MaxOps = 3`: one transaction that goes wrong or is killed, one that may suffer
  from it, and one more.

### Fairness

- `RoverLifecycle!Fairness`: the clock of the FPGA never stops; the kernel
  delivers a pending timer signal; the main thread is scheduled.  Nobody has to
  start a program or to end one: `Boot`, `Interrupt`, `Die` are not fair.
- `Steering!FairSpec`: the timer never stops, and the main thread completes the
  command it began.  Commands are not fair.  That a driven motor between its
  stops moves at last is not fairness but the guard of `Tick`.
- `ControlServer!FairSpec`: the server's thread runs when it can, and on every
  connection it has accepted the segment on its way arrives.  Clients owe nothing, and that the rover ever gets done is
  not assumed: a stalled wheel keeps `check_rover_done` at zero, so `StopsOrWaits`
  grants the server an endless wait.  Nor is `poll` fair to its descriptors.
- `ImuCorrection!FairSpec`: the main thread runs, and a turn of the loop takes
  time.  SIGINT is not fair, so the loop ends by its duration.
- `ImuBus!Spec`: time passes (`Pass`, which may be a stall), and a program that is
  in a transaction goes on (`Step`).  Nothing is assumed of device and bus.
- `WheelDrive`, `MotorController` have no liveness property: no wheel has to turn.
  `MotorPower` promises that power goes by counting clocks, not by fairness; that
  it really goes is `DeadMeansOff`, under the fairness of `RoverLifecycle`.

### What was found

1. `wheel_stop_race`: `rover_stop` runs `Servo_update` on the main thread with
   SIGALRM enabled.  An interrupt between the load and the store of
   `servo->counts` is undone by the store while its `prevCounts` stays: the
   steps it counted are lost, and the reported position differs from the
   wheel's from then on.  `DriftOnlyInStop` shows that nothing else does this.
2. `lifecycle_close`: `test/main.c` closes the rover with the timer armed and
   SIGALRM not blocked.  After the first `munmap` the interrupt reads the counter
   behind the unmapped address (`motor.c:50`), and the program dies of it.  The server blocks the signal and is safe
   (`ServerClosesSafely`).
3. `steering_left`: `spinup` is 20 for the first motor only.  The others start
   with the zero the one before left, so a motor that stands still for the
   window is taken to be at its left stop where it was switched on.
4. `control_answers`: every answer goes to `workerSocket`, the connection
   accepted last.  With two clients the first one's answers reach the second.
5. `imu_slow`: on a MODERATE slope the update returns before it computes the yaw
   error, the terrain handler slows the wheels, and `imu_correction_apply` in the
   same turn takes the old error and sets them back to the default speed.

`CHECK_DEADLOCK` is off in the runs of `ControlServer` and `ImuCorrection` only:
the one stops when the server has ended and all clients have left, the other when the
program has ended.

Four properties hold because they say what the code does where a reader might
expect more.  `MoveNeedsStop`: a `rover_move_x` after a gait and without `rover_stop`
turns all wheels at the same signed speed, the two sides against each other,
without end, where the library's README promises "a given distance at a given speed"
(`src/README:102`).  `WheelsAgree`: a steering
command before the end of the calibration leaves the wheels across one another.
`OwnBytes`: once the bus has stalled, a read stores bytes that belong to the one
before, reports no error, and nothing but a restart of the program ends that.
`StopsOrWaits`: a Stop on a higher descriptor may never be read, as `pollLib.c` says.

In the runs of the server three more ways to end it show as transitions to
`down`, none of them a disagreement with a document: a client that leaves
with an unread answer (`serverUtil.c:32`), a command after the client accepted
last has left (`serverUtil.c:14`), a message in two pieces (`server.c:46`).  And a
client that does not read the greeting takes it for its first answer: all later
answers are off by one (`remote.py:59`).

Reading `imu_correction.c` brought up more that no run shows: the average of the
wheels adds signed counts, which nearly cancel when the rover drives straight
(`:688`); a slope just above 20 degrees is driven faster than one just below
(`:461`); the front left wheel is not slowed and not braked (`:186`); the stall
flag stays set, so that a slide after a stall is first answered by driving on
(`Main.c:264`); the 200 ms of braking last about one period of the timer (`:714`).

While the bounds were chosen two ways to hang came up that no run shows: a motor
that is switched on at its left stop, or with less way to the right than
`SpinupRight` moving samples take, never uses up its spin-up, and the
calibration never ends.  The bounds exclude both, and `CalibrationEnds` holds
under that condition only.

## 5. What is proved

All theorems are for unbounded executions and every value of the constants: any
number of wheels or motors of the life cycle, any program; any stops, lags, windows
and angles of steering; any clients and commands; any samples' thresholds and delays;
any range of the counter and duty; any depth of the FIFOs and any lengths.  They
rest on the assumptions `ServoAssumption`, `WheelDriveAssumption`,
`LifecycleAssumption`, `SteeringAssumption`, `ControlServerAssumption`,
`ImuAssumption`, `MotorControllerAssumption` and `BusAssumption`, which TLC
evaluates in every run, and on what a theorem names itself.  They say little more
than which constants are numbers; that `Nobody` is none of the clients
(`ControlServerAssumption`) is what the word means.

`WheelDriveProofs`:

| Theorem | Property | Along |
|---|---|---|
| `TypeCorrect` | `TypeOK` | `TypeInv`: `TypeOK` and what the local value holds at each program counter |
| `SpeedTick` | `SpeedTickDrivesACommand` | `SpeedInv` |
| `GaitsApply` | `GaitApplied` | `GaitInv` |
| `ModesFollow` | `ModeFollowsCalls` | `ModeInv`: which wheels the call under way has already reached, and `UniformOK` for those it has not |
| `DriftNeedsStop` | `DriftOnlyInStop` | `SpeedInv` |
| `MovesNeedStop` | `MoveNeedsStop` | `MoveInv`: `ModeInv`, and the limits of the wheels that `rover_move_x` has already reached |
| `TicksKeepDrift` | `TickKeepsDrift` | `EncoderOK`, for `ShaftMax < EncHalf` |
| `PositionsRead` | `TickReadsPosition` (violated in `wheel_stop_race`) | `PositionInv`, for a `Program` without `stop` and `ShaftMax < EncHalf` |

`TypeOK` alone is not inductive: `StoreDuty` stores a local value, which is a
duty cycle only because it was loaded as one (`AccOK`).  `SpeedInv` adds
which call can be at which program counter (`CallOK`) and that the upper limit of
a wheel in speed control is some call's argument (`LimitOK`).  Nothing need be
said of the lower limit, torn or not: `Kp * SpeedOffset + kick` is above every
duty, so `Clamp` yields the upper one.  `GaitInv` adds which wheels the gait under
way has already set and needs that `GaitOrder` reaches every wheel; `StopInv` does
the same for `rover_stop`, and `ModeInv` joins both with `UniformOK`: outside gaits
and `rover_stop` all wheels share one mode.  `MovesNeedStop` rests on the latter, since
either all wheels heed their setpoints or none, and on `DistanceDrive`: between the
limits `-speed` and `speed` the sign of the drive is that of the error as soon as the
error outweighs every kick.  `PositionInv` says that
`enc` is `shaft`, so no wrap came, and `counts` is `prevCounts`; it needs the
absence of `rover_stop`, and the run `wheel_stop_race` shows why.  `TicksKeepDrift`
needs only `EncoderOK` and allows every call.

`RoverLifecycleProofs`:

| Theorem | Property | Uses of `IInv` |
|---|---|---|
| `TypeCorrect` | `TypeOK` | - |
| `WatchdogCutsPower` | `PoweredOnlyWhileBeating` | `CountOK`: with the power on, the watchdog has counted the quiet clocks exactly |
| `WatchdogIsPatient` | `NoSpuriousTrip` | `BeatOK`: fewer clocks passed since the toggle was seen than since the interrupt that made it; `MaxGap <= Timeout + 1` |
| `ClosedMeansDisabled` | `CleanExit` | `CloseOK`: motors before `k` are disabled in struct *and* register, so a late interrupt cannot enable them |
| `ServerCloses` | `ServerClosesSafely` | `MapOK`, `StageOK`: mappings by stage, SIGALRM blocked while the server closes |
| `PowerRefines` | `ImplementsMotorPower` | `CountOK`, `BeatOK`, `CloseOK`: each step is one of `MotorPower` or a stutter |

`IInv` is the conjunction of the parts named there, and one invariant serves all
six.  In the refinement a clock is `Seen` or `Quiet` (`TickSeenOrQuiet`), the interrupt a
`Beat`, or a `Withdraw` when it dies on the null pointer (`IsrBeatsOrDies`), and
whatever the main thread does a `Withdraw` (`MainWithdraws`).  The interrupt finds no
unseen beat because `Period` is at least one clock.  The timing assumption `Period <= MaxGap <= Timeout + 1` is what the
hardware has by a margin of orders of magnitude; the theorem needs no more.

`SteeringProofs`:

| Theorem | Property | Uses of `IInv` |
|---|---|---|
| `TypeCorrect` | `TypeOK` | - |
| `MotorsTakeTurns` | `OneAtATime` | `Ordered`: the state of a motor goes with its place in the order of the calibration |
| `TargetsBelongTogether` | `WheelsAgree` | `TargetsOK` and `RegOK`, with `CentersOK` and `EarlyOK` |

`OneAtATime` says only whose turn it is while a motor calibrates; that the ones before
are ready and the ones to come wait is `Ordered`.  `WheelsAgree` speaks of the main thread when it
is idle; `TargetsOK` says it of the motors it has reached, and `RegOK` what
the value between the load of a centre and the store of a target may be: the right one,
or one that became stale because the calibration found the centre in between.  Only
an early command gives the latter (`EarlyOK`).  The calls of an
interrupt, `rover_calibrate` and one for each of the four motors, are steps of one
relation, `Advance`, which is transitive: centres that are known stay, what is
ready stays ready.

`SteeringStopsProofs`:

| Theorem | Property | Under |
|---|---|---|
| `FirstLeftFound` | `FirstLeftStopFound` | `BufSize >= 2 * RunLag + 4`, `Spinup >= 1` |
| `RightsFound` | `RightStopsFound` | `BufSize >= 2 * RunLag + 4`, `SpinupRight >= BufSize - 1` |

The calibration takes a motor to be at its stop when the window shows no motion.  The
theorems say when that is true.  With 20 samples, two of them per period, the first
bound lets a motor that turns take eight periods of the timer for a count; the
spin-ups of the code are 20 (`Spinup >= 1`) and 50 (at least 19).  The bounds are
named in the theorems and not assumed of the constants, because they are about the
mechanics; TLC finds each property violated just below them.  The invariant is
`IInv` with `WithinOK` (a motor stays between its stops and its drive goes with its
state) and one of

- `FirstOK`: while the first motor goes left and has not met its stop (`LeftOK`) the
  ring holds nothing beyond its position, and samples older than those of this
  position lie behind it; before it has started no spin-up has been used.  Nothing is
  said of the samples of a motor that presses against its stop and may be pushed back;
- `RightsOK`: while a motor goes right (`RightOK`) its last `j` samples are of this way
  and what is left of the spin-up, plus `j`, is at least `SpinupRight`: when the
  spin-up is over the ring holds samples of this way only.

This is why the right stop is found whatever was taken for the left one, and why the
same does not hold of the left stop (`steering_left`): the motors after the first
start with no spin-up.  The lemmas above them reduce an interrupt
to one or two calls for the motor whose turn it is (`CalibrateDoes`, `LoopApplies`).

`ControlServerProofs`:

| Theorem | Property | Uses of `IInv` |
|---|---|---|
| `TypeCorrect` | `TypeOK` | `ConnectsOK`: there is a descriptor for every connection that waits to be accepted |
| `PollSetFollows` | `PollSetMatches` | `ConnectsOK`; the property is inductive with it and `TypeOK` |
| `ServerOutlives` | `OutlivesOrderlyClients` | `OrderlyOK` |
| `AnswersMatch` | `OrderlyAnswers` | `OrderlyOK` |
| `StraightStart` | `StartsStraight` | `MoveOK`: what a handler has done at each of its steps |

`OrderlyOK` lists where an orderly client can be: `Queued` behind the listening
socket, `Greeted`, `Idle`, `Asked` (its command is in the socket), `Delivered` (its
answer is in the mail), or gone (`Empty`), while every other open connection is one
that was closed in order (`OthersQuit`).  Neither property is inductive: that the server
outlives a client needs that no answer is unread when it leaves, and that answers match
(one answer, and one the server gives to the command sent; it is given before the
command is carried out, `server.c:57-58`) needs that `workerSocket` is this client's connection.  `Orderly...` lemmas take the
sessions through one kind of step each.

`ImuCorrectionProofs`:

| Theorem | Property | Uses of `IInv` |
|---|---|---|
| `TypeCorrect` | `TypeOK` | - |
| `HaltsLast` | `HaltStays` | `FaultOK`: after a fault main is on its way out of the loop; `SlideOK`, `BrakeOK` the same of a slide |
| `TerrainExpected` | `TerrainIsExpected` | the property is inductive, with `TypeOK` |
| `BackwardsBrakes` | `BackwardsOnlyToBrake` | `BrakeOK`: after the braking of a stall or a slide (`imu_correction.c:713`) the wheels stand |
| `AlarmsAreLate` | `AlarmsWait` | `TimingOK`: a suspicion began no earlier than the last sample against it |

`MotorControllerProofs`:

| Theorem | Property | Uses of `IInv` |
|---|---|---|
| `TypeCorrect` | `TypeOK` | - |
| `EdgesCounted` | `CountFollows` | `EdgesOK`: at most one edge waits before the flip-flops and one between them; `WordOK`: the counter is held at zero until it is released |
| `ShareDriven` | `DrivesItsShare` | `ShareOK`: in a period that is not spoilt the bridge drives first, until it has driven for the share |

`CountFollows` is arithmetic modulo the counter's range: going up or down by one and
going round at the ends commute with `InRange`, and two edges are less than half a range
(`EncHalf` at least 2).  `DrivesItsShare` speaks of the last clock of a period only;
`ShareOK` is the count at every clock before.

`ImuBusProofs`:

| Theorem | Property | Under |
|---|---|---|
| `TypeCorrect` | `TypeOK` | nothing: no FIFO holds more than its depth at any pace |
| `ReadsAreOwn` | `OwnBytes` | `InTime`: `Depth >= 2`, `PollTime >= 2`, `Gap >= 3` |

The board has a depth of 16, a patience of at least two words' time and eleven words
between two signals.  `BytesInv` is the conjunction of `IInv` (`TypeOK`, and
`WordsOK` about the words under way), `OffOK`, `TransferOK` and the property.
`TransferOK` says as long as the bus has not stalled: between transactions
the controller is at rest (`IdleOK`); words that wait are the next of this
transaction, in order (`WriteOK`, `OrderOK`); bytes that came or are still owed are
the next ones of this read (`BytesOK`); and at most one word waits while the next is
written, since of the delays of one read the signal cuts at most one short, and
patience lasts longer than the bus takes for a byte (`BacklogOK`).  The last is what
needs the bounds, and each of them.

### Only model-checked

Liveness (`DeadMeansOff`, `InterruptStops`, `CalibrationEnds`,
`TargetsReached`, `StopsOrWaits`, `Ends`, `Returns`) stays with TLC: ENABLED and
fairness are beyond the prover.  `MotorPower` states no fairness: what it promises, it
promises by counting clocks.  The five violated properties are refuted by TLC's
traces; of `TickReadsPosition` a theorem shows the condition under which it holds.

## 6. What is assumed of the world

The kernel delivers SIGALRM to the only thread; a store to a mapped register
takes effect at once; an encoder gives at most one edge between two clocks of the
FPGA, and `WheelDrive` takes the counter to follow the wheel, which
`MotorController` shows up to the two edges on their way; a write through a null or
unmapped pointer kills the process; TCP delivers in order and answers a segment for a closed end by a
reset; `accept` returns the lowest free descriptor.  The AXI IIC controller
sends its words in order, drops what is written to a full FIFO, halts the bus while
the receive FIFO is full and reads as zero when it is empty; an IMU that
acknowledges sends its bytes in order.

## 7. What is not modelled, and why

- *The wrap of the 16-bit counter.*  `servo.c:48` adds a difference that is not
  reduced to 16 bits, so `counts` jumps by 65536 when the counter wraps.  The
  operators have the wrap (`CountUp`, `MotorController` goes through it), the
  theorems name its absence as a condition, no run follows the jump.
- *Distance mode with torn limits.*  Between the two stores of `rover_move_x` a
  wheel in distance mode can run for one interrupt at a mixture of two calls'
  limits; `SpeedTickDrivesACommand` is about speed mode only.
- *The client's timeout* (`remote.py:56`) is tested before a `recv` that blocks
  without one: it can only fire before the first receive, and never does.
- *The wheel `check_rover_done` leaves out, and the average of signed counts* in
  `imu_correction.c:688`: which positions the wheels have when the questions are
  asked is the physics of the rover.  The models answer as the code does, from any
  positions (`BadEncoder`) or by an input.
- *The vendor driver above the IMU's port*: what it reads and writes, and its
  retries.  `ImuBus` takes transactions in any order.
- *`ESKF.cpp`, `Quaternion.h`, the PID's arithmetic*: floating point without
  control state.
- *The H bridge and the motor behind it*: `MotorController` ends at the two inputs of
  the bridge.
- *Block design, bitstream, PCB, `chats/`, vendored BMI270 driver*: generated,
  binary or not this project's code.
