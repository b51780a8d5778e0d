------------------------------- MODULE ImuBus -------------------------------
(***************************************************************************)
(* The port of the IMU's driver (rover/bmi270_port.c): register reads and  *)
(* writes put word by word into the transmit FIFO of an AXI IIC            *)
(* controller, after each word a delay in which the bus is expected to     *)
(* take it, the bytes read fetched from the receive FIFO.  The delays are  *)
(* nanosleeps, which the timer signal that rover_init's isr_init arms      *)
(* cuts short, and a fetch gives up after 1000 looks at the status.        *)
(*                                                                         *)
(* Time is counted in words of the bus: 9 bits, 90 us at 100 kHz, within   *)
(* the 100 us that the program leaves for one.                             *)
(***************************************************************************)
EXTENDS Integers, Sequences

CONSTANTS
  Depth,      \* words in either FIFO of the controller (16)
  ReadLens,   \* data_len of the driver's reads
  WriteLens,  \* ... and of its writes (at most read_write_len, 32)
  PollTime,   \* least time that 1000 reads of the status register take
  Gap,        \* least time between two timer signals (1 ms: 11 words)
  MaxOps      \* bound: transactions of the programs together

ASSUME BusAssumption ==
  /\ Depth \in Nat \ {0} /\ MaxOps \in Nat
  /\ ReadLens \subseteq Nat \ {0} /\ WriteLens \subseteq Nat \ {0}
  /\ PollTime \in Nat /\ Gap \in Nat

VARIABLES
  pc,      \* the program: off, or idle, or in bmi270_read_reg or _write_reg
  op,      \* number of the transaction, bound and name of what it reads
  todo,    \* words it has still to write
  left,    \* bytes it has still to fetch
  data,    \* bytes it has fetched
  wait,    \* time until its delay, or its patience with a byte, is over
  iic,     \* the controller: FIFOs tx and rx, bytes it owes the program
  imu,     \* the device: whether it follows, what it sends next
  timer,   \* whether the timer is armed, time since its last signal
  trouble  \* history: the bus has stalled since the controller's reset; the
           \* device did not acknowledge an address of this transaction

program == <<pc, op, todo, left, data>>
vars == <<program, wait, iic, imu, timer, trouble>>

(* The words.  A byte is known by the read it belongs to and its place.    *)
Address(dir)  == [kind |-> dir, n |-> 0]       \* 0x100 | (addr << 1) | dir
Register      == [kind |-> "reg", n |-> op + 1]
StopAfter(n)  == [kind |-> "stop", n |-> n]    \* 0x200 | data_len
Byte          == [kind |-> "byte", n |-> 0]
LastByte      == [kind |-> "last", n |-> 0]    \* 0x200 | data[i]
Junk == <<0, 0>>                   \* what an empty receive FIFO reads as

Init ==
  /\ pc = "off" /\ op = 0 /\ todo = <<>> /\ left = 0 /\ data = <<>> /\ wait = 0
  /\ iic = [tx |-> <<>>, rx |-> <<>>, owes |-> 0]
  /\ imu = [follows |-> FALSE, next |-> Junk]
  /\ timer = [armed |-> FALSE, since |-> 0]
  /\ trouble = [stalled |-> FALSE, nack |-> FALSE]
-----------------------------------------------------------------------------
(* axi_iic_init of a program that was started: reset, two long delays.     *)
(* Mutant: the controller is enabled without a reset.                      *)
Start_NoReset ==
  /\ pc = "off" /\ pc' = "idle"
  /\ trouble' = [stalled |-> FALSE, nack |-> FALSE]
  /\ UNCHANGED <<op, todo, left, data, wait, iic, imu, timer>>

Start ==
  /\ pc = "off" /\ pc' = "idle"
  /\ iic' = [tx |-> <<>>, rx |-> <<>>, owes |-> 0]
  /\ trouble' = [stalled |-> FALSE, nack |-> FALSE]
  /\ UNCHANGED <<op, todo, left, data, wait, imu, timer>>

(* The program ends or is killed; the controller goes on by itself.        *)
Die ==
  /\ pc # "off" /\ pc' = "off"
  /\ timer' = [armed |-> FALSE, since |-> 0]
  /\ todo' = <<>> /\ left' = 0 /\ data' = <<>> /\ wait' = 0
  /\ UNCHANGED <<op, iic, imu, trouble>>

(* rover_init and isr_init, after bmi270_kria_init has set up the device.  *)
ArmTimer ==
  /\ pc = "idle" /\ ~timer.armed
  /\ timer' = [timer EXCEPT !.armed = TRUE]
  /\ UNCHANGED <<program, wait, iic, imu, trouble>>

Begin(words, bytes) ==
  /\ pc = "idle" /\ op < MaxOps
  /\ pc' = "send" /\ op' = op + 1
  /\ todo' = words /\ left' = bytes /\ data' = <<>>
  /\ trouble' = [trouble EXCEPT !.nack = FALSE]
  /\ UNCHANGED <<wait, iic, imu, timer>>

(* Mutant of ReadReg: a byte more is asked for than is fetched.            *)
ReadReg_OneMore(n) ==
  Begin(<<Address("write"), Register, Address("read"), StopAfter(n + 1)>>, n)

ReadReg(n) ==
  Begin(<<Address("write"), Register, Address("read"), StopAfter(n)>>, n)

(* The driver writes while it sets the device up, before isr_init.         *)
WriteReg(n) ==
  /\ ~timer.armed
  /\ Begin(<<Address("write"), Register>>
             \o [i \in 1 .. n |-> IF i = n THEN LastByte ELSE Byte], 0)

(* The program looks at no status: a word that finds the FIFO full is lost.*)
Written(tx, word) == IF Len(tx) < Depth THEN Append(tx, word) ELSE tx

(* Mutant of Delay: no delay after a write's last byte.                    *)
Delay_NoneAtEnd(word) == IF word.kind = "last" THEN 0 ELSE 1

Delay(word) == IF word.kind = "last" THEN 5 ELSE 1

(* iic_write of the next word, up to the delay after it ...                *)
Send ==
  /\ pc = "send" /\ pc' = "delay"
  /\ iic' = [iic EXCEPT !.tx = Written(@, Head(todo))]
  /\ wait' = Delay(Head(todo)) /\ todo' = Tail(todo)
  /\ UNCHANGED <<op, left, data, imu, timer, trouble>>

(* Mutant of Onward: the loop over the bytes runs to data_len itself.      *)
Onward_OneMore(bytes) == IF bytes < 0 THEN "idle" ELSE "fetch"

Onward(bytes) == IF bytes = 0 THEN "idle" ELSE "fetch"

(* ... which ends in time or by the signal.                                *)
Awake ==
  /\ pc = "delay"
  /\ \/ wait = 0 /\ UNCHANGED timer
     \/ timer.armed /\ timer.since = Gap /\ timer' = [timer EXCEPT !.since = 0]
  /\ IF todo # <<>> THEN pc' = "send" /\ wait' = 0
     ELSE pc' = Onward(left) /\ wait' = PollTime
  /\ UNCHANGED <<op, todo, left, data, iic, imu, trouble>>

Stored(byte) ==
  /\ data' = Append(data, byte) /\ left' = left - 1
  /\ pc' = Onward(left - 1) /\ wait' = PollTime
  /\ UNCHANGED <<op, todo, imu, timer, trouble>>

(* The status says that there is a byte, or this is found when the looks   *)
(* at it are used up; or there is none even then.                          *)
FetchByte ==
  /\ pc = "fetch" /\ iic.rx # <<>>
  /\ iic' = [iic EXCEPT !.rx = Tail(@)]
  /\ Stored(Head(iic.rx))

(* Mutants of GiveUp: no timeout; no look at the status.                   *)
GiveUp_Never == FALSE /\ UNCHANGED vars

GiveUp_AtOnce ==
  /\ pc = "fetch" /\ iic.rx = <<>>
  /\ Stored(Junk) /\ UNCHANGED iic

GiveUp ==
  /\ pc = "fetch" /\ iic.rx = <<>> /\ wait = 0
  /\ Stored(Junk) /\ UNCHANGED iic
-----------------------------------------------------------------------------
(* The controller and the device in the time of one word: a byte that is   *)
(* owed, if the receive FIFO has room, or else the next word to transmit.  *)
Deliver ==
  /\ iic.owes > 0
  /\ IF Len(iic.rx) < Depth
     THEN /\ iic' = [iic EXCEPT !.rx = Append(@, imu.next), !.owes = @ - 1]
          /\ imu' = [imu EXCEPT !.next[2] = @ + 1]
     ELSE UNCHANGED <<iic, imu>>
  /\ UNCHANGED trouble

(* A device that does not acknowledge an address ignores what comes then.  *)
TakeAddress ==
  /\ iic.owes = 0 /\ iic.tx # <<>> /\ Head(iic.tx).kind \in {"write", "read"}
  /\ iic' = [iic EXCEPT !.tx = Tail(@)]
  /\ \E ack \in BOOLEAN :
       /\ imu' = [imu EXCEPT !.follows = ack]
       /\ trouble' = [trouble EXCEPT !.nack = @ \/ ~ack]

TakeWord ==
  /\ iic.owes = 0 /\ iic.tx # <<>> /\ Head(iic.tx).kind \notin {"write", "read"}
  /\ LET word == Head(iic.tx)
     IN  /\ iic' = [iic EXCEPT !.tx = Tail(@),
                      !.owes = IF word.kind = "stop" /\ imu.follows
                               THEN word.n ELSE 0]
         /\ imu' = IF word.kind = "reg" /\ imu.follows
                   THEN [imu EXCEPT !.next = <<word.n, 1>>] ELSE imu
  /\ UNCHANGED trouble

(* The device stretches the clock, or another board disturbs the bus.      *)
Stall ==
  /\ iic.tx # <<>> \/ iic.owes > 0
  /\ trouble' = [trouble EXCEPT !.stalled = TRUE]
  /\ UNCHANGED <<iic, imu>>

Rest == iic.tx = <<>> /\ iic.owes = 0 /\ UNCHANGED <<iic, imu, trouble>>

(* The program may be kept from running for as long as it pleases.         *)
Pass ==
  /\ Deliver \/ TakeAddress \/ TakeWord \/ Stall \/ Rest
  /\ wait' = IF wait > 0 THEN wait - 1 ELSE 0
  /\ timer' = [timer EXCEPT !.since = IF timer.armed /\ @ < Gap THEN @ + 1 ELSE @]
  /\ UNCHANGED program

Step == Send \/ Awake \/ FetchByte \/ GiveUp

Next ==
  \/ Start \/ Die \/ ArmTimer \/ Step \/ Pass
  \/ \E n \in ReadLens : ReadReg(n)
  \/ \E n \in WriteLens : WriteReg(n)

(* Time passes, and a program that lives goes on with its transaction.     *)
Spec == Init /\ [][Next]_vars /\ WF_vars(Pass) /\ WF_vars(Step)
-----------------------------------------------------------------------------
Bytes == (0 .. MaxOps) \X Nat

TypeOK ==
  /\ pc \in {"off", "idle", "send", "delay", "fetch"} /\ op \in 0 .. MaxOps
  /\ todo \in Seq([kind : {"write", "read", "reg", "stop", "byte", "last"}, n : Nat])
  /\ left \in Nat /\ data \in Seq(Bytes) /\ wait \in Nat
  /\ DOMAIN iic = {"tx", "rx", "owes"} /\ iic.owes \in Nat
  /\ Len(iic.tx) <= Depth /\ Len(iic.rx) <= Depth
  /\ iic.rx \in Seq(Bytes) /\ imu \in [follows : BOOLEAN, next : Bytes]
  /\ timer \in [armed : BOOLEAN, since : 0 .. Gap]
  /\ trouble \in [stalled : BOOLEAN, nack : BOOLEAN]

(* As long as the bus has kept its time since the controller was reset, a  *)
(* read that the device acknowledges returns that register's bytes, from   *)
(* the first on: delays that the timer cuts short cost no word and let no  *)
(* fetch give up, and nothing is left over from an earlier read, be it one *)
(* that the device did not answer or one of a program that was killed.     *)
OwnBytes ==
  ~trouble.stalled /\ ~trouble.nack =>
    \A i \in DOMAIN data : data[i] = <<op, i>>

(* A transaction comes to its end whatever the bus and the device do: the  *)
(* 1000 looks at the status are all that keeps the loop of imu_correction  *)
(* from standing still with the wheels turning.                            *)
Returns == pc \in {"send", "delay", "fetch"} ~> pc \in {"idle", "off"}
=============================================================================
