------------------------------ MODULE ImuBusProofs ------------------------------
(***************************************************************************)
(* Proofs about ImuBus.  For FIFOs of any depth, transactions of any       *)
(* length and any timing, neither FIFO holds more than its depth.  Where   *)
(* the FIFO, the program's patience and the timer's period reach a least   *)
(* size that is named, a read returns the bytes of its own register.       *)
(***************************************************************************)
EXTENDS ImuBus, SequenceTheorems, TLAPS

Words ==
  {w \in [kind : {"write", "read", "reg", "stop", "byte", "last"}, n : Nat] :
     w.kind = "reg" => w.n \in 0 .. MaxOps}

IicType == [tx : Seq(Words), rx : Seq(Bytes), owes : Nat]

(* What TypeOK leaves open: the words that wait in the controller, and the *)
(* bytes left to fetch while there is something to fetch.                  *)
WordsOK ==
  /\ iic \in IicType /\ todo \in Seq(Words)
  /\ pc = "send" => todo # <<>>
  /\ pc = "fetch" => left > 0

IInv == TypeOK /\ WordsOK

(* The words of a read of n bytes that is the o-th transaction, how many   *)
(* of them have been written, and how many the bus has taken.              *)
ReadWord(o, n, i) ==
  <<Address("write"), [kind |-> "reg", n |-> o], Address("read"), StopAfter(n)>>[i]

Unsent  == Len(todo)
Backlog == Len(iic.tx)
Stock   == Len(iic.rx)
Got     == Len(data)

Sent  == 4 - Unsent
Taken == Sent - Backlog

Reading == pc \in {"send", "delay", "fetch"} /\ left > 0
Writing == pc \in {"send", "delay"} /\ left = 0

(* A program that is off has fetched nothing.                              *)
OffOK == pc = "off" => data = <<>>

(* Between two transactions the controller has nothing to do.              *)
IdleOK == pc = "idle" => iic = [tx |-> <<>>, rx |-> <<>>, owes |-> 0]

(* Writes come before the timer, so every word has its delay.              *)
WriteOK ==
  Writing =>
    /\ ~timer.armed /\ data = <<>> /\ iic.rx = <<>> /\ iic.owes = 0
    /\ Backlog <= IF pc = "send" THEN 0 ELSE wait
    /\ \A i \in DOMAIN todo : todo[i].kind # "stop"
    /\ \A i \in DOMAIN iic.tx : iic.tx[i].kind # "stop"

(* What is left of a read's words is in order, and no byte comes before    *)
(* the last of them.                                                       *)
OrderOK ==
  Reading =>
    /\ Unsent <= 4 /\ Taken >= 0 /\ (pc = "fetch" => todo = <<>>)
    /\ \A i \in DOMAIN todo : todo[i] = ReadWord(op, left, Sent + i)
    /\ \A i \in DOMAIN iic.tx : iic.tx[i] = ReadWord(op, left, Taken + i)
    /\ Taken < 4 => iic.owes = 0 /\ iic.rx = <<>> /\ data = <<>>
    /\ pc # "fetch" => data = <<>>

(* The bytes still to come are those still to be fetched, and the next     *)
(* ones of this read, or the device has not answered.                      *)
BytesOK ==
  Reading =>
    /\ Taken = 4 => iic.owes + Stock = IF imu.follows THEN left ELSE 0
    /\ ~trouble.nack =>
         /\ Taken >= 1 => imu.follows
         /\ Taken >= 2 => imu.next = <<op, Got + Stock + 1>>
         /\ \A i \in DOMAIN iic.rx : iic.rx[i] = <<op, Got + i>>

(* The signal cuts at most one delay before the last of a read short, so   *)
(* that at most one word waits when the next is written, and patience with *)
(* a byte lasts longer than the bus takes to bring it.                     *)
BacklogOK ==
  Reading =>
    /\ pc = "send" =>
         /\ Backlog <= 1
         /\ Backlog = 1 => timer.armed /\ timer.since < Sent
    /\ pc = "delay" =>
         /\ wait <= 1 /\ Backlog <= wait + 1 /\ Sent > 0
         /\ Backlog = wait + 1 => timer.armed /\ timer.since + wait < Sent
    /\ pc = "fetch" /\ iic.rx = <<>> =>
         /\ Backlog <= 1 /\ (Backlog > 0 => wait >= 2)
         /\ iic.owes > 0 => wait >= 1

TransferOK ==
  ~trouble.stalled => IdleOK /\ WriteOK /\ OrderOK /\ BytesOK /\ BacklogOK

BytesInv == IInv /\ OffOK /\ TransferOK /\ OwnBytes
-----------------------------------------------------------------------------
LEMMA Ends ==
  ASSUME NEW S, NEW s \in Seq(S), s # <<>>
  PROVE  Head(s) \in S /\ Tail(s) \in Seq(S) /\ Len(Tail(s)) = Len(s) - 1
OBVIOUS

LEMMA WordsAreTyped ==
  ASSUME NEW s \in Seq(Words)
  PROVE  s \in Seq([kind : {"write", "read", "reg", "stop", "byte", "last"}, n : Nat])
<1> DEFINE Any == [kind : {"write", "read", "reg", "stop", "byte", "last"}, n : Nat]
<1>1. Words \subseteq Any
  BY DEF Words
<1> HIDE DEF Any
<1>2. s \in Seq(Any)
  BY <1>1
<1> QED
  BY <1>2 DEF Any

LEMMA InitHolds == Init => IInv
<1> SUFFICES ASSUME Init PROVE IInv
  OBVIOUS
<1>1. iic \in IicType /\ Len(iic.tx) <= Depth /\ Len(iic.rx) <= Depth
  BY BusAssumption DEF Init, IicType
<1>2. imu \in [follows : BOOLEAN, next : Bytes]
  BY BusAssumption DEF Init, Junk, Bytes
<1> QED
  BY <1>1, <1>2, BusAssumption DEF Init, IInv, TypeOK, WordsOK, IicType, Bytes

LEMMA BeginKeeps ==
  ASSUME IInv, NEW words \in Seq(Words), words # <<>>, NEW bytes \in Nat,
         Begin(words, bytes)
  PROVE  IInv'
<1>1. op' \in 0 .. MaxOps
  BY BusAssumption DEF Begin, IInv, TypeOK
<1>2. trouble' \in [stalled : BOOLEAN, nack : BOOLEAN]
  BY Zenon DEF Begin, IInv, TypeOK
<1> QED
  BY <1>1, <1>2, WordsAreTyped DEF Begin, IInv, TypeOK, WordsOK

LEMMA KindsOfWords ==
  ASSUME TypeOK, op < MaxOps
  PROVE  /\ \A dir \in {"write", "read"} : Address(dir) \in Words
         /\ Register \in Words /\ Byte \in Words /\ LastByte \in Words
         /\ \A n \in Nat : StopAfter(n) \in Words
BY BusAssumption DEF TypeOK, Words, Address, Register, Byte, LastByte, StopAfter

LEMMA ReadKeeps ==
  ASSUME IInv, NEW n \in ReadLens, ReadReg(n)
  PROVE  IInv'
<1>1. op < MaxOps /\ n \in Nat
  BY BusAssumption DEF ReadReg, Begin
<1> DEFINE words == <<Address("write"), Register, Address("read"), StopAfter(n)>>
<1>2. words \in Seq(Words) /\ words # <<>>
  BY <1>1, KindsOfWords DEF IInv
<1>3. Begin(words, n)
  BY DEF ReadReg
<1> HIDE DEF words
<1> QED
  BY <1>1, <1>2, <1>3, BeginKeeps

LEMMA WriteKeeps ==
  ASSUME IInv, NEW n \in WriteLens, WriteReg(n)
  PROVE  IInv'
<1>1. op < MaxOps /\ n \in Nat
  BY BusAssumption DEF WriteReg, Begin
<1> DEFINE start == <<Address("write"), Register>>
           bytes == [i \in 1 .. n |-> IF i = n THEN LastByte ELSE Byte]
<1>2. start \in Seq(Words) /\ Len(start) = 2
  BY <1>1, KindsOfWords DEF IInv
<1>3. bytes \in Seq(Words) /\ Len(bytes) = n
  BY <1>1, KindsOfWords DEF IInv
<1>4. Begin(start \o bytes, 0)
  BY DEF WriteReg
<1> HIDE DEF start, bytes
<1>5. start \o bytes \in Seq(Words) /\ start \o bytes # <<>>
  BY <1>1, <1>2, <1>3
<1> QED
  BY <1>4, <1>5, BeginKeeps

LEMMA SendKeeps ==
  ASSUME IInv, Send PROVE IInv'
<1> USE DEF IInv, TypeOK, WordsOK, IicType
<1>1. todo # <<>> /\ Head(todo) \in Words /\ Tail(todo) \in Seq(Words)
  BY Ends DEF Send
<1>2. Written(iic.tx, Head(todo)) \in Seq(Words)
  BY <1>1 DEF Written
<1>3. Len(Written(iic.tx, Head(todo))) <= Depth
  BY <1>1, BusAssumption DEF Written
<1>4. Delay(Head(todo)) \in Nat
  BY DEF Delay
<1> QED
  BY <1>1, <1>2, <1>3, <1>4, WordsAreTyped DEF Send

LEMMA AwakeKeeps ==
  ASSUME IInv, Awake PROVE IInv'
<1>1. timer' \in [armed : BOOLEAN, since : 0 .. Gap]
  <2>1. timer \in [armed : BOOLEAN, since : 0 .. Gap] /\ 0 \in 0 .. Gap
    BY BusAssumption DEF IInv, TypeOK
  <2>2. timer' = timer \/ timer' = [timer EXCEPT !.since = 0]
    BY DEF Awake
  <2> QED
    BY <2>1, <2>2
<1>2. wait' \in Nat /\ pc' \in {"send", "idle", "fetch"}
      /\ (pc' = "send" => todo # <<>>) /\ (pc' = "fetch" => left > 0)
  BY BusAssumption DEF IInv, TypeOK, Awake, Onward
<1> QED
  BY <1>1, <1>2 DEF IInv, TypeOK, WordsOK, Awake

LEMMA StoredKeeps ==
  ASSUME IInv, pc = "fetch", NEW byte \in Bytes, Stored(byte),
         iic' \in IicType, Len(iic'.tx) <= Depth, Len(iic'.rx) <= Depth
  PROVE  IInv'
<1>1. left' \in Nat /\ (pc' = "fetch" => left' > 0)
  BY DEF IInv, TypeOK, WordsOK, Stored, Onward
<1>2. data' \in Seq(Bytes) /\ wait' \in Nat /\ pc' \in {"idle", "fetch"}
  BY BusAssumption DEF IInv, TypeOK, Stored, Onward
<1>3. todo' \in Seq([kind : {"write", "read", "reg", "stop", "byte", "last"}, n : Nat])
      /\ UNCHANGED <<op, todo, imu, timer, trouble>>
  BY DEF IInv, TypeOK, Stored
<1>4. TypeOK'
  BY <1>1, <1>2, <1>3 DEF IInv, TypeOK, IicType
<1> QED
  BY <1>1, <1>2, <1>3, <1>4 DEF IInv, TypeOK, WordsOK, IicType

LEMMA FetchKeeps ==
  ASSUME IInv, Step, ~Send, ~Awake PROVE IInv'
<1>1. CASE FetchByte
  <2>1. Head(iic.rx) \in Bytes /\ Tail(iic.rx) \in Seq(Bytes)
        /\ Len(Tail(iic.rx)) <= Depth
    BY <1>1, Ends, BusAssumption DEF FetchByte, IInv, WordsOK, IicType, TypeOK
  <2>2. iic' \in IicType /\ Len(iic'.tx) <= Depth /\ Len(iic'.rx) <= Depth
    BY <1>1, <2>1 DEF FetchByte, IInv, WordsOK, IicType, TypeOK
  <2> QED
    BY <1>1, <2>1, <2>2, StoredKeeps DEF FetchByte
<1>2. CASE GiveUp
  <2>1. Junk \in Bytes
    BY BusAssumption DEF Junk, Bytes
  <2> QED
    BY <1>2, <2>1, StoredKeeps DEF GiveUp, IInv, TypeOK, WordsOK
<1> QED
  BY <1>1, <1>2 DEF Step

(* What the controller and the device do in the time of a word.            *)
LEMMA BusMoves ==
  ASSUME IInv, Deliver \/ TakeAddress \/ TakeWord \/ Stall \/ Rest
  PROVE  /\ iic' \in IicType /\ Len(iic'.tx) <= Depth /\ Len(iic'.rx) <= Depth
         /\ imu' \in [follows : BOOLEAN, next : Bytes]
         /\ trouble' \in [stalled : BOOLEAN, nack : BOOLEAN]
<1> USE DEF IInv, TypeOK, WordsOK, IicType
<1>1. CASE Deliver
  <2>1. imu.next \in Bytes /\ [imu.next EXCEPT ![2] = @ + 1] \in Bytes
    <3>1. imu.next \in Bytes
      OBVIOUS
    <3>2. PICK a \in 0 .. MaxOps, b \in Nat : imu.next = <<a, b>>
      BY <3>1 DEF Bytes
    <3>3. [<<a, b>> EXCEPT ![2] = @ + 1] = <<a, b + 1>>
      OBVIOUS
    <3> QED
      BY <3>1, <3>2, <3>3 DEF Bytes
  <2>2. CASE Len(iic.rx) < Depth
    <3>1. Append(iic.rx, imu.next) \in Seq(Bytes)
          /\ Len(Append(iic.rx, imu.next)) <= Depth
      BY <2>1, <2>2, BusAssumption
    <3>2. iic' = [iic EXCEPT !.rx = Append(@, imu.next), !.owes = @ - 1]
          /\ trouble' = trouble /\ iic.owes - 1 \in Nat
      BY <1>1, <2>2 DEF Deliver
    <3>3. imu' = [imu EXCEPT !.next[2] = @ + 1]
      BY <1>1, <2>2 DEF Deliver
    <3>4. imu' \in [follows : BOOLEAN, next : Bytes]
      BY <2>1, <3>3
    <3>5. iic' \in IicType /\ iic'.tx = iic.tx
          /\ iic'.rx = Append(iic.rx, imu.next)
      BY <3>1, <3>2
    <3> QED
      BY <3>1, <3>2, <3>4, <3>5
  <2>3. CASE ~(Len(iic.rx) < Depth)
    BY <1>1, <2>3 DEF Deliver
  <2> QED
    BY <2>2, <2>3
<1>2. CASE TakeAddress
  <2>1. Tail(iic.tx) \in Seq(Words) /\ Len(Tail(iic.tx)) <= Depth
    BY <1>2, Ends, BusAssumption DEF TakeAddress
  <2> QED
    BY <1>2, <2>1 DEF TakeAddress
<1>3. CASE TakeWord
  <2>1. /\ Tail(iic.tx) \in Seq(Words) /\ Len(Tail(iic.tx)) <= Depth
        /\ Head(iic.tx) \in Words
    BY <1>3, Ends, BusAssumption DEF TakeWord
  <2>2. Head(iic.tx).n \in Nat
        /\ (Head(iic.tx).kind = "reg" => <<Head(iic.tx).n, 1>> \in Bytes)
    BY <2>1 DEF Words, Bytes
  <2> QED
    BY <1>3, <2>1, <2>2 DEF TakeWord
<1>4. CASE Stall \/ Rest
  BY <1>4 DEF Stall, Rest
<1> QED
  BY <1>1, <1>2, <1>3, <1>4

LEMMA PassKeeps ==
  ASSUME IInv, Pass PROVE IInv'
<1>1. wait' \in Nat
  BY DEF Pass, IInv, TypeOK
<1>2. timer' \in [armed : BOOLEAN, since : 0 .. Gap]
  <2>1. (IF timer.armed /\ timer.since < Gap THEN timer.since + 1 ELSE timer.since)
          \in 0 .. Gap
    BY BusAssumption DEF IInv, TypeOK
  <2> QED
    BY <2>1 DEF Pass, IInv, TypeOK
<1> QED
  BY <1>1, <1>2, BusMoves DEF Pass, program, IInv, TypeOK, WordsOK, IicType, Bytes

LEMMA StepHolds == IInv /\ [Next]_vars => IInv'
<1> SUFFICES ASSUME IInv, [Next]_vars PROVE IInv'
  OBVIOUS
<1>1. CASE Start
  <2>1. <<>> \in Seq(Words) /\ <<>> \in Seq(Bytes) /\ Len(<<>>) <= Depth
    BY BusAssumption
  <2> QED
    BY <1>1, <2>1 DEF Start, IInv, TypeOK, WordsOK, IicType, Bytes
<1>2. CASE Die
  BY <1>2, BusAssumption DEF Die, IInv, TypeOK, WordsOK, Bytes
<1>3. CASE ArmTimer
  BY <1>3 DEF ArmTimer, program, IInv, TypeOK, WordsOK, Bytes
<1>4. CASE Step
  BY <1>4, SendKeeps, AwakeKeeps, FetchKeeps
<1>5. CASE Pass
  BY <1>5, PassKeeps
<1>6. ASSUME NEW n \in ReadLens, ReadReg(n) PROVE IInv'
  BY <1>6, ReadKeeps
<1>7. ASSUME NEW n \in WriteLens, WriteReg(n) PROVE IInv'
  BY <1>7, WriteKeeps
<1>8. CASE UNCHANGED vars
  BY <1>8 DEF vars, program, IInv, TypeOK, WordsOK, IicType, Bytes
<1> QED
  BY <1>1, <1>2, <1>3, <1>4, <1>5, <1>6, <1>7, <1>8 DEF Next

(* The inductive invariant of the port, the controller and the device.     *)
THEOREM InvariantHolds == Spec => []IInv
<1>1. Init => IInv
  BY InitHolds
<1>2. IInv /\ [Next]_vars => IInv'
  BY StepHolds
<1> QED
  BY <1>1, <1>2, PTL DEF Spec

(* Whatever the program, the timer, the bus and the device do, neither FIFO*)
(* holds more than its depth, and there is something to fetch whenever the *)
(* loop of bmi270_read_reg looks at the status.                            *)
THEOREM TypeCorrect == Spec => []TypeOK
<1>1. IInv => TypeOK
  BY DEF IInv
<1> QED
  BY <1>1, InvariantHolds, PTL
-----------------------------------------------------------------------------
(* The depth of the FIFOs, the 1000 looks at the status and the period of  *)
(* the timer, in words of the bus, that a read needs.                      *)
InTime == Depth >= 2 /\ PollTime >= 2 /\ Gap >= 3

LEMMA WordFacts ==
  ASSUME NEW o, NEW n
  PROVE  /\ ReadWord(o, n, 1) = Address("write")
         /\ ReadWord(o, n, 2) = [kind |-> "reg", n |-> o]
         /\ ReadWord(o, n, 3) = Address("read")
         /\ ReadWord(o, n, 4) = StopAfter(n)
BY DEF ReadWord

LEMMA Places ==
  ASSUME NEW S, NEW s \in Seq(S)
  PROVE  /\ DOMAIN s = 1 .. Len(s) /\ Len(s) \in Nat
         /\ s = <<>> <=> Len(s) = 0
         /\ s # <<>> => /\ Head(s) = s[1]
                        /\ \A i \in 1 .. Len(s) - 1 : Tail(s)[i] = s[i + 1]
OBVIOUS

LEMMA Tails ==
  ASSUME NEW S, NEW s \in Seq(S), s # <<>>
  PROVE  /\ \A i \in DOMAIN Tail(s) :
               i \in Nat /\ i + 1 \in DOMAIN s /\ Tail(s)[i] = s[i + 1]
         /\ Len(s) = 1 => Tail(s) = <<>>
<1>1. Tail(s) \in Seq(S) /\ Len(Tail(s)) = Len(s) - 1
  BY Ends
<1>2. \A i \in 1 .. Len(s) - 1 : Tail(s)[i] = s[i + 1]
  OBVIOUS
<1>3. DOMAIN Tail(s) = 1 .. Len(s) - 1 /\ DOMAIN s = 1 .. Len(s) /\ Len(s) \in Nat
  BY <1>1
<1>4. Len(s) = 1 => Tail(s) = <<>>
  <2>1. Len(s) = 1 => Len(Tail(s)) = 0
    BY <1>1
  <2>2. PICK t : t = Tail(s)
    OBVIOUS
  <2>3. t \in Seq(S)
    BY <1>1, <2>2
  <2>4. Len(t) = 0 => t = <<>>
    BY <2>3
  <2> QED
    BY <2>1, <2>2, <2>4
<1> QED
  BY <1>2, <1>3, <1>4

(* The types of what the bus carries, as the lemmas below need them.       *)
LEMMA Typed ==
  ASSUME IInv
  PROVE  /\ todo \in Seq(Words) /\ iic.tx \in Seq(Words) /\ iic.rx \in Seq(Bytes)
         /\ iic \in IicType /\ iic.owes \in Nat /\ left \in Nat /\ wait \in Nat
         /\ data \in Seq(Bytes) /\ op \in Nat /\ imu.follows \in BOOLEAN
         /\ timer.since \in 0 .. Gap /\ Gap \in Nat /\ Depth \in Nat
         /\ PollTime \in Nat /\ (pc = "send" => todo # <<>>)
<1>1. op \in Nat
  BY BusAssumption DEF IInv, TypeOK
<1> QED
  BY <1>1, BusAssumption DEF IInv, TypeOK, WordsOK, IicType

LEMMA Lengths ==
  ASSUME IInv
  PROVE  /\ Unsent \in Nat /\ Backlog \in Nat /\ Stock \in Nat /\ Got \in Nat
         /\ Sent = 4 - Unsent /\ Taken = Sent - Backlog
         /\ DOMAIN todo = 1 .. Unsent /\ DOMAIN iic.tx = 1 .. Backlog
         /\ DOMAIN iic.rx = 1 .. Stock /\ DOMAIN data = 1 .. Got
         /\ (todo = <<>> <=> Unsent = 0) /\ (iic.tx = <<>> <=> Backlog = 0)
         /\ (iic.rx = <<>> <=> Stock = 0) /\ (data = <<>> <=> Got = 0)
BY Typed DEF Unsent, Backlog, Stock, Got, Sent, Taken

LEMMA InitTransfers == Init => BytesInv
BY InitHolds DEF Init, BytesInv, OffOK, TransferOK, IdleOK, WriteOK, OrderOK,
   BytesOK, BacklogOK, Reading, Writing, OwnBytes

LEMMA StartTransfers ==
  ASSUME BytesInv, Start \/ Die \/ ArmTimer \/ UNCHANGED vars
  PROVE  OffOK' /\ TransferOK' /\ OwnBytes'
<1> USE DEF BytesInv, OffOK, TransferOK, OwnBytes
<1>1. CASE Start
  <2>1. IdleOK' /\ ~Reading' /\ ~Writing' /\ data' = <<>>
    BY <1>1 DEF Start, IdleOK, Reading, Writing
  <2> QED
    BY <1>1, <2>1 DEF Start, WriteOK, OrderOK, BytesOK, BacklogOK
<1>2. CASE Die
  <2>1. IdleOK' /\ ~Reading' /\ ~Writing' /\ data' = <<>>
    BY <1>2 DEF Die, IdleOK, Reading, Writing
  <2> QED
    BY <2>1 DEF WriteOK, OrderOK, BytesOK, BacklogOK
<1>3. CASE ArmTimer
  <2>1. ~Reading' /\ ~Writing' /\ (~trouble.stalled => IdleOK')
    BY <1>3 DEF ArmTimer, program, IdleOK, Reading, Writing
  <2> QED
    BY <1>3, <2>1 DEF ArmTimer, program, WriteOK, OrderOK, BytesOK, BacklogOK
<1>4. CASE UNCHANGED vars
  <2>1. /\ UNCHANGED <<pc, op, todo, left, data, wait, iic, imu, timer, trouble>>
        /\ Reading' = Reading /\ Writing' = Writing /\ Sent' = Sent /\ Taken' = Taken
        /\ Unsent' = Unsent /\ Backlog' = Backlog /\ Stock' = Stock /\ Got' = Got
    BY <1>4 DEF vars, program, Reading, Writing, Unsent, Backlog, Stock, Got,
       Sent, Taken
  <2>2. (IdleOK => IdleOK') /\ (WriteOK => WriteOK')
    BY <2>1 DEF IdleOK, WriteOK
  <2>3. OrderOK => OrderOK'
    BY <2>1 DEF OrderOK
  <2>4. (BytesOK => BytesOK') /\ (BacklogOK => BacklogOK')
    BY <2>1 DEF BytesOK, BacklogOK
  <2> QED
    BY <2>1, <2>2, <2>3, <2>4
<1> QED
  BY <1>1, <1>2, <1>3, <1>4

LEMMA ReadTransfers ==
  ASSUME BytesInv, NEW n \in ReadLens, ReadReg(n)
  PROVE  OffOK' /\ TransferOK' /\ OwnBytes'
<1> USE DEF BytesInv, OffOK, TransferOK, OwnBytes
<1>1. /\ pc = "idle" /\ pc' = "send" /\ op' = op + 1 /\ left' = n /\ data' = <<>>
      /\ todo' = <<Address("write"), Register, Address("read"), StopAfter(n)>>
      /\ UNCHANGED <<wait, iic, imu, timer>> /\ n > 0
      /\ trouble'.stalled = trouble.stalled
  BY BusAssumption DEF ReadReg, Begin, IInv, TypeOK
<1>2. SUFFICES ASSUME ~trouble.stalled
               PROVE  IdleOK' /\ WriteOK' /\ OrderOK' /\ BytesOK' /\ BacklogOK'
  BY <1>1
<1>3. iic'.tx = <<>> /\ iic'.rx = <<>> /\ iic'.owes = 0
  BY <1>1, <1>2 DEF IdleOK
<1>4. Unsent' = 4 /\ Backlog' = 0 /\ Sent' = 0 /\ Taken' = 0
  BY <1>1, <1>3 DEF Unsent, Backlog, Sent, Taken
<1>5. \A i \in DOMAIN todo' : todo'[i] = ReadWord(op', n, Sent' + i)
  BY <1>1, <1>4, WordFacts DEF Register
<1>6. OrderOK'
  BY <1>1, <1>3, <1>4, <1>5 DEF OrderOK
<1>7. IdleOK' /\ WriteOK' /\ BytesOK' /\ BacklogOK'
  BY <1>1, <1>3, <1>4 DEF IdleOK, WriteOK, Writing, BytesOK, BacklogOK
<1> QED
  BY <1>6, <1>7

LEMMA WriteTransfers ==
  ASSUME BytesInv, NEW n \in WriteLens, WriteReg(n)
  PROVE  OffOK' /\ TransferOK' /\ OwnBytes'
<1> USE DEF BytesInv, OffOK, TransferOK, OwnBytes
<1> DEFINE words == <<Address("write"), Register>>
                      \o [i \in 1 .. n |-> IF i = n THEN LastByte ELSE Byte]
<1>1. /\ pc = "idle" /\ pc' = "send" /\ left' = 0 /\ data' = <<>> /\ todo' = words
      /\ UNCHANGED <<wait, iic, imu, timer>> /\ ~timer.armed
      /\ trouble'.stalled = trouble.stalled /\ n \in Nat
  BY BusAssumption DEF WriteReg, Begin, IInv, TypeOK
<1>2. SUFFICES ASSUME ~trouble.stalled
               PROVE  IdleOK' /\ WriteOK' /\ OrderOK' /\ BytesOK' /\ BacklogOK'
  BY <1>1
<1>3. iic'.tx = <<>> /\ iic'.rx = <<>> /\ iic'.owes = 0
  BY <1>1, <1>2 DEF IdleOK
<1>4. \A i \in DOMAIN words : words[i].kind # "stop"
  BY <1>1 DEF Address, Register, LastByte, Byte
<1> HIDE DEF words
<1>5. WriteOK'
  BY <1>1, <1>3, <1>4 DEF WriteOK, Backlog
<1> QED
  BY <1>1, <1>5 DEF IdleOK, OrderOK, BytesOK, BacklogOK, Reading

LEMMA SendTransfers ==
  ASSUME InTime, BytesInv, Send
  PROVE  OffOK' /\ TransferOK' /\ OwnBytes'
<1> USE DEF BytesInv, OffOK, TransferOK, OwnBytes
<1>1. /\ pc = "send" /\ pc' = "delay" /\ todo # <<>>
      /\ iic' = [iic EXCEPT !.tx = Written(@, Head(todo))]
      /\ wait' = Delay(Head(todo)) /\ todo' = Tail(todo)
      /\ UNCHANGED <<op, left, data, imu, timer, trouble>>
  BY Typed DEF Send
<1>2. SUFFICES ASSUME ~trouble.stalled
               PROVE  IdleOK' /\ WriteOK' /\ OrderOK' /\ BytesOK' /\ BacklogOK'
  BY <1>1
<1>3. Backlog <= 1 /\ Unsent > 0 /\ Backlog \in Nat /\ Unsent \in Nat
  BY <1>1, <1>2, Typed, Lengths DEF WriteOK, BacklogOK, Reading, Writing
<1>4. /\ iic'.tx = Append(iic.tx, todo[1])
      /\ iic'.rx = iic.rx /\ iic'.owes = iic.owes
  <2>1. Len(iic.tx) < Depth
    BY <1>3, Typed DEF InTime, Backlog
  <2> QED
    BY <1>1, <2>1, Typed, Places DEF Written, IicType
<1>5. Unsent' = Unsent - 1 /\ Backlog' = Backlog + 1 /\ Stock' = Stock /\ Got' = Got
  BY <1>1, <1>4, Typed, Ends DEF Unsent, Backlog, Stock, Got
<1>6. /\ Sent' = Sent + 1 /\ Taken' = Taken /\ Sent \in Int /\ Taken \in Int
      /\ Sent < 4 /\ (Unsent <= 4 => Sent >= 0)
  BY <1>3, <1>5 DEF Sent, Taken
<1>7. \A i \in DOMAIN todo' : i + 1 \in DOMAIN todo /\ todo'[i] = todo[i + 1] /\ i \in Nat
  BY <1>1, Typed, Tails
<1>8. \A i \in DOMAIN iic'.tx :
        \/ i \in DOMAIN iic.tx /\ iic'.tx[i] = iic.tx[i]
        \/ i = Backlog + 1 /\ iic'.tx[i] = todo[1]
  BY <1>4, Typed, Places DEF Backlog
<1>9. 1 \in DOMAIN todo
  BY <1>3, Lengths
<1>10. WriteOK'
  <2>1. Writing => wait' > 0 /\ Backlog' <= wait'
    BY <1>1, <1>2, <1>3, <1>5 DEF WriteOK, Writing, Delay
  <2> QED
    BY <1>1, <1>2, <1>4, <1>7, <1>8, <1>9, <2>1 DEF WriteOK, Writing
<1>11. CASE Reading
  <2>1. todo[1] = ReadWord(op, left, Sent + 1) /\ data = <<>>
    BY <1>1, <1>2, <1>9, <1>11 DEF OrderOK
  <2>2. \A i \in DOMAIN todo' : todo'[i] = ReadWord(op', left', Sent' + i)
    <3> TAKE i \in DOMAIN todo'
    <3>1. todo'[i] = ReadWord(op, left, Sent + (i + 1))
      BY <1>2, <1>7, <1>11 DEF OrderOK
    <3>2. Sent + (i + 1) = Sent' + i
      BY <1>6, <1>7
    <3> QED
      BY <1>1, <3>1, <3>2
  <2>3. \A i \in DOMAIN iic'.tx : iic'.tx[i] = ReadWord(op', left', Taken' + i)
    <3> TAKE i \in DOMAIN iic'.tx
    <3>1. CASE i \in DOMAIN iic.tx /\ iic'.tx[i] = iic.tx[i]
      BY <1>1, <1>2, <1>6, <1>11, <3>1 DEF OrderOK
    <3>2. CASE i = Backlog + 1 /\ iic'.tx[i] = todo[1]
      <4>1. Taken' + i = Sent + 1
        BY <1>3, <1>6, <3>2 DEF Taken
      <4> QED
        BY <1>1, <2>1, <3>2, <4>1
    <3> QED
      BY <1>8, <3>1, <3>2
  <2>4. OrderOK'
    BY <1>1, <1>2, <1>3, <1>4, <1>5, <1>6, <1>11, <2>1, <2>2, <2>3 DEF OrderOK
  <2>5. BytesOK'
    BY <1>1, <1>2, <1>4, <1>5, <1>6, <1>11 DEF BytesOK
  <2>6. Sent + 1 \in 1 .. 4
    BY <1>2, <1>6, <1>11 DEF OrderOK
  <2>7. wait' = 1
    <3>1. todo[1].kind # "last"
      BY <2>1, <2>6, WordFacts DEF Address, StopAfter
    <3> QED
      BY <1>1, <3>1, Typed, Places DEF Delay
  <2>8. timer.since \in Nat
    BY Typed
  <2>9. BacklogOK'
    BY <1>1, <1>2, <1>3, <1>5, <1>6, <1>11, <2>6, <2>7, <2>8 DEF BacklogOK
  <2> QED
    BY <1>1, <1>10, <2>4, <2>5, <2>9 DEF IdleOK
<1>12. CASE ~Reading
  BY <1>1, <1>10, <1>12 DEF IdleOK, OrderOK, BytesOK, BacklogOK, Reading
<1> QED
  BY <1>11, <1>12

LEMMA AwakeTransfers ==
  ASSUME InTime, BytesInv, Awake
  PROVE  OffOK' /\ TransferOK' /\ OwnBytes'
<1> USE DEF BytesInv, OffOK, TransferOK, OwnBytes
<1>1. /\ pc = "delay" /\ pc' \in {"send", "idle", "fetch"}
      /\ UNCHANGED <<op, todo, left, data, iic, imu, trouble>>
      /\ UNCHANGED <<Unsent, Backlog, Stock, Got, Sent, Taken>>
  BY DEF Awake, Onward, Unsent, Backlog, Stock, Got, Sent, Taken
<1>2. SUFFICES ASSUME ~trouble.stalled
               PROVE  IdleOK' /\ WriteOK' /\ OrderOK' /\ BytesOK' /\ BacklogOK'
  BY <1>1
<1>3. /\ Backlog \in Nat /\ Unsent \in Nat /\ Sent = 4 - Unsent
      /\ timer.since \in Nat /\ wait \in Nat /\ Gap >= 3
      /\ (todo = <<>> <=> Unsent = 0) /\ left \in Nat /\ PollTime \in Nat
  BY Lengths, Typed DEF InTime
<1>4. /\ pc' = "send" => todo # <<>>
      /\ pc' = "idle" => todo = <<>> /\ left = 0
      /\ pc' = "fetch" => todo = <<>> /\ left > 0 /\ wait' = PollTime
  BY <1>3 DEF Awake, Onward
<1>5. \/ wait = 0 /\ timer' = timer
      \/ timer.armed /\ timer.since = Gap /\ timer'.armed /\ timer'.since = 0
  BY DEF Awake, IInv, TypeOK
<1>6. CASE Writing
  <2>1. wait = 0 /\ timer' = timer /\ Backlog = 0 /\ ~timer.armed
    BY <1>1, <1>2, <1>3, <1>5, <1>6 DEF WriteOK
  <2>2. iic.tx = <<>> /\ iic.rx = <<>> /\ iic.owes = 0
    BY <1>2, <1>6, <2>1, Lengths DEF WriteOK
  <2>3. IdleOK'
    BY <1>1, <2>2, Typed DEF IdleOK, IicType
  <2>4. WriteOK'
    BY <1>1, <1>2, <1>6, <2>1 DEF WriteOK, Writing
  <2>5. ~Reading'
    BY <1>1, <1>6 DEF Reading, Writing
  <2> QED
    BY <2>3, <2>4, <2>5 DEF OrderOK, BytesOK, BacklogOK
<1>7. CASE Reading
  <2>1. ~Writing' /\ pc' # "idle"
    BY <1>1, <1>4, <1>7 DEF Writing, Reading
  <2>2. OrderOK'
    BY <1>1, <1>2, <1>4, <1>7 DEF OrderOK
  <2>3. BytesOK'
    BY <1>1, <1>2, <1>7 DEF BytesOK
  <2>4. /\ wait <= 1 /\ Backlog <= wait + 1 /\ Sent > 0 /\ Sent <= 4
        /\ Backlog = wait + 1 => timer.armed /\ timer.since + wait < Sent
    BY <1>1, <1>2, <1>3, <1>7 DEF BacklogOK
  <2>5. Backlog <= 1 /\ (Unsent > 0 /\ Backlog = 1 => timer'.armed /\ timer'.since < Sent)
    <3>1. CASE wait = 0 /\ timer' = timer
      BY <1>3, <2>4, <3>1
    <3>2. CASE timer.armed /\ timer.since = Gap /\ timer'.armed /\ timer'.since = 0
      BY <1>3, <2>4, <3>2
    <3> QED
      BY <1>5, <3>1, <3>2
  <2>6. pc' = "fetch" => wait' >= 2
    BY <1>3, <1>4 DEF InTime
  <2>7. BacklogOK'
    BY <1>1, <1>3, <1>4, <2>5, <2>6 DEF BacklogOK
  <2> QED
    BY <2>1, <2>2, <2>3, <2>7 DEF IdleOK, WriteOK
<1> QED
  BY <1>1, <1>3, <1>6, <1>7 DEF Reading, Writing

LEMMA FetchTransfers ==
  ASSUME InTime, BytesInv, FetchByte
  PROVE  OffOK' /\ TransferOK' /\ OwnBytes'
<1> USE DEF BytesInv, OffOK, TransferOK, OwnBytes
<1>1. /\ pc = "fetch" /\ iic.rx # <<>> /\ left > 0 /\ left \in Nat
      /\ data' = Append(data, Head(iic.rx)) /\ left' = left - 1 /\ wait' = PollTime
      /\ pc' = Onward(left - 1) /\ iic' = [iic EXCEPT !.rx = Tail(@)]
      /\ UNCHANGED <<op, todo, imu, timer, trouble>>
  BY Typed DEF FetchByte, Stored, IInv, WordsOK
<1>2. SUFFICES ASSUME ~trouble.stalled
               PROVE  /\ IdleOK' /\ WriteOK' /\ OrderOK' /\ BytesOK' /\ BacklogOK'
                      /\ OwnBytes'
  BY <1>1 DEF Onward
<1>3. iic'.tx = iic.tx /\ iic'.rx = Tail(iic.rx) /\ iic'.owes = iic.owes
  BY <1>1, Typed DEF IicType
<1>4. Reading /\ ~Writing' /\ (Reading' => pc' = "fetch")
  BY <1>1 DEF Reading, Writing, Onward
<1>5. /\ Unsent' = Unsent /\ Backlog' = Backlog /\ Sent' = Sent /\ Taken' = Taken
      /\ Stock' = Stock - 1 /\ Got' = Got + 1
  BY <1>1, <1>3, Typed, Ends DEF Unsent, Backlog, Stock, Got, Sent, Taken
<1>6. /\ Unsent = 0 /\ Backlog \in Nat /\ Stock \in Nat /\ Got \in Nat
      /\ Stock > 0 /\ Taken = 4 - Backlog
  BY <1>1, <1>2, <1>4, Lengths DEF OrderOK
<1>7. Taken = 4 /\ Backlog = 0 /\ iic.tx = <<>> /\ todo = <<>>
  BY <1>1, <1>2, <1>4, <1>6, Lengths DEF OrderOK
<1>8. imu.follows /\ iic.owes + Stock = left /\ iic.owes \in Nat
  BY <1>2, <1>4, <1>6, <1>7, Typed DEF BytesOK
<1>9. IdleOK'
  <2>1. pc' = "idle" => left = 1
    BY <1>1 DEF Onward
  <2>2. pc' = "idle" => iic.owes = 0 /\ Stock = 1
    BY <1>6, <1>8, <2>1
  <2>3. pc' = "idle" => Tail(iic.rx) = <<>>
    BY <1>1, <2>2, Typed, Tails DEF Stock
  <2> QED
    BY <1>1, <1>3, <1>7, <2>2, <2>3, Typed DEF IdleOK, IicType
<1>10. OrderOK'
  BY <1>1, <1>3, <1>4, <1>5, <1>6, <1>7 DEF OrderOK
<1>11. \A i \in DOMAIN iic'.rx : i \in Nat /\ iic'.rx[i] = iic.rx[i + 1]
                                 /\ i + 1 \in DOMAIN iic.rx
  BY <1>1, <1>3, Typed, Tails
<1>12. BytesOK'
  <2>1. iic'.owes + Stock' = left'
    BY <1>1, <1>3, <1>5, <1>6, <1>8
  <2>2. ASSUME ~trouble.nack
        PROVE  /\ imu.next = <<op, Got' + Stock' + 1>>
               /\ \A i \in DOMAIN iic'.rx : iic'.rx[i] = <<op, Got' + i>>
    <3>1. imu.next = <<op, Got + Stock + 1>> /\ Got' + Stock' + 1 = Got + Stock + 1
      BY <1>2, <1>4, <1>5, <1>6, <1>7, <2>2 DEF BytesOK
    <3>2. \A i \in DOMAIN iic'.rx : iic'.rx[i] = <<op, Got + (i + 1)>>
      BY <1>2, <1>4, <1>11, <2>2 DEF BytesOK
    <3>3. \A i \in DOMAIN iic'.rx : Got + (i + 1) = Got' + i
      BY <1>5, <1>6, <1>11
    <3> QED
      BY <3>1, <3>2, <3>3
  <2> QED
    BY <1>1, <1>8, <2>1, <2>2 DEF BytesOK
<1>13. BacklogOK'
  BY <1>1, <1>4, <1>5, <1>7, Typed DEF BacklogOK, InTime
<1>14. OwnBytes'
  <2> SUFFICES ASSUME ~trouble.nack, NEW i \in DOMAIN data'
               PROVE  data'[i] = <<op, i>>
    BY <1>1
  <2>1. \/ i \in DOMAIN data /\ data'[i] = data[i]
        \/ i = Got + 1 /\ data'[i] = Head(iic.rx)
    BY <1>1, Typed, Ends, Places DEF Got
  <2>2. Head(iic.rx) = <<op, Got + 1>>
    <3>1. 1 \in DOMAIN iic.rx /\ Head(iic.rx) = iic.rx[1]
      BY <1>1, <1>6, Typed, Lengths, Places
    <3> QED
      BY <1>2, <1>4, <3>1 DEF BytesOK
  <2> QED
    BY <1>2, <2>1, <2>2
<1> QED
  BY <1>4, <1>9, <1>10, <1>12, <1>13, <1>14 DEF WriteOK

(* The looks at the status are used up only if the device did not answer.  *)
LEMMA GiveUpTransfers ==
  ASSUME BytesInv, GiveUp
  PROVE  OffOK' /\ TransferOK' /\ OwnBytes'
<1> USE DEF BytesInv, OffOK, TransferOK, OwnBytes
<1>1. /\ pc = "fetch" /\ iic.rx = <<>> /\ wait = 0 /\ left > 0 /\ left \in Nat
      /\ left' = left - 1 /\ pc' = Onward(left - 1)
      /\ UNCHANGED <<op, todo, imu, timer, trouble, iic>>
      /\ UNCHANGED <<Unsent, Backlog, Stock, Sent, Taken>>
  BY Typed DEF GiveUp, Stored, IInv, WordsOK, Unsent, Backlog, Stock, Sent, Taken
<1>2. SUFFICES ASSUME ~trouble.stalled
               PROVE  /\ IdleOK' /\ WriteOK' /\ OrderOK' /\ BytesOK' /\ BacklogOK'
                      /\ trouble.nack
  BY <1>1 DEF Onward
<1>3. Reading /\ ~Writing' /\ (Reading' => pc' = "fetch")
  BY <1>1 DEF Reading, Writing, Onward
<1>4. /\ Unsent = 0 /\ Backlog \in Nat /\ Stock = 0 /\ Taken = 4 - Backlog
      /\ iic.owes \in Nat
  BY <1>1, <1>2, <1>3, Lengths, Typed DEF OrderOK
<1>5. Backlog = 0 /\ iic.owes = 0 /\ Taken = 4
  BY <1>1, <1>2, <1>3, <1>4 DEF BacklogOK
<1>6. iic.tx = <<>> /\ todo = <<>>
  BY <1>4, <1>5, Lengths
<1>7. ~imu.follows /\ trouble.nack
  BY <1>1, <1>2, <1>3, <1>4, <1>5, Typed DEF BytesOK
<1>8. IdleOK'
  BY <1>1, <1>5, <1>6, Typed DEF IdleOK, IicType
<1>9. OrderOK'
  BY <1>1, <1>3, <1>4, <1>5, <1>6 DEF OrderOK
<1>10. BytesOK' /\ BacklogOK'
  BY <1>1, <1>3, <1>4, <1>5, <1>7 DEF BytesOK, BacklogOK
<1> QED
  BY <1>3, <1>7, <1>8, <1>9, <1>10 DEF WriteOK

(* What a word's time leaves alone, and what it does to the clocks.        *)
LEMMA PassClocks ==
  ASSUME IInv, Pass
  PROVE  /\ UNCHANGED <<pc, op, todo, left, data, Unsent, Sent, Got>>
         /\ wait' = IF wait > 0 THEN wait - 1 ELSE 0
         /\ timer'.armed = timer.armed /\ timer'.since <= timer.since + 1
         /\ timer'.since \in Nat
<1>1. UNCHANGED <<pc, op, todo, left, data, Unsent, Sent, Got>>
  BY DEF Pass, program, Unsent, Sent, Got
<1>2. timer' = [timer EXCEPT !.since = IF timer.armed /\ @ < Gap THEN @ + 1 ELSE @]
      /\ timer.since \in Nat /\ timer \in [armed : BOOLEAN, since : 0 .. Gap]
  BY Typed DEF Pass, IInv, TypeOK
<1> QED
  BY <1>1, <1>2 DEF Pass

(* A word that is taken, in any transaction.                               *)
LEMMA Taking ==
  ASSUME IInv, TakeAddress \/ TakeWord
  PROVE  /\ iic'.tx = Tail(iic.tx) /\ iic'.rx = iic.rx
         /\ iic.owes = 0 /\ iic.tx # <<>> /\ Head(iic.tx) = iic.tx[1]
         /\ 1 \in DOMAIN iic.tx /\ Backlog > 0 /\ Backlog' = Backlog - 1
         /\ Stock' = Stock /\ trouble'.stalled = trouble.stalled
         /\ \A i \in DOMAIN iic'.tx :
              i \in Nat /\ i + 1 \in DOMAIN iic.tx /\ iic'.tx[i] = iic.tx[i + 1]
<1>1. iic'.tx = Tail(iic.tx) /\ iic'.rx = iic.rx /\ iic.owes = 0 /\ iic.tx # <<>>
  BY Typed DEF TakeAddress, TakeWord, IicType
<1>2. trouble'.stalled = trouble.stalled
  BY DEF TakeAddress, TakeWord, IInv, TypeOK
<1>3. Head(iic.tx) = iic.tx[1] /\ 1 \in DOMAIN iic.tx /\ Backlog > 0
  BY <1>1, Typed, Lengths, Places
<1>4. Backlog' = Backlog - 1 /\ Stock' = Stock
  BY <1>1, Typed, Ends DEF Backlog, Stock
<1>5. \A i \in DOMAIN iic'.tx :
        i \in Nat /\ i + 1 \in DOMAIN iic.tx /\ iic'.tx[i] = iic.tx[i + 1]
  BY <1>1, Typed, Tails
<1> QED
  BY <1>1, <1>2, <1>3, <1>4, <1>5

LEMMA PassWrites ==
  ASSUME BytesInv, Pass, ~trouble'.stalled, Writing
  PROVE  TransferOK'
<1> USE DEF BytesInv, TransferOK
<1>1. /\ UNCHANGED <<pc, op, todo, left, data>> /\ timer'.armed = timer.armed
      /\ wait' = IF wait > 0 THEN wait - 1 ELSE 0
      /\ wait \in Nat /\ Backlog \in Nat
  BY PassClocks, Typed, Lengths
<1>2. ~Reading' /\ pc' # "idle"
  BY <1>1 DEF Reading, Writing
<1>3. CASE Stall
  BY <1>3 DEF Stall, IInv, TypeOK
<1>4. CASE Rest
  <2>1. Backlog = 0 /\ Backlog' = 0 /\ UNCHANGED <<iic, trouble>>
    BY <1>4, Lengths DEF Rest, Backlog
  <2>2. WriteOK'
    BY <1>1, <2>1 DEF WriteOK, Writing
  <2> QED
    BY <1>2, <2>2 DEF IdleOK, OrderOK, BytesOK, BacklogOK
<1>5. CASE TakeAddress \/ TakeWord
  <2>1. Backlog <= (IF pc = "send" THEN 0 ELSE wait) /\ iic.tx[1].kind # "stop"
    BY <1>5, Taking DEF WriteOK
  <2>2. Backlog' <= IF pc' = "send" THEN 0 ELSE wait'
    BY <1>1, <1>5, <2>1, Taking
  <2>3. iic'.owes = 0
    BY <1>5, <2>1, Taking, Typed DEF TakeAddress, TakeWord, IicType
  <2>4. WriteOK'
    BY <1>1, <1>5, <2>2, <2>3, Taking DEF WriteOK, Writing
  <2> QED
    BY <1>2, <2>4 DEF IdleOK, OrderOK, BytesOK, BacklogOK
<1>6. CASE Deliver
  <2>1. ~trouble.stalled /\ iic.owes > 0
    BY <1>6 DEF Deliver
  <2> QED
    BY <2>1 DEF WriteOK
<1> QED
  BY <1>3, <1>4, <1>5, <1>6 DEF Pass

LEMMA TakeReads ==
  ASSUME BytesInv, Pass, ~trouble'.stalled, Reading, TakeAddress \/ TakeWord
  PROVE  OrderOK' /\ BytesOK' /\ BacklogOK'
<1> USE DEF BytesInv, TransferOK
<1>1. /\ UNCHANGED <<pc, op, todo, left, data, Unsent, Sent, Got>>
      /\ Reading' = Reading /\ left \in Nat /\ wait \in Nat /\ timer.since \in Nat
      /\ ~trouble.stalled
  BY PassClocks, Taking, Typed DEF Reading
<1>2. /\ Backlog \in Nat /\ Stock \in Nat /\ Got \in Nat /\ Unsent \in Nat
      /\ Taken = Sent - Backlog /\ Sent = 4 - Unsent
      /\ Backlog > 0 /\ Backlog' = Backlog - 1 /\ Stock' = Stock
  BY Lengths, Taking
<1>3. Taken' = Taken + 1 /\ Taken \in 0 .. 3 /\ Taken' \in 1 .. 4
  <2>1. Taken' = Sent' - Backlog'
    BY DEF Taken
  <2> QED
    BY <1>1, <1>2, <2>1 DEF OrderOK
<1>4. iic.owes = 0 /\ iic.rx = <<>> /\ data = <<>> /\ Stock = 0 /\ Got = 0
  BY <1>1, <1>3, Lengths DEF OrderOK
<1>5. Head(iic.tx) = ReadWord(op, left, Taken + 1)
  BY <1>1, Taking DEF OrderOK
<1>6. \A i \in DOMAIN iic'.tx : iic'.tx[i] = ReadWord(op', left', Taken' + i)
  <2> TAKE i \in DOMAIN iic'.tx
  <2>1. i \in Nat /\ iic'.tx[i] = ReadWord(op, left, Taken + (i + 1))
    BY <1>1, Taking DEF OrderOK
  <2>2. Taken + (i + 1) = Taken' + i
    BY <1>3, <2>1
  <2> QED
    BY <1>1, <2>1, <2>2
<1>7. Taken' < 4 => iic'.owes = 0
  <2>1. Taken < 3 => Head(iic.tx).kind # "stop"
    BY <1>3, <1>5, WordFacts DEF Address
  <2>2. Head(iic.tx).kind # "stop" => iic'.owes = 0
    BY <1>4, Typed DEF TakeAddress, TakeWord, IicType
  <2> QED
    BY <1>3, <2>1, <2>2
<1>8. OrderOK'
  BY <1>1, <1>3, <1>4, <1>6, <1>7, Taking DEF OrderOK
<1>9. BytesOK'
  <2>1. CASE TakeAddress
    <3>1. Taken = 0 \/ Taken = 2
      BY <1>3, <1>5, <2>1, WordFacts DEF TakeAddress, StopAfter
    <3>2. PICK ack \in BOOLEAN : /\ imu' = [imu EXCEPT !.follows = ack]
                                 /\ trouble' = [trouble EXCEPT !.nack = @ \/ ~ack]
      BY <2>1 DEF TakeAddress
    <3>3. imu'.follows = ack /\ imu'.next = imu.next
      BY <3>2 DEF IInv, TypeOK
    <3>4. trouble'.nack <=> trouble.nack \/ ~ack
      BY <3>2 DEF IInv, TypeOK
    <3> QED
      BY <1>1, <1>2, <1>3, <1>4, <3>1, <3>3, <3>4, Taking DEF BytesOK
  <2>2. CASE TakeWord
    <3>1. Taken = 1 \/ Taken = 3
      BY <1>3, <1>5, <2>2, WordFacts DEF TakeWord, Address
    <3>2. CASE Taken = 1
      <4>1. Head(iic.tx).kind = "reg" /\ Head(iic.tx).n = op
        BY <1>5, <3>2, WordFacts
      <4>2. imu.follows => imu'.next = <<op, 1>>
        BY <2>2, <4>1 DEF TakeWord, IInv, TypeOK
      <4>3. imu'.follows = imu.follows /\ trouble' = trouble
        BY <2>2 DEF TakeWord, IInv, TypeOK
      <4> QED
        BY <1>1, <1>2, <1>3, <1>4, <3>2, <4>2, <4>3, Taking DEF BytesOK
    <3>3. CASE Taken = 3
      <4>1. Head(iic.tx).kind = "stop" /\ Head(iic.tx).n = left
        BY <1>5, <3>3, WordFacts DEF StopAfter
      <4>2. iic'.owes = IF imu.follows THEN left ELSE 0
        BY <2>2, <4>1, Typed DEF TakeWord, IicType
      <4>3. imu' = imu /\ trouble' = trouble
        BY <2>2, <4>1 DEF TakeWord
      <4> QED
        BY <1>1, <1>2, <1>3, <1>4, <3>3, <4>2, <4>3, Taking DEF BytesOK
    <3> QED
      BY <3>1, <3>2, <3>3
  <2> QED
    BY <2>1, <2>2
<1>10. BacklogOK'
  <2>1. /\ wait' = IF wait > 0 THEN wait - 1 ELSE 0
        /\ timer'.armed = timer.armed /\ timer'.since <= timer.since + 1
        /\ timer'.since \in Nat /\ iic'.rx = <<>>
    BY <1>4, PassClocks, Taking
  <2>2. pc = "send" => Backlog' = 0
    BY <1>1, <1>2 DEF BacklogOK
  <2>3. pc = "delay" =>
          /\ wait' <= 1 /\ Backlog' <= wait' + 1 /\ Sent > 0
          /\ Backlog' = wait' + 1 => timer'.armed /\ timer'.since + wait' < Sent
    <3> SUFFICES ASSUME pc = "delay"
                 PROVE  /\ wait' <= 1 /\ Backlog' <= wait' + 1 /\ Sent > 0
                        /\ Backlog' = wait' + 1 =>
                             timer'.armed /\ timer'.since + wait' < Sent
      OBVIOUS
    <3>1. /\ wait <= 1 /\ Backlog <= wait + 1 /\ Sent > 0 /\ Sent \in Int
          /\ Backlog = wait + 1 => timer.armed /\ timer.since + wait < Sent
      BY <1>1, <1>2 DEF BacklogOK
    <3> QED
      BY <1>1, <1>2, <2>1, <3>1
  <2>4. pc = "fetch" => Backlog' = 0 /\ wait' >= 1
    BY <1>1, <1>2, <1>4, <2>1 DEF BacklogOK
  <2> QED
    BY <1>1, <2>1, <2>2, <2>3, <2>4 DEF BacklogOK
<1> QED
  BY <1>8, <1>9, <1>10

LEMMA DeliverReads ==
  ASSUME InTime, BytesInv, Pass, ~trouble'.stalled, Reading, Deliver
  PROVE  OrderOK' /\ BytesOK' /\ BacklogOK'
<1> USE DEF BytesInv, TransferOK
<1>1. /\ UNCHANGED <<pc, op, todo, left, data, Unsent, Sent, Got>>
      /\ Reading' = Reading /\ left \in Nat /\ iic.owes \in Nat /\ iic.owes > 0
      /\ wait \in Nat /\ trouble' = trouble /\ ~trouble.stalled
      /\ wait' = IF wait > 0 THEN wait - 1 ELSE 0
  BY PassClocks, Typed DEF Reading, Deliver
<1>2. /\ Backlog \in Nat /\ Stock \in Nat /\ Got \in Nat /\ Unsent \in Nat
      /\ Taken = Sent - Backlog /\ Sent = 4 - Unsent
      /\ (todo = <<>> <=> Unsent = 0)
  BY Lengths
<1>3. Taken = 4 /\ Backlog = 0 /\ Unsent = 0 /\ Sent = 4 /\ iic.tx = <<>> /\ todo = <<>>
  BY <1>1, <1>2, Lengths DEF OrderOK
<1>4. imu.follows /\ iic.owes + Stock = left
  BY <1>1, <1>2, <1>3 DEF BytesOK
<1>5. CASE Len(iic.rx) < Depth
  <2>1. /\ iic' = [iic EXCEPT !.rx = Append(@, imu.next), !.owes = @ - 1]
        /\ imu' = [imu EXCEPT !.next[2] = @ + 1]
    BY <1>5 DEF Deliver
  <2>2. /\ iic'.tx = iic.tx /\ iic'.owes = iic.owes - 1
        /\ iic'.rx = Append(iic.rx, imu.next)
    BY <2>1, Typed DEF IicType
  <2>3. imu.next \in Bytes /\ imu'.follows = imu.follows
        /\ imu'.next = [imu.next EXCEPT ![2] = @ + 1]
    BY <2>1 DEF IInv, TypeOK
  <2>4. Backlog' = 0 /\ Taken' = 4 /\ Stock' = Stock + 1 /\ iic'.rx # <<>>
    BY <1>1, <1>2, <1>3, <2>2, <2>3, Typed DEF Backlog, Taken, Stock
  <2>5. OrderOK'
    BY <1>1, <1>3, <2>2, <2>4 DEF OrderOK
  <2>6. BytesOK'
    <3>1. iic'.owes + Stock' = left
      BY <1>1, <1>2, <1>4, <2>2, <2>4
    <3>2. ASSUME ~trouble.nack
          PROVE  /\ imu'.next = <<op, Got + Stock' + 1>>
                 /\ \A i \in DOMAIN iic'.rx : iic'.rx[i] = <<op, Got + i>>
      <4>1. imu.next = <<op, Got + Stock + 1>>
        BY <1>1, <1>3, <3>2 DEF BytesOK
      <4>2. imu'.next = <<op, Got + Stock + 1 + 1>>
        BY <2>3, <4>1
      <4>3. Got + Stock + 1 + 1 = Got + Stock' + 1
        BY <1>2, <2>4
      <4>4. \A i \in DOMAIN iic'.rx :
              \/ i \in DOMAIN iic.rx /\ iic'.rx[i] = iic.rx[i]
              \/ i = Stock + 1 /\ iic'.rx[i] = imu.next
        BY <2>2, <2>3, Typed, Places DEF Stock
      <4>5. \A i \in DOMAIN iic.rx : iic.rx[i] = <<op, Got + i>>
        BY <1>1, <3>2 DEF BytesOK
      <4>6. Got + (Stock + 1) = Got + Stock + 1
        BY <1>2
      <4> QED
        BY <4>1, <4>2, <4>3, <4>4, <4>5, <4>6
    <3> QED
      BY <1>1, <1>4, <2>3, <2>4, <3>1, <3>2 DEF BytesOK
  <2>7. BacklogOK'
    <3>1. pc # "send"
      BY <1>3, Typed
    <3>2. pc = "delay" => wait <= 1
      BY <1>1 DEF BacklogOK
    <3>3. pc = "delay" => wait' <= 1 /\ Backlog' <= wait' + 1 /\ Backlog' # wait' + 1
      BY <1>1, <2>4, <3>2
    <3> QED
      BY <1>1, <1>3, <2>4, <3>1, <3>3 DEF BacklogOK
  <2> QED
    BY <2>5, <2>6, <2>7
<1>6. CASE ~(Len(iic.rx) < Depth)
  <2>1. UNCHANGED <<iic, imu>>
    BY <1>6 DEF Deliver
  <2>2. UNCHANGED <<Backlog, Taken, Stock>> /\ iic.rx # <<>>
    BY <1>1, <1>6, <2>1, Typed DEF Backlog, Taken, Stock, InTime
  <2>3. OrderOK' /\ BytesOK'
    BY <1>1, <2>1, <2>2 DEF OrderOK, BytesOK
  <2>4. BacklogOK'
    <3>1. pc # "send"
      BY <1>3, Typed
    <3>2. pc = "delay" => wait <= 1
      BY <1>1 DEF BacklogOK
    <3>3. pc = "delay" => wait' <= 1 /\ Backlog' <= wait' + 1 /\ Backlog' # wait' + 1
      BY <1>1, <1>3, <2>2, <3>2
    <3> QED
      BY <1>1, <1>3, <2>1, <2>2, <3>1, <3>3 DEF BacklogOK
  <2> QED
    BY <2>3, <2>4
<1> QED
  BY <1>5, <1>6

LEMMA PassTransfers ==
  ASSUME InTime, BytesInv, Pass
  PROVE  OffOK' /\ TransferOK' /\ OwnBytes'
<1> USE DEF BytesInv
<1>1. /\ UNCHANGED <<pc, op, todo, left, data, Unsent, Sent, Got>>
      /\ wait' = IF wait > 0 THEN wait - 1 ELSE 0
      /\ wait \in Nat /\ left \in Nat
  BY PassClocks, Typed
<1>2. /\ trouble.stalled => trouble'.stalled
      /\ trouble.nack => trouble'.nack
  BY DEF Pass, Deliver, TakeAddress, TakeWord, Stall, Rest, IInv, TypeOK
<1>3. OffOK' /\ OwnBytes'
  BY <1>1, <1>2 DEF OffOK, OwnBytes
<1>4. TransferOK'
  <2>1. SUFFICES ASSUME ~trouble'.stalled PROVE TransferOK'
    BY DEF TransferOK
  <2>2. ~trouble.stalled
    BY <1>2, <2>1
  <2>3. CASE Writing
    BY <2>1, <2>3, PassWrites
  <2>4. CASE Reading
    <3>1. ~Writing' /\ pc' # "idle"
      BY <1>1, <2>4 DEF Reading, Writing
    <3>2. CASE Deliver
      BY <2>1, <2>4, <3>1, <3>2, DeliverReads DEF TransferOK, IdleOK, WriteOK
    <3>3. CASE TakeAddress \/ TakeWord
      BY <2>1, <2>4, <3>1, <3>3, TakeReads DEF TransferOK, IdleOK, WriteOK
    <3>4. CASE Stall
      BY <2>1, <3>4 DEF Stall, IInv, TypeOK
    <3>5. CASE Rest
      <4>1. /\ UNCHANGED <<iic, imu, trouble, Backlog, Taken, Stock>>
            /\ Backlog = 0 /\ iic.owes = 0 /\ Reading' = Reading
        BY <1>1, <3>5, Lengths DEF Rest, Backlog, Taken, Stock, Reading
      <4>2. OrderOK'
        BY <1>1, <2>2, <2>4, <4>1 DEF TransferOK, OrderOK
      <4>3. BytesOK'
        BY <1>1, <2>2, <2>4, <4>1 DEF TransferOK, BytesOK
      <4>4. BacklogOK'
        <5>1. pc = "delay" => wait <= 1 /\ Sent > 0
          BY <2>2, <2>4 DEF TransferOK, BacklogOK
        <5>2. pc = "delay" => wait' <= 1 /\ Backlog' <= wait' + 1 /\ Backlog' # wait' + 1
          BY <1>1, <4>1, <5>1
        <5> QED
          BY <1>1, <4>1, <5>1, <5>2 DEF BacklogOK
      <4> QED
        BY <3>1, <4>2, <4>3, <4>4 DEF TransferOK, IdleOK, WriteOK
    <3> QED
      BY <3>2, <3>3, <3>4, <3>5 DEF Pass
  <2>5. CASE pc = "idle"
    <3>1. iic.tx = <<>> /\ iic.owes = 0
      BY <2>2, <2>5 DEF TransferOK, IdleOK
    <3>2. iic' = iic
      BY <3>1 DEF Pass, Deliver, TakeAddress, TakeWord, Stall, Rest
    <3>3. IdleOK' /\ ~Reading' /\ ~Writing'
      BY <1>1, <2>2, <2>5, <3>2 DEF TransferOK, IdleOK, Reading, Writing
    <3> QED
      BY <3>3 DEF TransferOK, WriteOK, OrderOK, BytesOK, BacklogOK
  <2>6. CASE pc = "off"
    <3>1. IdleOK' /\ ~Reading' /\ ~Writing'
      BY <1>1, <2>6 DEF IdleOK, Reading, Writing
    <3> QED
      BY <3>1 DEF TransferOK, WriteOK, OrderOK, BytesOK, BacklogOK
  <2>7. pc = "fetch" => left > 0
    BY DEF IInv, WordsOK
  <2> QED
    BY <1>1, <2>3, <2>4, <2>5, <2>6, <2>7 DEF IInv, TypeOK, Reading, Writing
<1> QED
  BY <1>3, <1>4

LEMMA StepTransfers ==
  ASSUME InTime PROVE BytesInv /\ [Next]_vars => BytesInv'
<1> SUFFICES ASSUME BytesInv, [Next]_vars PROVE BytesInv'
  OBVIOUS
<1>1. IInv'
  BY StepHolds DEF BytesInv
<1>2. CASE Start \/ Die \/ ArmTimer \/ UNCHANGED vars
  BY <1>1, <1>2, StartTransfers DEF BytesInv
<1>3. CASE Step
  BY <1>1, <1>3, SendTransfers, AwakeTransfers, FetchTransfers, GiveUpTransfers
     DEF BytesInv, Step
<1>4. CASE Pass
  BY <1>1, <1>4, PassTransfers DEF BytesInv
<1>5. ASSUME NEW n \in ReadLens, ReadReg(n) PROVE BytesInv'
  BY <1>1, <1>5, ReadTransfers DEF BytesInv
<1>6. ASSUME NEW n \in WriteLens, WriteReg(n) PROVE BytesInv'
  BY <1>1, <1>6, WriteTransfers DEF BytesInv
<1> QED
  BY <1>2, <1>3, <1>4, <1>5, <1>6 DEF Next

(* With two words of FIFO, two words' time of patience and three between   *)
(* two signals (the board has 16, at least two, and 11), a read that the   *)
(* device acknowledges returns that register's bytes in order, whichever   *)
(* delays the timer cuts short, whoever was killed in the middle of one,   *)
(* and whatever reads the device did not answer before.                    *)
THEOREM ReadsAreOwn ==
  ASSUME InTime
  PROVE  Spec => []OwnBytes
<1>1. Init => BytesInv
  BY InitTransfers
<1>2. BytesInv /\ [Next]_vars => BytesInv'
  BY StepTransfers
<1>3. BytesInv => OwnBytes
  BY DEF BytesInv
<1> QED
  BY <1>1, <1>2, <1>3, PTL DEF Spec
================================================================================
