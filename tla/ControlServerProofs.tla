-------------------------- MODULE ControlServerProofs --------------------------
(***************************************************************************)
(* Proofs about ControlServer for any clients, commands, connections and   *)
(* size of the poll set: the poll set follows the connections, clients     *)
(* that behave keep the server up and get their own answers, and the       *)
(* rover starts straight.                                                  *)
(***************************************************************************)
EXTENDS ControlServer, FiniteSets, FiniteSetTheorems, SequenceTheorems,
        WellFoundedInduction, TLAPS

(* There is a descriptor for every connection that is still to be accepted. *)
ConnectsOK == Cardinality(Open) + Len(backlog) <= MaxConnects

DownOK == ~Up => sock = <<>> /\ backlog = <<>>

(* What handleMoveRover knows at each of its steps.                        *)
MoveOK ==
  /\ server.pc \in {"stop", "steer", "await", "drive"} => server.job \in Moves
  /\ server.pc \in {"steer", "await", "drive"} =>
       server.job # "Stop" /\ rover.wheels = "stopped"
  /\ server.pc = "await" \/ (server.pc = "drive" /\ server.job \in Straight) =>
       server.job \in Straight /\ rover.steer = "forward"
  /\ server.pc = "drive" /\ server.job \in Straight => rover.done
-----------------------------------------------------------------------------
(* One orderly client and what is left of the ones before it.              *)
Quit == [peer |-> Nobody, end |-> "closed", in |-> <<>>, late |-> FALSE]

OthersQuit == \A f \in Open : f # server.worker => sock[f] = Quit

NoneIn == \A c \in Clients : client[c] = [st |-> "off", cmd |-> Nobody] /\ mail[c] = <<>>

OnlyIn(c, st, cmd, letters) ==
  \A d \in Clients :
    IF d = c THEN client[d] = [st |-> st, cmd |-> cmd] /\ mail[d] = letters
             ELSE client[d] = [st |-> "off", cmd |-> Nobody] /\ mail[d] = <<>>

(* Its connection is the one that was accepted last, and holds bytes.      *)
Holds(c, bytes) ==
  /\ backlog = <<>> /\ server.worker \in Open
  /\ sock[server.worker] = [peer |-> c, end |-> "open", in |-> bytes, late |-> FALSE]

Empty    == NoneIn /\ backlog = <<>> /\ (server.worker \in Open => sock[server.worker] = Quit)
Queued(c) == /\ OnlyIn(c, "new", Nobody, <<>>) /\ backlog = <<NewConnection(c)>>
             /\ server.worker \in Open => sock[server.worker] = Quit
Greeted(c) == OnlyIn(c, "new", Nobody, <<"ACK-0">>) /\ Holds(c, <<>>)
Idle(c)    == OnlyIn(c, "ready", Nobody, <<>>) /\ Holds(c, <<>>)
Asked(c)   == \E m \in Commands :
                OnlyIn(c, "waiting", m, <<>>) /\ Holds(c, <<m, Padding>>)
Delivered(c)   == \E m \in Commands : \E a \in Answers(m) :
                OnlyIn(c, "waiting", m, <<a>>) /\ Holds(c, <<>>)

Session(c) == Queued(c) \/ Greeted(c) \/ Idle(c) \/ Asked(c) \/ Delivered(c)

OrderlyOK == orderly => Up /\ OthersQuit /\ (Empty \/ \E c \in Clients : Session(c))
-----------------------------------------------------------------------------
(* A set of descriptors has a lowest one.                                  *)
LEMMA LowestIs ==
  ASSUME NEW S, S \subseteq Nat, S # {}
  PROVE  Lowest(S) \in S /\ \A g \in S : Lowest(S) <= g
<1> DEFINE Less == OpToRel(<, Nat)
<1>1. IsWellFoundedOn(Less, Nat)
  BY NatLessThanWellFounded
<1>2. PICK f \in S : \A g \in S : ~(<<g, f>> \in Less)
  BY <1>1, WFMin
<1>3. ASSUME NEW g \in S PROVE f <= g
  <2>1. f \in Nat /\ g \in Nat /\ <<g, f>> \in Nat \X Nat
    BY <1>2
  <2>2. g < f => <<g, f>> \in Less
    <3>1. <<g, f>>[1] = g /\ <<g, f>>[2] = f
      OBVIOUS
    <3> QED
      BY <2>1, <3>1, Zenon DEF OpToRel
  <2> HIDE DEF Less
  <2>3. ~(g < f)
    BY <1>2, <2>2
  <2> QED
    BY <2>1, <2>3
<1>4. \E h \in S : \A g \in S : h <= g
  BY <1>3
<1> QED
  BY <1>4 DEF Lowest

LEMMA Bounds ==
  /\ MaxConnects \in Nat /\ MaxUnread \in Nat /\ PollSetSize \in Nat
  /\ PollSetSize > 3 /\ Fds \subseteq Nat /\ Listener \notin Fds /\ Listener = 3
  /\ 0 \notin Fds /\ Fds \cup {Listener} \subseteq Nat
BY ControlServerAssumption DEF Fds, Listener
-----------------------------------------------------------------------------
(* The types of the pieces.                                                *)
Pcs == {"poll", "stop", "steer", "await", "drive", "down"}
ServerType ==
  [pc : Pcs, worker : Fds \cup {0}, set : SUBSET (Fds \cup {Listener}),
   size : Nat, max : Nat, job : Commands \cup {Nobody}]
ClientType ==
  [Clients -> [st : {"off", "new", "ready", "waiting"}, cmd : Commands \cup {Nobody}]]
RoverType ==
  [wheels : {"init", "stopped", "forward", "reverse", "ccw", "cw"},
   steer : {"init", "forward", "point"}, done : BOOLEAN]
SockOK == Open \subseteq Fds /\ \A f \in Open : sock[f] \in Connections
Bytes  == Commands \cup {Padding}

LEMMA Types ==
  TypeOK <=> /\ orderly \in BOOLEAN /\ server \in ServerType /\ SockOK
             /\ backlog \in Seq(Connections) /\ client \in ClientType
             /\ mail \in [Clients -> Seq(AllAnswers)] /\ rover \in RoverType
BY DEF TypeOK, ServerType, Pcs, SockOK, ClientType, RoverType

LEMMA MapSeq ==
  ASSUME NEW S, NEW q \in Seq(S), NEW r \in [DOMAIN q -> S]
  PROVE  r \in Seq(S) /\ Len(r) = Len(q) /\ DOMAIN r = DOMAIN q
<1>1. Len(q) \in Nat /\ DOMAIN q = 1 .. Len(q)
  BY LenProperties
<1> QED
  BY <1>1

LEMMA SameLength ==
  ASSUME NEW S, NEW q \in Seq(S), NEW r \in Seq(S), DOMAIN q = DOMAIN r
  PROVE  Len(q) = Len(r)
<1>1. PICK m \in Nat, n \in Nat : m = Len(q) /\ n = Len(r)
  BY LenProperties
<1>2. 1 .. m = 1 .. n
  BY <1>1, LenProperties
<1>3. m < n => n \in 1 .. n /\ n \notin 1 .. m
  OBVIOUS
<1>4. n < m => m \in 1 .. m /\ m \notin 1 .. n
  OBVIOUS
<1>5. m = n
  BY <1>2, <1>3, <1>4
<1> QED
  BY <1>1, <1>5

LEMMA Nothing == DOMAIN <<>> = {} /\ Len(<<>>) = 0
OBVIOUS

(* What poll answers is in the set and has news.                           *)
LEMMA Polled ==
  ASSUME NEW f, pollCall(f)
  PROVE  f \in server.set /\ HasNews(f) /\ server.pc = "poll" /\ f < server.max
BY DEF pollCall, Ready

LEMMA ListenerPolled ==
  ASSUME TypeOK, pollCall(Listener) PROVE backlog # <<>> /\ server.pc = "poll"
<1>1. HasNews(Listener) /\ Listener \notin Open /\ server.pc = "poll"
  BY Polled, Bounds, Types DEF SockOK
<1> QED
  BY <1>1 DEF HasNews

(* There is always a descriptor for the next connection.                   *)
LEMMA NewFdIs ==
  ASSUME TypeOK, ConnectsOK, backlog # <<>>
  PROVE  NewFd \in Fds /\ NewFd \notin Open
<1>1. backlog \in Seq(Connections) /\ Open \subseteq Fds
  BY Types DEF SockOK
<1>2. Len(backlog) \in Nat \ {0}
  BY <1>1, EmptySeq
<1>3. IsFiniteSet(Fds) /\ Cardinality(Fds) = MaxConnects
  <2>1. MaxConnects \in Nat /\ 4 \in Int /\ 3 + MaxConnects \in Int
    BY Bounds
  <2>2. /\ IsFiniteSet(4 .. 3 + MaxConnects)
        /\ Cardinality(4 .. 3 + MaxConnects)
             = IF 4 > 3 + MaxConnects THEN 0 ELSE 3 + MaxConnects - 4 + 1
    BY <2>1, FS_Interval
  <2> QED
    BY <2>1, <2>2 DEF Fds
<1>4. Cardinality(Open) \in Nat
  <2>1. IsFiniteSet(Open)
    BY <1>1, <1>3, FS_Subset
  <2> QED
    BY <2>1, FS_CardinalityType
<1>5. Cardinality(Open) < MaxConnects
  BY <1>1, <1>2, <1>4, Bounds DEF ConnectsOK
<1>6. Open # Fds
  BY <1>3, <1>5, Bounds
<1>7. Fds \ Open # {} /\ Fds \ Open \subseteq Nat
  BY <1>1, <1>6, Bounds
<1>8. NewFd \in Fds \ Open
  BY <1>7, LowestIs DEF NewFd
<1> QED
  BY <1>8

LEMMA Added ==
  ASSUME NEW s \in ServerType, NEW f \in Fds
  PROVE  \E r \in ServerType :
           /\ addToPollSet(s, f) = r
           /\ r.set = s.set \cup {f} /\ r.pc = s.pc /\ r.job = s.job
           /\ r.size = IF f >= s.size THEN f + PollSetSize ELSE s.size
           /\ r.max = IF f + 1 >= s.max THEN f + 1 ELSE s.max
<1>1. /\ f \in Nat /\ s.size \in Nat /\ s.max \in Nat
      /\ s.set \cup {f} \in SUBSET (Fds \cup {Listener})
  BY Bounds DEF ServerType
<1>2. PICK size \in Nat : size = IF f >= s.size THEN f + PollSetSize ELSE s.size
  BY <1>1, Bounds
<1>3. PICK max \in Nat : max = IF f + 1 >= s.max THEN f + 1 ELSE s.max
  BY <1>1
<1>4. PICK set \in SUBSET (Fds \cup {Listener}) : set = s.set \cup {f}
  BY <1>1
<1>5. addToPollSet(s, f) = [s EXCEPT !.size = size, !.max = max, !.set = set]
  BY <1>2, <1>3, <1>4 DEF addToPollSet
<1> QED
  BY <1>2, <1>3, <1>4, <1>5 DEF ServerType
-----------------------------------------------------------------------------
(* The data of the steps.                                                  *)
LEMMA ConnectionFields ==
  ASSUME NEW s \in Connections
  PROVE  /\ s.peer \in Clients \cup {Nobody} /\ s.in \in Seq(Bytes) /\ s.late \in BOOLEAN
         /\ s.end \in {"open", "closed", "gone", "reset"}
BY DEF Connections, Bytes

LEMMA AfterSendType ==
  ASSUME NEW s \in Connections
  PROVE  /\ AfterSend(s) \in Connections /\ AfterSend(s).in = s.in
         /\ AfterSend(s).peer = s.peer /\ AfterSend(s).late = s.late
         /\ s.end # "closed" => AfterSend(s) = s
BY DEF AfterSend, Connections

LEMMA PostedType ==
  ASSUME NEW s \in Connections, NEW a \in AllAnswers, mail \in [Clients -> Seq(AllAnswers)]
  PROVE  Posted(s, a) \in [Clients -> Seq(AllAnswers)]
<1>1. CASE s.peer \in Clients
  <2>1. Append(mail[s.peer], a) \in Seq(AllAnswers)
    BY <1>1, AppendProperties
  <2> QED
    BY <1>1, <2>1 DEF Posted
<1>2. CASE s.peer \notin Clients
  BY <1>2 DEF Posted
<1> QED
  BY <1>1, <1>2

LEMMA AnswersType == \A command \in Commands : Answers(command) \subseteq AllAnswers
BY ControlServerAssumption DEF Answers, AllAnswers, Moves

(* What is left of the bytes of a connection that was read from.           *)
LEMMA RestType ==
  ASSUME NEW s \in Connections, s.in # <<>>
  PROVE  SubSeq(s.in, Received(s) + 1, Len(s.in)) \in Seq(Bytes)
<1>1. s.in \in Seq(Bytes) /\ Len(s.in) \in Nat
  BY ConnectionFields, LenProperties
<1>2. Received(s) \in {1, 2}
  BY DEF Received
<1>3. \A i \in Received(s) + 1 .. Len(s.in) : s.in[i] \in Bytes
  BY <1>1, <1>2, ElementOfSeq
<1>4. Received(s) + 1 \in Int /\ Len(s.in) \in Int
  BY <1>1, <1>2
<1> QED
  BY <1>3, <1>4, SubSeqProperties

LEMMA TakenType ==
  ASSUME SockOK, NEW f \in Open, sock[f].in # <<>>
  PROVE  /\ DOMAIN Taken(f) = Open
         /\ \A g \in Open : Taken(f)[g] \in Connections
         /\ \A g \in Open \ {f} : Taken(f)[g] = sock[g]
         /\ Taken(f)[f] =
              [sock[f] EXCEPT !.in = SubSeq(sock[f].in, Received(sock[f]) + 1, Len(sock[f].in))]
<1>1. PICK rest \in Seq(Bytes) :
        rest = SubSeq(sock[f].in, Received(sock[f]) + 1, Len(sock[f].in))
  BY RestType DEF SockOK
<1>2. Taken(f) = [sock EXCEPT ![f].in = rest]
  BY <1>1 DEF Taken
<1>3. /\ Taken(f)[f] = [sock[f] EXCEPT !.in = rest]
      /\ DOMAIN Taken(f) = Open /\ \A g \in Open \ {f} : Taken(f)[g] = sock[g]
  BY <1>2 DEF Open
<1>4. [sock[f] EXCEPT !.in = rest] \in Connections
  BY DEF SockOK, Connections, Bytes
<1>5. \A g \in Open : Taken(f)[g] \in Connections
  BY <1>3, <1>4 DEF SockOK
<1> QED
  BY <1>1, <1>3, <1>5

(* What a client's message and its leaving make of its connection.         *)
Texts(command, apart) == IF apart THEN <<command>> ELSE <<command, Padding>>
Sent(s, command, apart) == [s EXCEPT !.in = @ \o Texts(command, apart), !.late = apart]
Abandoned(s, letters) ==
  [s EXCEPT !.peer = Nobody, !.end = IF letters # <<>> THEN "reset" ELSE "closed",
            !.late = letters = <<>> /\ @]
Padded(s) == [s EXCEPT !.late = FALSE, !.in = Append(@, Padding)]

LEMMA SentType ==
  ASSUME NEW s \in Connections, NEW command \in Commands, NEW apart \in BOOLEAN
  PROVE  Sent(s, command, apart) \in Connections
<1>0. command \in Bytes /\ Padding \in Bytes
  BY DEF Bytes
<1>1. s.in \in Seq(Bytes) /\ Texts(command, apart) \in Seq(Bytes)
  <2>1. <<command>> \in Seq(Bytes) /\ <<command, Padding>> \in Seq(Bytes)
    BY <1>0
  <2> QED
    BY <2>1, ConnectionFields DEF Texts
<1>2. PICK in \in Seq(Bytes) : in = s.in \o Texts(command, apart)
  BY <1>1, ConcatProperties
<1>3. Sent(s, command, apart) = [s EXCEPT !.in = in, !.late = apart]
  BY <1>2 DEF Sent
<1> QED
  BY <1>3 DEF Connections, Bytes

LEMMA AbandonedType ==
  ASSUME NEW s \in Connections, NEW letters PROVE Abandoned(s, letters) \in Connections
<1>1. PICK end \in {"closed", "reset"} : end = IF letters # <<>> THEN "reset" ELSE "closed"
  OBVIOUS
<1>2. PICK late \in BOOLEAN : late = (letters = <<>> /\ s.late)
  BY Zenon
<1>3. Abandoned(s, letters) = [s EXCEPT !.peer = Nobody, !.end = end, !.late = late]
  BY <1>1, <1>2, Zenon DEF Abandoned
<1> QED
  BY <1>3 DEF Connections

LEMMA PaddedType ==
  ASSUME NEW s \in Connections PROVE Padded(s) \in Connections
<1>1. PICK in \in Seq(Bytes) : in = Append(s.in, Padding)
  BY ConnectionFields, AppendProperties DEF Bytes
<1>2. Padded(s) = [s EXCEPT !.late = FALSE, !.in = in]
  BY <1>1 DEF Padded
<1> QED
  BY <1>2 DEF Connections, Bytes

LEMMA SendIs ==
  ASSUME NEW c \in Clients, NEW command \in Commands, Send(c, command)
  PROVE  \E apart \in BOOLEAN :
           /\ orderly => ~apart
           /\ sock' = [f \in Open |-> IF sock[f].peer = c
                                      THEN Sent(sock[f], command, apart) ELSE sock[f]]
           /\ backlog' = [i \in DOMAIN backlog |->
                            IF backlog[i].peer = c
                            THEN Sent(backlog[i], command, apart) ELSE backlog[i]]
<1>1. PICK apart \in (IF orderly THEN {FALSE} ELSE BOOLEAN) :
       OnConnection(c, LAMBDA s : [s EXCEPT
         !.in = @ \o (IF apart THEN <<command>> ELSE <<command, Padding>>),
         !.late = apart])
  BY DEF Send
<1>2. apart \in BOOLEAN /\ (orderly => ~apart)
  BY <1>1, Zenon
<1> QED
  BY <1>1, <1>2, Zenon DEF OnConnection, Sent, Texts

LEMMA LeaveIs ==
  ASSUME NEW c \in Clients, Leave(c)
  PROVE  /\ sock' = [f \in Open |-> IF sock[f].peer = c
                                    THEN Abandoned(sock[f], mail[c]) ELSE sock[f]]
         /\ backlog' = [i \in DOMAIN backlog |->
                          IF backlog[i].peer = c
                          THEN Abandoned(backlog[i], mail[c]) ELSE backlog[i]]
BY DEF Leave, OnConnection, Abandoned
-----------------------------------------------------------------------------
(* What each kind of step does to the connections.                         *)
Untouched == UNCHANGED <<sock, backlog>>

Arriving == \/ \E f \in Fds : Arrive(f)
            \/ \E i \in 1 .. MaxConnects : ArriveEarly(i)

LEMMA Quiet ==
  ASSUME \/ handleMoveRover \/ Settle \/ UNCHANGED vars
         \/ \E c \in Clients : ReadGreeting(c) \/ Receive(c)
  PROVE  Untouched
BY DEF handleMoveRover, Stop, Steer, Await, Drive, Told, Settle, ReadGreeting, Receive,
       vars, Untouched

LEMMA SockPreserved ==
  ASSUME TypeOK, ConnectsOK, [Next]_vars
  PROVE  SockOK' /\ backlog' \in Seq(Connections)
<1> USE DEF SockOK
<1>0. SockOK /\ backlog \in Seq(Connections) /\ server \in ServerType
  BY Types
<1>1. ASSUME Fail PROVE SockOK' /\ backlog' \in Seq(Connections)
  BY <1>1, EmptySeq, Nothing DEF Fail, Open
<1>2. CASE Accept
  <2>1. backlog # <<>>
    BY <1>2, ListenerPolled DEF Accept
  <2>2. NewFd \in Fds /\ Head(backlog) \in Connections /\ Tail(backlog) \in Seq(Connections)
    BY <1>0, <2>1, NewFdIs, HeadTailProperties
  <2>3. AfterSend(Head(backlog)) \in Connections
    BY <2>2, AfterSendType
  <2>4. /\ backlog' = Tail(backlog)
        /\ sock' = [f \in Open \cup {NewFd} |->
                      IF f = NewFd THEN AfterSend(Head(backlog)) ELSE sock[f]]
    BY <1>2 DEF Accept
  <2>5. Open' = Open \cup {NewFd}
    BY <2>4 DEF Open
  <2> QED
    BY <1>0, <2>2, <2>3, <2>4, <2>5
<1>3. ASSUME NEW f \in Fds, Read(f) PROVE SockOK' /\ backlog' \in Seq(Connections)
  <2>1. CASE Fail
    BY <1>1, <2>1
  <2>2. CASE ~Fail
    <3>1. /\ f \in Open /\ sock[f].in # <<>> /\ server.worker \in Open
          /\ sock' = [Taken(f) EXCEPT ![server.worker] = AfterSend(@)]
          /\ backlog' = backlog
      BY <1>3, <2>2 DEF Read
    <3>2. DOMAIN Taken(f) = Open /\ \A g \in Open : Taken(f)[g] \in Connections
      BY <1>0, <3>1, TakenType
    <3>3. AfterSend(Taken(f)[server.worker]) \in Connections
      BY <3>1, <3>2, AfterSendType
    <3>4. Open' = Open /\ \A g \in Open : sock'[g] \in Connections
      BY <3>1, <3>2, <3>3 DEF Open
    <3> QED
      BY <1>0, <3>1, <3>4
  <2> QED
    BY <2>1, <2>2
<1>4. ASSUME NEW f \in Fds, Close(f) PROVE SockOK' /\ backlog' \in Seq(Connections)
  BY <1>0, <1>4 DEF Close, Open
<1>5. ASSUME NEW f \in Fds, ReadFails(f) PROVE SockOK' /\ backlog' \in Seq(Connections)
  BY <1>1, <1>5 DEF ReadFails
<1>6. CASE HangUp
  BY <1>1, <1>6 DEF HangUp
<1>7. CASE Arriving
  <2>1. CASE \E f \in Fds : Arrive(f)
    <3>1. PICK f \in Open : /\ sock' = [sock EXCEPT ![f] = Padded(sock[f])]
                            /\ backlog' = backlog
      BY <2>1 DEF Arrive, Padded, Open
    <3>2. Padded(sock[f]) \in Connections
      BY <1>0, PaddedType
    <3> QED
      BY <1>0, <3>1, <3>2 DEF Open
  <2>2. CASE \E i \in 1 .. MaxConnects : ArriveEarly(i)
    <3>1. PICK i \in DOMAIN backlog :
            backlog' = [backlog EXCEPT ![i] = Padded(backlog[i])] /\ sock' = sock
      BY <2>2 DEF ArriveEarly, Padded
    <3>2. i \in 1 .. Len(backlog) /\ backlog[i] \in Connections
      BY <1>0, LenProperties, ElementOfSeq
    <3>3. Padded(backlog[i]) \in Connections
      BY <3>2, PaddedType
    <3>4. backlog' \in Seq(Connections)
      BY <1>0, <3>1, <3>2, <3>3, ExceptSeq
    <3> QED
      BY <1>0, <3>1, <3>4 DEF Open
  <2> QED
    BY <1>7, <2>1, <2>2 DEF Arriving
<1>8. ASSUME NEW c \in Clients, Connect(c) PROVE SockOK' /\ backlog' \in Seq(Connections)
  <2>1. NewConnection(c) \in Connections
    BY EmptySeq DEF NewConnection, Connections
  <2>2. backlog' \in Seq(Connections) /\ sock' = sock
    BY <1>0, <1>8, <2>1, AppendProperties DEF Connect
  <2> QED
    BY <1>0, <2>2 DEF Open
<1>9. ASSUME NEW c \in Clients, NEW command \in Commands, Send(c, command)
      PROVE  SockOK' /\ backlog' \in Seq(Connections)
  <2>1. PICK apart \in BOOLEAN :
          /\ sock' = [f \in Open |-> IF sock[f].peer = c
                                     THEN Sent(sock[f], command, apart) ELSE sock[f]]
          /\ backlog' = [i \in DOMAIN backlog |->
                           IF backlog[i].peer = c
                           THEN Sent(backlog[i], command, apart) ELSE backlog[i]]
    BY <1>9, SendIs
  <2>2. \A s \in Connections : Sent(s, command, apart) \in Connections
    BY SentType
  <2>3. \A i \in DOMAIN backlog : backlog[i] \in Connections
    BY <1>0, LenProperties, ElementOfSeq
  <2>4. backlog' \in [DOMAIN backlog -> Connections]
    BY <2>1, <2>2, <2>3
  <2> QED
    BY <1>0, <2>1, <2>2, <2>4, MapSeq DEF Open
<1>10. ASSUME NEW c \in Clients, Leave(c) PROVE SockOK' /\ backlog' \in Seq(Connections)
  <2>1. /\ sock' = [f \in Open |-> IF sock[f].peer = c
                                   THEN Abandoned(sock[f], mail[c]) ELSE sock[f]]
        /\ backlog' = [i \in DOMAIN backlog |->
                         IF backlog[i].peer = c
                         THEN Abandoned(backlog[i], mail[c]) ELSE backlog[i]]
    BY <1>10, LeaveIs
  <2>2. \A s \in Connections : Abandoned(s, mail[c]) \in Connections
    BY AbandonedType
  <2>3. \A i \in DOMAIN backlog : backlog[i] \in Connections
    BY <1>0, LenProperties, ElementOfSeq
  <2>4. backlog' \in [DOMAIN backlog -> Connections]
    BY <2>1, <2>2, <2>3
  <2> QED
    BY <1>0, <2>1, <2>2, <2>4, MapSeq DEF Open
<1>11. CASE Untouched
  BY <1>0, <1>11 DEF Untouched, Open
<1> QED
  BY <1>2, <1>3, <1>4, <1>5, <1>6, <1>7, <1>8, <1>9, <1>10, <1>11, Quiet
     DEF Next, Arriving, Poll, Client
-----------------------------------------------------------------------------
(* What each kind of step does to the server.                              *)
LEMMA ServerSteps ==
  ASSUME [Next]_vars
  PROVE  \/ Accept \/ handleMoveRover \/ Fail \/ UNCHANGED server
         \/ \E f \in Fds : Close(f) \/ (Read(f) /\ ~Fail)
BY DEF Next, Poll, ReadFails, HangUp, Settle, Arriving, Arrive, ArriveEarly, Client,
       Connect, ReadGreeting, Send,
       Receive, Leave, vars

LEMMA AcceptedIs ==
  ASSUME TypeOK, ConnectsOK, Accept
  PROVE  /\ NewFd \in Fds /\ NewFd \notin Open /\ Open' = Open \cup {NewFd}
         /\ server' \in ServerType
         /\ server'.set = server.set \cup {NewFd} /\ server'.worker = NewFd
         /\ server'.pc = "poll" /\ server'.job = server.job
         /\ server'.size = IF NewFd >= server.size THEN NewFd + PollSetSize ELSE server.size
         /\ server'.max = IF NewFd + 1 >= server.max THEN NewFd + 1 ELSE server.max
<1>1. backlog # <<>> /\ server.pc = "poll" /\ server \in ServerType
  BY ListenerPolled, Types DEF Accept
<1>2. PICK n \in Fds : n = NewFd /\ n \notin Open
  BY <1>1, NewFdIs
<1>3. PICK r \in ServerType :
        /\ addToPollSet(server, n) = r
        /\ r.set = server.set \cup {n} /\ r.pc = server.pc /\ r.job = server.job
        /\ r.size = IF n >= server.size THEN n + PollSetSize ELSE server.size
        /\ r.max = IF n + 1 >= server.max THEN n + 1 ELSE server.max
  BY <1>1, Added
<1>4. server' = [r EXCEPT !.worker = n]
  BY <1>2, <1>3 DEF Accept, Accepted
<1>5. Open' = Open \cup {n}
  BY <1>2 DEF Accept, Open
<1> QED
  BY <1>1, <1>2, <1>3, <1>4, <1>5 DEF ServerType

LEMMA ClosedIs ==
  ASSUME TypeOK, NEW f \in Fds, Close(f)
  PROVE  /\ server' \in ServerType /\ server'.set = server.set \ {f}
         /\ server'.pc = "poll" /\ server.pc = "poll" /\ Open' = Open \ {f} /\ f \in Open
         /\ server'.job = server.job /\ server'.worker = server.worker
         /\ server'.size = server.size /\ server'.max = server.max
<1>1. server \in ServerType /\ server.pc = "poll" /\ f \in Open
  BY Types DEF Close, pollCall
<1>2. PICK set \in SUBSET (Fds \cup {Listener}) : set = server.set \ {f}
  BY <1>1 DEF ServerType
<1>3. server' = [server EXCEPT !.set = set]
  BY <1>2 DEF Close, removeFromPollSet
<1>4. Open' = Open \ {f}
  BY DEF Close, Open
<1> QED
  BY <1>1, <1>2, <1>3, <1>4 DEF ServerType

LEMMA ReadIs ==
  ASSUME TypeOK, NEW f \in Fds, Read(f), ~Fail
  PROVE  /\ f \in Open /\ server.pc = "poll" /\ server.worker \in Open
         /\ Open' = Open /\ backlog' = backlog
         /\ server' \in ServerType /\ server'.set = server.set
         /\ server'.worker = server.worker
         /\ server'.size = server.size /\ server'.max = server.max
         /\ \/ server' = server
            \/ server'.pc = "stop" /\ server'.job \in Moves
<1>1. server \in ServerType /\ server.pc = "poll" /\ SockOK /\ f \in Open /\ sock[f].in # <<>>
  BY Types DEF Read, pollCall
<1>2. PICK command : command = Head(sock[f].in) /\ command # Padding
  BY DEF Read
<1>3. command \in Commands
  <2>1. sock[f].in \in Seq(Bytes)
    BY <1>1, ConnectionFields DEF SockOK
  <2>2. command \in Bytes
    BY <1>1, <1>2, <2>1, HeadTailProperties
  <2> QED
    BY <1>2, <2>2 DEF Bytes
<1>4. /\ server.worker \in Open /\ sock' = [Taken(f) EXCEPT ![server.worker] = AfterSend(@)]
      /\ backlog' = backlog
      /\ \E recognised \in Recognised(sock[f]) :
           server' = IF command \in Moves /\ recognised
                     THEN [server EXCEPT !.job = command, !.pc = "stop"] ELSE server
  BY <1>2 DEF Read
<1>5. Open' = Open
  BY <1>1, <1>4, TakenType DEF Open
<1>6. \/ server' = server
      \/ server' = [server EXCEPT !.job = command, !.pc = "stop"] /\ command \in Moves
  BY <1>4
<1>7. "stop" \in Pcs
  BY DEF Pcs
<1> QED
  BY <1>1, <1>3, <1>4, <1>5, <1>6, <1>7 DEF ServerType

LEMMA MoveIs ==
  ASSUME TypeOK, handleMoveRover
  PROVE  /\ UNCHANGED <<sock, backlog>> /\ server' \in ServerType
         /\ server.pc \in {"stop", "steer", "await", "drive"} /\ server'.pc # "down"
         /\ server'.set = server.set /\ server'.max = server.max /\ server'.size = server.size
         /\ server'.worker = server.worker
<1>0. server \in ServerType
  BY Types
<1>1. PICK pc \in {"poll", "steer", "await", "drive"} : Goto(pc)
  BY DEF handleMoveRover, Stop, Steer, Await, Drive
<1>2. PICK job \in Commands \cup {Nobody} :
        job = IF pc = "poll" THEN Nobody ELSE server.job
  BY <1>0 DEF ServerType
<1>3. server' = [server EXCEPT !.pc = pc, !.job = job]
  BY <1>1, <1>2 DEF Goto
<1>4. pc \in Pcs /\ pc # "down"
  BY DEF Pcs
<1>5. UNCHANGED <<sock, backlog>> /\ server.pc \in {"stop", "steer", "await", "drive"}
  BY DEF handleMoveRover, Stop, Steer, Await, Drive, Told
<1> QED
  BY <1>0, <1>3, <1>4, <1>5 DEF ServerType

LEMMA FailIs ==
  ASSUME TypeOK, Fail
  PROVE  /\ server' \in ServerType /\ server'.pc = "down" /\ ~Up'
         /\ sock' = <<>> /\ backlog' = <<>>
<1>1. server \in ServerType /\ server' = [server EXCEPT !.pc = "down"]
      /\ sock' = <<>> /\ backlog' = <<>>
  BY Types DEF Fail
<1> QED
  BY <1>1 DEF ServerType, Pcs, Up

LEMMA ServerPreserved ==
  ASSUME TypeOK, ConnectsOK, [Next]_vars PROVE server' \in ServerType
BY ServerSteps, AcceptedIs, ClosedIs, ReadIs, MoveIs, FailIs, Types

(* The connections that are open change only by Accept, Close and Fail.    *)
LEMMA OpenSteps ==
  ASSUME TypeOK, [Next]_vars
  PROVE  \/ Accept \/ Fail \/ \E f \in Fds : Close(f)
         \/ Open' = Open
<1> SUFFICES ASSUME ~Accept, ~Fail, \A f \in Fds : ~Close(f) PROVE Open' = Open
  OBVIOUS
<1>1. ASSUME NEW f \in Fds, Read(f) PROVE Open' = Open
  BY <1>1, ReadIs
<1>2. CASE Arriving
  BY <1>2 DEF Arriving, Arrive, ArriveEarly, Open
<1>3. ASSUME NEW c \in Clients, NEW command \in Commands, Send(c, command)
      PROVE Open' = Open
  BY <1>3, SendIs DEF Open
<1>4. ASSUME NEW c \in Clients, Leave(c) PROVE Open' = Open
  BY <1>4, LeaveIs DEF Open
<1>5. CASE Untouched \/ \E c \in Clients : Connect(c)
  BY <1>5 DEF Untouched, Open, Connect
<1> QED
  BY <1>1, <1>2, <1>3, <1>4, <1>5, Quiet DEF Next, Arriving, Poll, ReadFails, HangUp, Client
-----------------------------------------------------------------------------
LEMMA PollSetPreserved ==
  TypeOK /\ ConnectsOK /\ PollSetMatches /\ [Next]_vars => PollSetMatches'
<1> SUFFICES ASSUME TypeOK, ConnectsOK, PollSetMatches, [Next]_vars, Up'
             PROVE  /\ server'.set = Open' \cup {Listener}
                    /\ \A f \in server'.set : f < server'.max
                    /\ server'.max <= server'.size
  BY DEF PollSetMatches
<1>0. /\ server.size \in Nat /\ server.max \in Nat /\ server.set \subseteq Fds \cup {Listener}
      /\ SockOK
  BY Types DEF ServerType
<1>1. CASE Accept
  <2>1. PICK n \in Fds, size \in Nat, max \in Nat, s \in Nat, m \in Nat :
          /\ n = NewFd /\ s = server.size /\ m = server.max
          /\ size = server'.size /\ max = server'.max
    BY <1>0, <1>1, AcceptedIs DEF ServerType
  <2>2. /\ Open' = Open \cup {n} /\ server'.set = server.set \cup {n}
        /\ size = IF n >= s THEN n + PollSetSize ELSE s
        /\ max = IF n + 1 >= m THEN n + 1 ELSE m
    BY <1>1, <2>1, AcceptedIs
  <2>3. Up
    BY <1>1, ListenerPolled DEF Accept, Up
  <2>4. server.set = Open \cup {Listener} /\ (\A f \in server.set : f < m) /\ m <= s
    BY <2>1, <2>3 DEF PollSetMatches
  <2>5. n \in Nat /\ PollSetSize \in Nat /\ PollSetSize > 3
    BY <2>1, Bounds
  <2>6. max <= size
    BY <2>1, <2>2, <2>4, <2>5
  <2>7. \A f \in server.set : f < max
    <3> SUFFICES ASSUME NEW f \in server.set PROVE f < max
      OBVIOUS
    <3>1. f \in Nat /\ f < m
      BY <1>0, <2>4, Bounds
    <3> QED
      BY <2>1, <2>2, <2>5, <3>1
  <2>8. n < max
    BY <2>1, <2>2, <2>5
  <2> QED
    BY <2>1, <2>2, <2>4, <2>6, <2>7, <2>8
<1>2. ASSUME NEW f \in Fds, Close(f)
      PROVE  /\ server'.set = Open' \cup {Listener}
             /\ \A g \in server'.set : g < server'.max
             /\ server'.max <= server'.size
  <2>1. /\ server'.set = server.set \ {f} /\ Open' = Open \ {f} /\ server.pc = "poll"
        /\ server'.size = server.size /\ server'.max = server.max
    BY <1>2, ClosedIs
  <2>2. PollSetMatches /\ Up /\ f # Listener
    BY <2>1, Bounds DEF Up
  <2> QED
    BY <2>1, <2>2 DEF PollSetMatches
<1>3. CASE Fail
  BY <1>3, FailIs
<1>4. CASE Open' = Open /\ ~Accept /\ ~Fail /\ ~\E f \in Fds : Close(f)
  <2>1. /\ server'.set = server.set /\ server'.size = server.size
        /\ server'.max = server.max /\ Up
    BY <1>4, ServerSteps, ReadIs, MoveIs DEF Up
  <2> QED
    BY <1>4, <2>1 DEF PollSetMatches
<1> QED
  BY <1>1, <1>2, <1>3, <1>4, OpenSteps

LEMMA OpenIsFinite ==
  ASSUME TypeOK PROVE IsFiniteSet(Open) /\ Cardinality(Open) \in Nat
<1>1. 4 \in Int /\ 3 + MaxConnects \in Int /\ Open \subseteq Fds
  BY Bounds, Types DEF SockOK
<1>2. IsFiniteSet(Fds)
  BY <1>1, FS_Interval DEF Fds
<1>3. IsFiniteSet(Open)
  BY <1>1, <1>2, FS_Subset
<1> QED
  BY <1>3, FS_CardinalityType

LEMMA ConnectsPreserved == TypeOK /\ ConnectsOK /\ [Next]_vars => ConnectsOK'
<1> SUFFICES ASSUME TypeOK, ConnectsOK, [Next]_vars
             PROVE  Cardinality(Open') + Len(backlog') <= MaxConnects
  BY DEF ConnectsOK
<1>0. /\ backlog \in Seq(Connections) /\ Len(backlog) \in Nat /\ SockOK
      /\ MaxConnects \in Nat /\ IsFiniteSet(Open) /\ Cardinality(Open) \in Nat
      /\ Cardinality(Open) + Len(backlog) <= MaxConnects
  BY Types, Bounds, LenProperties, OpenIsFinite DEF ConnectsOK
<1>1. CASE Accept
  <2>1. NewFd \notin Open /\ Open' = Open \cup {NewFd} /\ backlog # <<>>
    BY <1>1, AcceptedIs, ListenerPolled DEF Accept
  <2>2. Cardinality(Open') = Cardinality(Open) + 1
    BY <1>0, <2>1, FS_AddElement
  <2>3. Len(backlog') = Len(backlog) - 1
    BY <1>0, <1>1, <2>1, HeadTailProperties DEF Accept
  <2> QED
    BY <1>0, <2>2, <2>3
<1>2. ASSUME NEW f \in Fds, Close(f)
      PROVE Cardinality(Open') + Len(backlog') <= MaxConnects
  <2>1. Open' = Open \ {f} /\ f \in Open /\ backlog' = backlog
    BY <1>2, ClosedIs DEF Close
  <2>2. Cardinality(Open') = Cardinality(Open) - 1
    BY <1>0, <2>1, FS_RemoveElement
  <2> QED
    BY <1>0, <2>1, <2>2
<1>3. CASE Fail
  <2>1. Open' = {} /\ Len(backlog') = 0
    BY <1>3, FailIs, Nothing DEF Open
  <2>2. Cardinality(Open') = 0
    BY <2>1, FS_EmptySet
  <2> QED
    BY <1>0, <2>1, <2>2
<1>4. CASE Open' = Open /\ ~Accept /\ ~Fail /\ ~\E f \in Fds : Close(f)
  <2>1. ASSUME NEW c \in Clients, Connect(c)
        PROVE Cardinality(Open) + Len(backlog') <= MaxConnects
    <3>1. NewConnection(c) \in Connections
      BY EmptySeq DEF NewConnection, Connections
    <3>2. Len(backlog') = Len(backlog) + 1
      BY <1>0, <2>1, <3>1, AppendProperties DEF Connect
    <3>3. Cardinality(Open) + Len(backlog) < MaxConnects
      BY <2>1 DEF Connect
    <3> QED
      BY <1>0, <3>2, <3>3
  <2>2. ASSUME NEW c \in Clients, NEW command \in Commands, Send(c, command)
        PROVE Len(backlog') = Len(backlog)
    <3>1. DOMAIN backlog' = DOMAIN backlog
      BY <2>2, SendIs
    <3>2. backlog' \in Seq(Connections)
      BY SockPreserved
    <3> QED
      BY <1>0, <3>1, <3>2, SameLength
  <2>3. ASSUME NEW c \in Clients, Leave(c)
        PROVE Len(backlog') = Len(backlog)
    <3>1. DOMAIN backlog' = DOMAIN backlog
      BY <2>3, LeaveIs DEF Leave
    <3>2. backlog' \in Seq(Connections)
      BY SockPreserved
    <3> QED
      BY <1>0, <3>1, <3>2, SameLength
  <2>4. CASE Arriving
    <3>1. DOMAIN backlog' = DOMAIN backlog
      BY <2>4 DEF Arriving, Arrive, ArriveEarly
    <3>2. backlog' \in Seq(Connections)
      BY SockPreserved
    <3>3. Len(backlog') = Len(backlog)
      BY <1>0, <3>1, <3>2, SameLength
    <3> QED
      BY <1>0, <1>4, <3>1, <3>3
  <2>5. ASSUME NEW f \in Fds, Read(f) PROVE backlog' = backlog
    BY <1>4, <2>5, ReadIs DEF Read
  <2>6. CASE Untouched
    BY <1>0, <1>4, <2>6 DEF Untouched
  <2> QED
    BY <1>0, <1>4, <2>1, <2>2, <2>3, <2>4, <2>5, <2>6, Quiet
       DEF Next, Arriving, Poll, ReadFails, HangUp, Client
<1> QED
  BY <1>1, <1>2, <1>3, <1>4, OpenSteps

LEMMA DownPreserved == TypeOK /\ DownOK /\ [Next]_vars => DownOK'
<1> SUFFICES ASSUME TypeOK, DownOK, [Next]_vars, ~Up'
             PROVE  sock' = <<>> /\ backlog' = <<>>
  BY DEF DownOK
<1>1. CASE Fail
  BY <1>1, FailIs
<1>2. CASE ~Fail
  <2>1. UNCHANGED server /\ ~Up /\ sock = <<>> /\ backlog = <<>>
    <3>1. server.pc = "down" => sock = <<>> /\ backlog = <<>>
      BY DEF DownOK, Up
    <3>2. ~Accept /\ ~handleMoveRover /\ ~\E f \in Fds : Close(f) \/ Read(f)
      <4>1. Accept => server'.pc = "poll"
        <5>1. Accept => server.pc = "poll" /\ server' = Accepted(NewFd)
          BY ListenerPolled DEF Accept
        <5>2. Accept => server'.pc = server.pc
          BY <5>1, Types DEF Accepted, addToPollSet, ServerType
        <5> QED
          BY <5>1, <5>2
      <4>2. handleMoveRover => server'.pc # "down"
        BY MoveIs
      <4>3. ASSUME NEW f \in Fds, Close(f) PROVE server'.pc = "poll"
        BY <4>3, ClosedIs
      <4>4. ASSUME NEW f \in Fds, Read(f) PROVE server'.pc # "down"
        BY <1>2, <4>4, ReadIs
      <4> QED
        BY <4>1, <4>2, <4>3, <4>4 DEF Up
    <3>3. UNCHANGED server
      BY <1>2, <3>2, ServerSteps
    <3> QED
      BY <3>1, <3>3 DEF Up
  <2>2. CASE Untouched
    BY <2>1, <2>2 DEF Untouched
  <2>3. ASSUME NEW c \in Clients, Leave(c) PROVE sock' = <<>> /\ backlog' = <<>>
    <3>1. DOMAIN sock = {} /\ DOMAIN backlog = {}
      BY <2>1, Nothing
    <3>2. DOMAIN sock' = {} /\ DOMAIN backlog' = {}
      BY <2>3, <3>1, LeaveIs DEF Open
    <3> QED
      BY <2>3, <3>1, <3>2, LeaveIs DEF Open
  <2>4. ASSUME NEW c \in Clients, Connect(c) \/ \E command \in Commands : Send(c, command)
        PROVE FALSE
    BY <2>1, <2>4 DEF Connect, Send, Up
  <2>5. CASE Arriving
    BY <2>1, <2>5, Nothing DEF Arriving, Arrive, ArriveEarly, Open
  <2>6. ASSUME NEW f \in Fds, Read(f) \/ Close(f) PROVE FALSE
    BY <2>1, <2>6 DEF Read, Close, pollCall, Up
  <2>7. ~Accept
    BY <2>1 DEF Accept, pollCall, Up
  <2> QED
    BY <1>2, <2>2, <2>3, <2>4, <2>5, <2>6, <2>7, Quiet
       DEF Next, Arriving, Poll, ReadFails, HangUp, Client
<1> QED
  BY <1>1, <1>2
-----------------------------------------------------------------------------
(* The rover and what handleMoveRover knows of it.                         *)
LEMMA RoverPreserved == TypeOK /\ [Next]_vars => rover' \in RoverType
<1> SUFFICES ASSUME TypeOK, [Next]_vars PROVE rover' \in RoverType
  OBVIOUS
<1>0. rover \in RoverType
  BY Types
<1>1. CASE Stop \/ Steer \/ Await \/ Drive \/ Settle
  BY <1>0, <1>1 DEF Stop, Steer, Await, Drive, Settle, Told, Gait, RoverType
<1>2. CASE UNCHANGED rover
  BY <1>0, <1>2
<1> QED
  BY <1>1, <1>2 DEF Next, Poll, Accept, Read, Close, ReadFails, HangUp, handleMoveRover,
     Arriving, Arrive, ArriveEarly, Client, Connect, ReadGreeting, Send, Receive, Leave, vars

LEMMA GotoIs ==
  ASSUME TypeOK, NEW pc, Goto(pc)
  PROVE  server'.pc = pc /\ (pc # "poll" => server'.job = server.job)
BY Types DEF Goto, ServerType

LEMMA MovePreserved == TypeOK /\ ConnectsOK /\ MoveOK /\ [Next]_vars => MoveOK'
<1> SUFFICES ASSUME TypeOK, ConnectsOK, MoveOK, [Next]_vars PROVE MoveOK'
  OBVIOUS
<1>0. server \in ServerType /\ rover \in RoverType
  BY Types
<1>1. CASE Accept
  BY <1>1, AcceptedIs DEF MoveOK
<1>2. CASE Fail
  BY <1>2, FailIs DEF MoveOK
<1>3. ASSUME NEW f \in Fds, Close(f) PROVE MoveOK'
  BY <1>3, ClosedIs DEF MoveOK
<1>4. ASSUME NEW f \in Fds, Read(f), ~Fail PROVE MoveOK'
  <2>1. server'.pc = "poll" \/ (server'.pc = "stop" /\ server'.job \in Moves)
    BY <1>4, ReadIs
  <2> QED
    BY <2>1 DEF MoveOK
<1>5. CASE Stop
  <2>1. server.pc = "stop" /\ rover'.wheels = "stopped"
    BY <1>0, <1>5 DEF Stop, Told, RoverType
  <2>2. server'.pc = (IF server.job = "Stop" THEN "poll" ELSE "steer")
    BY <1>5, GotoIs DEF Stop
  <2>3. server'.pc = "steer" => server'.job = server.job /\ server.job # "Stop"
    BY <1>5, <2>2, GotoIs DEF Stop
  <2> QED
    BY <2>1, <2>2, <2>3 DEF MoveOK
<1>6. CASE Steer
  <2>1. /\ server.pc = "steer" /\ rover'.wheels = rover.wheels
        /\ server.job \in Straight => rover'.steer = "forward"
    BY <1>0, <1>6 DEF Steer, Told, RoverType
  <2>2. /\ server'.pc = (IF server.job \in Straight THEN "await" ELSE "drive")
        /\ server'.job = server.job
    BY <1>6, GotoIs DEF Steer
  <2> QED
    BY <2>1, <2>2 DEF MoveOK
<1>7. CASE Await
  <2>1. server.pc = "await" /\ rover' = rover /\ rover.done
    BY <1>7 DEF Await
  <2>2. server'.pc = "drive" /\ server'.job = server.job
    BY <1>7, GotoIs DEF Await
  <2> QED
    BY <2>1, <2>2 DEF MoveOK
<1>8. CASE Drive
  <2>1. server'.pc = "poll"
    BY <1>8, GotoIs DEF Drive
  <2> QED
    BY <2>1 DEF MoveOK
<1>9. CASE Settle
  <2>1. server' = server /\ rover'.wheels = rover.wheels /\ rover'.steer = rover.steer
        /\ rover'.done = TRUE
    BY <1>0, <1>9 DEF Settle, RoverType
  <2> QED
    BY <2>1 DEF MoveOK
<1>10. CASE UNCHANGED <<server, rover>>
  BY <1>10 DEF MoveOK
<1>11. rover' = rover \/ handleMoveRover \/ Settle
  BY DEF Next, Poll, Accept, Read, Close, ReadFails, HangUp, Arriving, Arrive,
         ArriveEarly, Client, Connect,
         ReadGreeting, Send, Receive, Leave, vars
<1> QED
  BY <1>1, <1>2, <1>3, <1>4, <1>5, <1>6, <1>7, <1>8, <1>9, <1>10, <1>11, ServerSteps
     DEF handleMoveRover
-----------------------------------------------------------------------------
(* The clients and their mail.                                             *)
LEMMA BecomesType ==
  ASSUME client \in ClientType, NEW c \in Clients,
         NEW st \in {"off", "new", "ready", "waiting"},
         NEW cmd \in Commands \cup {Nobody}, Becomes(c, st, cmd)
  PROVE  /\ client' \in ClientType /\ client'[c] = [st |-> st, cmd |-> cmd]
         /\ \A d \in Clients : d # c => client'[d] = client[d]
BY DEF Becomes, ClientType

LEMMA ClientPreserved == TypeOK /\ [Next]_vars => client' \in ClientType
<1> SUFFICES ASSUME TypeOK, [Next]_vars PROVE client' \in ClientType
  OBVIOUS
<1>0. client \in ClientType
  BY Types
<1>1. ASSUME NEW c \in Clients, Client(c) PROVE client' \in ClientType
  <2>1. \E st \in {"off", "new", "ready", "waiting"}, cmd \in Commands \cup {Nobody} :
          Becomes(c, st, cmd)
    BY <1>1, Zenon DEF Client, Connect, ReadGreeting, Send, Receive, Leave
  <2> QED
    BY <1>0, <2>1, BecomesType
<1>2. CASE UNCHANGED client
  BY <1>0, <1>2
<1> QED
  BY <1>1, <1>2 DEF Next, Poll, Accept, Read, Close, ReadFails, HangUp, handleMoveRover,
     Stop, Steer, Await, Drive, Told, Settle, Arriving, Arrive, ArriveEarly, vars

LEMMA MailPreserved ==
  TypeOK /\ ConnectsOK /\ [Next]_vars => mail' \in [Clients -> Seq(AllAnswers)]
<1> SUFFICES ASSUME TypeOK, ConnectsOK, [Next]_vars
             PROVE  mail' \in [Clients -> Seq(AllAnswers)]
  OBVIOUS
<1>0. mail \in [Clients -> Seq(AllAnswers)] /\ SockOK /\ backlog \in Seq(Connections)
  BY Types
<1>1. CASE Accept
  <2>1. backlog # <<>> /\ "ACK-0" \in AllAnswers
    BY <1>1, ListenerPolled DEF Accept, AllAnswers
  <2>2. Head(backlog) \in Connections
    BY <1>0, <2>1, HeadTailProperties
  <2> QED
    BY <1>0, <1>1, <2>1, <2>2, PostedType DEF Accept
<1>2. ASSUME NEW f \in Fds, Read(f), ~Fail PROVE mail' \in [Clients -> Seq(AllAnswers)]
  <2>1. f \in Open /\ sock[f].in # <<>> /\ Head(sock[f].in) # Padding
    BY <1>2 DEF Read
  <2>2. Head(sock[f].in) \in Commands
    <3>1. sock[f].in \in Seq(Bytes)
      BY <1>0, <2>1, ConnectionFields DEF SockOK
    <3> QED
      BY <2>1, <3>1, HeadTailProperties DEF Bytes
  <2>3. /\ server.worker \in Open
        /\ \E answer \in Answers(Head(sock[f].in)) : mail' = Posted(sock[server.worker], answer)
    BY <1>2 DEF Read
  <2> QED
    BY <1>0, <2>2, <2>3, PostedType, AnswersType DEF SockOK
<1>3. ASSUME NEW c \in Clients, mail' = [mail EXCEPT ![c] = <<>>]
      PROVE  mail' \in [Clients -> Seq(AllAnswers)]
  BY <1>0, <1>3, EmptySeq
<1>4. CASE UNCHANGED mail
  BY <1>0, <1>4
<1> QED
  BY <1>1, <1>2, <1>3, <1>4 DEF Next, Poll, Read, Close, ReadFails, HangUp, handleMoveRover,
     Stop, Steer, Await, Drive, Told, Settle, Arriving, Arrive, ArriveEarly, vars,
     Fail, Client, Connect,
     ReadGreeting, Send, Receive, Leave

LEMMA TypePreserved == TypeOK /\ ConnectsOK /\ [Next]_vars => TypeOK'
<1> SUFFICES ASSUME TypeOK, ConnectsOK, [Next]_vars PROVE TypeOK'
  OBVIOUS
<1>1. orderly' \in BOOLEAN
  BY DEF TypeOK, Next, Poll, Accept, Read, Close, ReadFails, HangUp, handleMoveRover,
     Stop, Steer, Await, Drive, Told, Settle, Arriving, Arrive, ArriveEarly, vars, Client, Connect,
     ReadGreeting, Send, Receive, Leave
<1>2. SockOK' /\ backlog' \in Seq(Connections)
  BY SockPreserved
<1>3. server' \in ServerType /\ client' \in ClientType /\ rover' \in RoverType
  BY ServerPreserved, ClientPreserved, RoverPreserved
<1>4. mail' \in [Clients -> Seq(AllAnswers)]
  BY MailPreserved
<1> QED
  BY <1>1, <1>2, <1>3, <1>4
     DEF TypeOK, ServerType, Pcs, SockOK, Open, ClientType, RoverType
-----------------------------------------------------------------------------
(* The sessions of orderly clients.                                        *)
LEMMA Texts2 ==
  /\ \A a : <<a>> # <<>> /\ Len(<<a>>) = 1 /\ <<a>>[1] = a
  /\ \A a, b : <<a, b>> # <<>> /\ Len(<<a, b>>) = 2 /\ Head(<<a, b>>) = a
               /\ <<a, b>>[1] = a
               /\ <<>> \o <<a, b>> = <<a, b>> /\ SubSeq(<<a, b>>, 3, 2) = <<>>
<1>1. ASSUME NEW a, NEW b PROVE SubSeq(<<a, b>>, 3, 2) = <<>>
  BY SubSeqEmpty
<1>2. ASSUME NEW a, NEW b PROVE <<>> \o <<a, b>> = <<a, b>>
  <2>1. <<a, b>> \in Seq({a, b})
    OBVIOUS
  <2> QED
    BY <2>1, ConcatEmptySeq
<1> QED
  BY <1>1, <1>2

LEMMA NamesDiffer ==
  /\ Nobody \notin Clients
  /\ \A command \in Commands : command # Padding /\ command # Nobody
BY ControlServerAssumption DEF Nobody, Padding, Moves

(* While Session(c) lasts only c is there; without a client all are off.   *)
LEMMA OnlyInFacts ==
  ASSUME NEW c \in Clients, NEW st, NEW cmd, NEW letters, OnlyIn(c, st, cmd, letters)
  PROVE  /\ client[c].st = st /\ client[c].cmd = cmd /\ mail[c] = letters
         /\ \A d \in Clients : d # c => client[d].st = "off" /\ mail[d] = <<>>
BY DEF OnlyIn

LEMMA SessionFacts ==
  ASSUME NEW c \in Clients, Session(c)
  PROVE  /\ client[c].st # "off"
         /\ \A d \in Clients : d # c => client[d].st = "off" /\ mail[d] = <<>>
         /\ client[c].st = "new" /\ mail[c] # <<>> => Greeted(c)
         /\ client[c].st = "ready" => Idle(c)
         /\ client[c].st = "waiting" /\ mail[c] # <<>> => Delivered(c)
<1>1. CASE Queued(c)
  <2>1. OnlyIn(c, "new", Nobody, <<>>)
    BY <1>1 DEF Queued
  <2>2. /\ client[c].st = "new" /\ mail[c] = <<>>
        /\ \A d \in Clients : d # c => client[d].st = "off" /\ mail[d] = <<>>
    BY <2>1, OnlyInFacts
  <2> QED
    BY <2>2
<1>2. CASE Greeted(c)
  <2>1. OnlyIn(c, "new", Nobody, <<"ACK-0">>)
    BY <1>2 DEF Greeted
  <2>2. /\ client[c].st = "new"
        /\ \A d \in Clients : d # c => client[d].st = "off" /\ mail[d] = <<>>
    BY <2>1, OnlyInFacts
  <2> QED
    BY <1>2, <2>2
<1>3. CASE Idle(c)
  <2>1. OnlyIn(c, "ready", Nobody, <<>>)
    BY <1>3 DEF Idle
  <2>2. /\ client[c].st = "ready" /\ mail[c] = <<>>
        /\ \A d \in Clients : d # c => client[d].st = "off" /\ mail[d] = <<>>
    BY <2>1, OnlyInFacts
  <2> QED
    BY <1>3, <2>2
<1>4. CASE Asked(c)
  <2>1. PICK m \in Commands : OnlyIn(c, "waiting", m, <<>>)
    BY <1>4 DEF Asked
  <2>2. /\ client[c].st = "waiting" /\ mail[c] = <<>>
        /\ \A d \in Clients : d # c => client[d].st = "off" /\ mail[d] = <<>>
    BY <2>1, OnlyInFacts
  <2> QED
    BY <2>2
<1>5. CASE Delivered(c)
  <2>1. PICK m \in Commands : \E a \in Answers(m) : OnlyIn(c, "waiting", m, <<a>>)
    BY <1>5 DEF Delivered
  <2>3. PICK a : OnlyIn(c, "waiting", m, <<a>>)
    BY <2>1
  <2>2. /\ client[c].st = "waiting"
        /\ \A d \in Clients : d # c => client[d].st = "off" /\ mail[d] = <<>>
    BY <2>3, OnlyInFacts
  <2> QED
    BY <1>5, <2>2
<1> QED
  BY <1>1, <1>2, <1>3, <1>4, <1>5 DEF Session

(* The connections: those left behind, and the one of the client.          *)
LEMMA ConnectionsThen ==
  ASSUME OrderlyOK, orderly, NEW f \in Open
  PROVE  \/ sock[f] = Quit
         \/ \E c \in Clients : \E bytes :
              /\ Session(c) /\ f = server.worker /\ Holds(c, bytes)
              /\ \/ bytes = <<>>
                 \/ \E m \in Commands : /\ bytes = <<m, Padding>> /\ Asked(c)
                                        /\ OnlyIn(c, "waiting", m, <<>>)
<1>1. CASE f # server.worker
  BY <1>1 DEF OrderlyOK, OthersQuit
<1>2. CASE f = server.worker
  <2>1. CASE Empty
    BY <1>2, <2>1 DEF Empty
  <2>2. ASSUME NEW c \in Clients, Session(c)
        PROVE  \/ sock[f] = Quit
               \/ \E bytes : /\ Holds(c, bytes)
                             /\ \/ bytes = <<>>
                                \/ \E m \in Commands :
                                     /\ bytes = <<m, Padding>> /\ Asked(c)
                                     /\ OnlyIn(c, "waiting", m, <<>>)
    BY <1>2, <2>2 DEF Session, Queued, Greeted, Idle, Asked, Delivered
  <2> QED
    BY <1>2, <2>1, <2>2 DEF OrderlyOK
<1> QED
  BY <1>1, <1>2

LEMMA NothingLate ==
  ASSUME OrderlyOK, orderly
  PROVE  /\ \A f \in Open : ~sock[f].late /\ sock[f].end \in {"open", "closed"}
         /\ \A i \in DOMAIN backlog : ~backlog[i].late
<1>1. ASSUME NEW f \in Open PROVE ~sock[f].late /\ sock[f].end \in {"open", "closed"}
  <2>1. CASE sock[f] = Quit
    BY <2>1 DEF Quit
  <2>2. ASSUME NEW c \in Clients, NEW bytes, f = server.worker, Holds(c, bytes)
        PROVE  ~sock[f].late /\ sock[f].end \in {"open", "closed"}
    BY <2>2 DEF Holds
  <2> QED
    BY <2>1, <2>2, ConnectionsThen
<1>2. \A i \in DOMAIN backlog : ~backlog[i].late
  <2>1. backlog = <<>> \/ \E c \in Clients : backlog = <<NewConnection(c)>>
    BY DEF OrderlyOK, Empty, Session, Queued, Greeted, Idle, Asked, Delivered, Holds
  <2>2. \A c : ~NewConnection(c).late
    BY DEF NewConnection
  <2> QED
    BY <2>1, <2>2, Nothing
<1> QED
  BY <1>1, <1>2

(* A step that changes neither connections nor clients nor worker.         *)
LEMMA SessionsKept ==
  ASSUME OrderlyOK, UNCHANGED <<orderly, sock, backlog, client, mail>>,
         server'.worker = server.worker, orderly => Up'
  PROVE  OrderlyOK'
<1>1. OthersQuit => OthersQuit'
  BY DEF OthersQuit, Open
<1>2. Empty => Empty'
  BY DEF Empty, NoneIn, Open
<1>3. ASSUME NEW c \in Clients, Session(c) PROVE Session(c)'
  <2>1. Queued(c) => Queued(c)'
    BY DEF Queued, OnlyIn, Open
  <2>2. Greeted(c) => Greeted(c)'
    BY DEF Greeted, OnlyIn, Holds, Open
  <2>3. Idle(c) => Idle(c)'
    BY DEF Idle, OnlyIn, Holds, Open
  <2>4. Asked(c) => Asked(c)'
    BY DEF Asked, OnlyIn, Holds, Open
  <2>5. Delivered(c) => Delivered(c)'
    BY DEF Delivered, OnlyIn, Holds, Open
  <2> QED
    BY <1>3, <2>1, <2>2, <2>3, <2>4, <2>5 DEF Session
<1> QED
  BY <1>1, <1>2, <1>3 DEF OrderlyOK

LEMMA OrderlyAccept ==
  ASSUME TypeOK, ConnectsOK, OrderlyOK, orderly, Accept PROVE OrderlyOK'
<1>1. backlog # <<>> /\ NewFd \notin Open /\ Open' = Open \cup {NewFd}
      /\ server'.worker = NewFd /\ server'.pc = "poll"
  BY ListenerPolled, AcceptedIs DEF Accept
<1>2. PICK c \in Clients : Queued(c)
  BY <1>1 DEF OrderlyOK, Empty, Session, Greeted, Idle, Asked, Delivered, Holds
<1>3. Head(backlog) = NewConnection(c) /\ Tail(backlog) = <<>> /\ mail[c] = <<>>
      /\ backlog = <<NewConnection(c)>>
  BY <1>2 DEF Queued, OnlyIn
<1>4. /\ sock'[NewFd] = NewConnection(c)
      /\ \A f \in Open : sock'[f] = sock[f]
  <2>1. /\ sock'[NewFd] = AfterSend(Head(backlog))
        /\ \A f \in Open : sock'[f] = sock[f]
    BY <1>1 DEF Accept
  <2>2. AfterSend(NewConnection(c)) = NewConnection(c)
    BY DEF AfterSend, NewConnection
  <2> QED
    BY <1>3, <2>1, <2>2
<1>5. \A f \in Open : sock[f] = Quit
  BY <1>2 DEF OrderlyOK, OthersQuit, Queued
<1>6. mail' = [mail EXCEPT ![c] = <<"ACK-0">>]
  <2>1. NewConnection(c).peer = c
    BY DEF NewConnection
  <2>2. Append(<<>>, "ACK-0") = <<"ACK-0">>
    OBVIOUS
  <2> QED
    BY <1>3, <2>1, <2>2 DEF Accept, Posted
<1>7. OnlyIn(c, "new", Nobody, <<"ACK-0">>)'
  BY <1>2, <1>6, Types DEF Queued, OnlyIn, Accept
<1>8. Holds(c, <<>>)'
  BY <1>1, <1>3, <1>4 DEF Holds, Accept, NewConnection
<1>9. OthersQuit' /\ Up' /\ orderly' = orderly
  BY <1>1, <1>4, <1>5 DEF OthersQuit, Up, Accept
<1> QED
  BY <1>7, <1>8, <1>9 DEF OrderlyOK, Session, Greeted

(* A connection is what its fields say.                                    *)
LEMMA ConnectionIs ==
  ASSUME NEW s \in Connections, NEW peer, NEW end, NEW in,
         s.peer = peer, s.end = end, s.in = in, ~s.late
  PROVE  s = [peer |-> peer, end |-> end, in |-> in, late |-> FALSE]
BY DEF Connections

LEMMA SentFields ==
  ASSUME NEW s \in Connections, NEW command \in Commands
  PROVE  /\ Sent(s, command, FALSE).peer = s.peer /\ Sent(s, command, FALSE).end = s.end
         /\ Sent(s, command, FALSE).in = s.in \o <<command, Padding>>
         /\ ~Sent(s, command, FALSE).late
<1>1. PICK in \in Seq(Bytes) : in = s.in \o <<command, Padding>>
  <2>1. s.in \in Seq(Bytes) /\ <<command, Padding>> \in Seq(Bytes)
    BY ConnectionFields DEF Bytes
  <2> QED
    BY <2>1, ConcatProperties
<1>2. Sent(s, command, FALSE) = [s EXCEPT !.in = in, !.late = FALSE]
  BY <1>1 DEF Sent, Texts
<1> QED
  BY <1>1, <1>2 DEF Connections

LEMMA AbandonedFields ==
  ASSUME NEW s \in Connections, ~s.late
  PROVE  /\ Abandoned(s, <<>>).peer = Nobody /\ Abandoned(s, <<>>).end = "closed"
         /\ Abandoned(s, <<>>).in = s.in /\ ~Abandoned(s, <<>>).late
<1>1. PICK late \in BOOLEAN : late = (<<>> = <<>> /\ s.late)
  BY Zenon
<1>2. ~late
  BY <1>1, Zenon
<1>3. Abandoned(s, <<>>) = [s EXCEPT !.peer = Nobody, !.end = "closed", !.late = late]
  BY <1>1, Zenon DEF Abandoned
<1> QED
  BY <1>2, <1>3 DEF Connections

(* A command is read on the connection it is answered on.                  *)
LEMMA OrderlyRead ==
  ASSUME TypeOK, OrderlyOK, orderly, NEW f \in Fds, Read(f) PROVE OrderlyOK'
<1>1. f \in Open /\ sock[f].in # <<>> /\ Head(sock[f].in) # Padding
  BY DEF Read
<1>2. PICK c \in Clients, m \in Commands :
        /\ f = server.worker /\ Holds(c, <<m, Padding>>) /\ OnlyIn(c, "waiting", m, <<>>)
  <2>1. Quit.in = <<>>
    BY DEF Quit
  <2>2. \A c, bytes : f = server.worker /\ Holds(c, bytes) => sock[f].in = bytes
    BY DEF Holds
  <2> QED
    BY <1>1, <2>1, <2>2, ConnectionsThen
<1>3. PICK in, none : in = <<m, Padding>> /\ none = <<>>
  OBVIOUS
<1>4. sock[f] = [peer |-> c, end |-> "open", in |-> in, late |-> FALSE] /\ backlog = <<>>
  BY <1>2, <1>3 DEF Holds
<1>5. Len(in) = 2 /\ in[1] = m /\ Head(in) = m /\ SubSeq(in, 3, 2) = <<>> /\ m # Padding
  BY <1>3, Texts2, NamesDiffer
<1>6. Received(sock[f]) = 2
  BY <1>4, <1>5 DEF Received
<1>7. ~Fail
  <2>1. server.worker \in Open /\ ~MayFail(sock[server.worker])
    BY <1>1, <1>2, <1>4 DEF MayFail
  <2>2. CASE Fail
    <3>1. sock' = <<>>
      BY <2>2 DEF Fail
    <3>2. Open' = {} /\ f \in Open
      BY <1>1, <3>1, Nothing DEF Open
    <3>3. \A answer : sock' # [Taken(f) EXCEPT ![server.worker] = AfterSend(@)]
      <4>1. DOMAIN [Taken(f) EXCEPT ![server.worker] = AfterSend(@)] = Open
        BY <1>1, Types, TakenType
      <4> QED
        BY <3>2, <4>1 DEF Open
    <3> QED
      BY <2>1, <3>3 DEF Read
  <2> QED
    BY <2>2
<1>8. /\ server'.worker = server.worker /\ Open' = Open /\ backlog' = <<>>
      /\ server'.pc \in {"poll", "stop"} /\ orderly' = orderly
  BY <1>4, <1>7, ReadIs DEF Read
<1>9. /\ sock' = [Taken(f) EXCEPT ![f] = AfterSend(@)]
      /\ \E answer \in Answers(m) : mail' = Posted(sock[f], answer)
  BY <1>2, <1>4, <1>5, <1>7 DEF Read
<1>10. /\ DOMAIN Taken(f) = Open /\ \A g \in Open \ {f} : Taken(f)[g] = sock[g]
       /\ Taken(f)[f] = [sock[f] EXCEPT !.in = <<>>]
  <2>1. Received(sock[f]) + 1 = 3 /\ sock[f].in = in
    BY <1>4, <1>6
  <2> QED
    BY <1>1, <1>5, <2>1, Types, TakenType
<1>11. /\ sock'[f] = [peer |-> c, end |-> "open", in |-> <<>>, late |-> FALSE]
       /\ \A g \in Open \ {f} : sock'[g] = sock[g]
  <2>1. sock[f] \in Connections /\ Taken(f)[f] \in Connections
    BY <1>1, Types, TakenType DEF SockOK
  <2>2. /\ sock[f].peer = c /\ sock[f].end = "open" /\ ~sock[f].late
    BY <1>4
  <2>3. PICK r \in Connections : r = Taken(f)[f]
    BY <2>1
  <2>4. r.peer = c /\ r.end = "open" /\ r.in = none /\ ~r.late
    <3>1. r = [sock[f] EXCEPT !.in = none]
      BY <1>10, <1>3, <2>3
    <3> QED
      BY <2>1, <2>2, <3>1 DEF Connections
  <2>5. r = [peer |-> c, end |-> "open", in |-> none, late |-> FALSE]
    BY <2>4, ConnectionIs
  <2>6. AfterSend(r) = r
    BY <2>4, AfterSendType
  <2> QED
    BY <1>1, <1>9, <1>10, <1>3, <2>3, <2>5, <2>6
<1>12. PICK a \in Answers(m) : mail' = [mail EXCEPT ![c] = <<a>>]
  <2>1. PICK a \in Answers(m) : mail' = Posted(sock[f], a)
    BY <1>9
  <2>2. mail[c] = <<>> /\ sock[f].peer = c /\ Append(<<>>, a) = <<a>>
    BY <1>2, <1>4 DEF OnlyIn
  <2> QED
    BY <2>1, <2>2 DEF Posted
<1>13. OnlyIn(c, "waiting", m, <<a>>)'
  BY <1>2, <1>12, Types DEF OnlyIn, Read
<1>14. Holds(c, <<>>)'
  BY <1>1, <1>2, <1>8, <1>11 DEF Holds
<1>15. OthersQuit' /\ Up'
  BY <1>2, <1>8, <1>11 DEF OrderlyOK, OthersQuit, Up
<1> QED
  BY <1>8, <1>12, <1>13, <1>14, <1>15 DEF OrderlyOK, Session, Delivered

LEMMA OrderlyClose ==
  ASSUME TypeOK, OrderlyOK, orderly, NEW f \in Fds, Close(f) PROVE OrderlyOK'
<1>1. /\ f \in Open /\ Open' = Open \ {f} /\ sock[f].end # "open" /\ server'.pc = "poll"
      /\ server'.worker = server.worker
      /\ \A g \in Open \ {f} : sock'[g] = sock[g]
      /\ UNCHANGED <<orderly, backlog, client, mail>>
  BY ClosedIs DEF Close
<1>2. \A c, bytes : Holds(c, bytes) => f # server.worker
  <2>1. \A c, bytes : Holds(c, bytes) => sock[server.worker].end = "open"
    BY DEF Holds
  <2> QED
    BY <1>1, <2>1
<1>3. \A c, bytes : Holds(c, bytes) => Holds(c, bytes)'
  BY <1>1, <1>2 DEF Holds
<1>4. OthersQuit' /\ Up'
  BY <1>1 DEF OrderlyOK, OthersQuit, Up
<1>5. \A c, st, cmd, letters : OnlyIn(c, st, cmd, letters) => OnlyIn(c, st, cmd, letters)'
  BY <1>1 DEF OnlyIn
<1>6. Empty => Empty'
  BY <1>1 DEF Empty, NoneIn
<1>7. ASSUME NEW c \in Clients, Session(c) PROVE Session(c)'
  <2>1. Queued(c) => Queued(c)'
    BY <1>1, <1>5 DEF Queued
  <2>2. Greeted(c) => Greeted(c)'
    BY <1>3, <1>5 DEF Greeted
  <2>3. Idle(c) => Idle(c)'
    BY <1>3, <1>5 DEF Idle
  <2>4. Asked(c) => Asked(c)'
    BY <1>3, <1>5 DEF Asked
  <2>5. Delivered(c) => Delivered(c)'
    BY <1>3, <1>5 DEF Delivered
  <2> QED
    BY <1>7, <2>1, <2>2, <2>3, <2>4, <2>5 DEF Session
<1> QED
  BY <1>1, <1>4, <1>6, <1>7 DEF OrderlyOK

(* Nothing an orderly client does makes a receive fail.                    *)
LEMMA OrderlyNeverFails ==
  ASSUME TypeOK, OrderlyOK, PollSetMatches, orderly
  PROVE  /\ ~HangUp /\ ~Arriving /\ \A f \in Fds : ~ReadFails(f)
<1>1. ~HangUp
  BY DEF HangUp
<1>2. ~Arriving
  BY NothingLate DEF Arriving, Arrive, ArriveEarly
<1>3. ASSUME NEW f \in Fds, ReadFails(f) PROVE FALSE
  <2>1. f \in server.set /\ Up
    BY <1>3, Polled DEF ReadFails, OrderlyOK
  <2>2. f \in Open
    BY <2>1, Bounds DEF PollSetMatches
  <2>3. sock[f].end # "reset"
    BY <2>2, NothingLate
  <2>4. sock[f].in # <<>> /\ Head(sock[f].in) = Padding
    BY <1>3, <2>2, <2>3 DEF ReadFails
  <2>5. PICK c \in Clients, m \in Commands : Holds(c, <<m, Padding>>) /\ f = server.worker
    <3>1. Quit.in = <<>>
      BY DEF Quit
    <3>2. \A c, bytes : f = server.worker /\ Holds(c, bytes) => sock[f].in = bytes
      BY DEF Holds
    <3> QED
      BY <2>2, <2>4, <3>1, <3>2, ConnectionsThen
  <2>6. sock[f].in = <<m, Padding>>
    BY <2>5 DEF Holds
  <2> QED
    BY <2>4, <2>6, NamesDiffer
<1> QED
  BY <1>1, <1>2, <1>3

LEMMA OrderlyConnect ==
  ASSUME TypeOK, OrderlyOK, orderly, NEW c \in Clients, Connect(c) PROVE OrderlyOK'
<1>1. \A d \in Clients : client[d].st = "off"
  BY DEF Connect
<1>2. Empty
  BY <1>1, SessionFacts DEF OrderlyOK
<1>3. backlog' = <<NewConnection(c)>>
  BY <1>2 DEF Empty, Connect
<1>4. OnlyIn(c, "new", Nobody, <<>>)'
  <2>1. client' = [client EXCEPT ![c] = [st |-> "new", cmd |-> Nobody]]
        /\ mail' = [mail EXCEPT ![c] = <<>>]
    BY DEF Connect, Becomes
  <2> QED
    BY <1>2, <2>1, Types DEF Empty, NoneIn, OnlyIn, ClientType
<1>5. UNCHANGED <<orderly, server, sock>>
  BY DEF Connect
<1>6. Queued(c)'
  BY <1>2, <1>3, <1>4, <1>5 DEF Queued, Empty, Open, NewConnection
<1> QED
  BY <1>5, <1>6 DEF OrderlyOK, OthersQuit, Session, Open, Up

(* The client that reads what it waits for is ready.                       *)
LEMMA OrderlyReads ==
  ASSUME TypeOK, OrderlyOK, orderly, NEW c \in Clients, ReadGreeting(c) \/ Receive(c)
  PROVE  OrderlyOK'
<1>1. /\ client[c].st \in {"new", "waiting"} /\ mail[c] # <<>>
      /\ UNCHANGED <<orderly, server, sock, backlog>>
      /\ client' = [client EXCEPT ![c] = [st |-> "ready", cmd |-> Nobody]]
      /\ mail' = [mail EXCEPT ![c] = <<>>]
  BY DEF ReadGreeting, Receive, Becomes
<1>2. Session(c)
  <2>1. ~Empty
    BY <1>1 DEF Empty, NoneIn
  <2> QED
    BY <1>1, <2>1, SessionFacts DEF OrderlyOK
<1>3. Greeted(c) \/ Delivered(c)
  BY <1>1, <1>2, SessionFacts
<1>4. PICK st, cmd, letters : OnlyIn(c, st, cmd, letters) /\ Holds(c, <<>>)
  BY <1>3 DEF Greeted, Delivered
<1>5. OnlyIn(c, "ready", Nobody, <<>>)'
  BY <1>1, <1>4, Types DEF OnlyIn, ClientType
<1>6. Holds(c, <<>>)'
  BY <1>1, <1>4 DEF Holds, Open
<1> QED
  BY <1>1, <1>5, <1>6 DEF OrderlyOK, OthersQuit, Session, Idle, Open, Up

LEMMA OrderlySend ==
  ASSUME TypeOK, OrderlyOK, orderly, NEW c \in Clients, NEW command \in Commands,
         Send(c, command)
  PROVE  OrderlyOK'
<1>1. /\ client[c].st = "ready" /\ UNCHANGED <<orderly, server, mail>>
      /\ client' = [client EXCEPT ![c] = [st |-> "waiting", cmd |-> command]]
  BY DEF Send, Becomes
<1>2. Idle(c)
  <2>1. ~Empty
    BY <1>1 DEF Empty, NoneIn
  <2> QED
    BY <1>1, <2>1, SessionFacts DEF OrderlyOK
<1>3. OnlyIn(c, "ready", Nobody, <<>>) /\ Holds(c, <<>>)
  BY <1>2 DEF Idle
<1>4. /\ sock' = [f \in Open |-> IF sock[f].peer = c
                                 THEN Sent(sock[f], command, FALSE) ELSE sock[f]]
      /\ backlog' = [i \in DOMAIN backlog |->
                       IF backlog[i].peer = c
                       THEN Sent(backlog[i], command, FALSE) ELSE backlog[i]]
  <2>1. PICK apart \in BOOLEAN :
          /\ orderly => ~apart
          /\ sock' = [f \in Open |-> IF sock[f].peer = c
                                     THEN Sent(sock[f], command, apart) ELSE sock[f]]
          /\ backlog' = [i \in DOMAIN backlog |->
                           IF backlog[i].peer = c
                           THEN Sent(backlog[i], command, apart) ELSE backlog[i]]
    BY SendIs
  <2>2. apart = FALSE
    BY <2>1, Zenon
  <2> QED
    BY <2>1, <2>2, Zenon
<1>5. backlog' = <<>>
  BY <1>3, <1>4, Nothing DEF Holds
<1>6. PICK text, none : text = <<command, Padding>> /\ none = <<>> /\ none \o text = text
  BY Texts2
<1>7. Sent(sock[server.worker], command, FALSE)
        = [peer |-> c, end |-> "open", in |-> text, late |-> FALSE]
  <2>1. PICK s \in Connections : s = sock[server.worker]
    BY <1>3, Types DEF Holds, SockOK
  <2>2. s.peer = c /\ s.end = "open" /\ s.in = none
    BY <1>3, <1>6, <2>1 DEF Holds
  <2>3. /\ Sent(s, command, FALSE).peer = c /\ Sent(s, command, FALSE).end = "open"
        /\ Sent(s, command, FALSE).in = text /\ ~Sent(s, command, FALSE).late
    BY <1>6, <2>2, SentFields
  <2>4. Sent(s, command, FALSE) \in Connections
    BY SentType
  <2> QED
    BY <2>1, <2>3, <2>4, ConnectionIs
<1>8. server.worker \in Open /\ sock[server.worker].peer = c
  BY <1>3 DEF Holds
<1>9. /\ Open' = Open /\ sock'[server.worker] = Sent(sock[server.worker], command, FALSE)
      /\ \A f \in Open : f # server.worker => sock'[f] = Quit
  <2>1. Quit.peer # c
    BY NamesDiffer DEF Quit
  <2>2. \A f \in Open : f # server.worker => sock[f] = Quit
    BY DEF OrderlyOK, OthersQuit
  <2> QED
    BY <1>4, <1>8, <2>1, <2>2 DEF Open
<1>10. Holds(c, <<command, Padding>>)'
  BY <1>1, <1>5, <1>6, <1>7, <1>8, <1>9 DEF Holds
<1>11. OnlyIn(c, "waiting", command, <<>>)'
  BY <1>1, <1>3, Types DEF OnlyIn, ClientType
<1> QED
  BY <1>1, <1>9, <1>10, <1>11 DEF OrderlyOK, OthersQuit, Session, Asked, Up

LEMMA OrderlyLeave ==
  ASSUME TypeOK, OrderlyOK, orderly, NEW c \in Clients, Leave(c) PROVE OrderlyOK'
<1>1. /\ client[c].st = "ready" /\ UNCHANGED <<orderly, server>>
      /\ client' = [client EXCEPT ![c] = [st |-> "off", cmd |-> Nobody]]
      /\ mail' = [mail EXCEPT ![c] = <<>>]
  BY DEF Leave, Becomes
<1>2. Idle(c)
  <2>1. ~Empty
    BY <1>1 DEF Empty, NoneIn
  <2> QED
    BY <1>1, <2>1, SessionFacts DEF OrderlyOK
<1>3. OnlyIn(c, "ready", Nobody, <<>>) /\ Holds(c, <<>>)
  BY <1>2 DEF Idle
<1>4. mail[c] = <<>>
  BY <1>3, OnlyInFacts
<1>5. /\ sock' = [f \in Open |-> IF sock[f].peer = c
                                 THEN Abandoned(sock[f], <<>>) ELSE sock[f]]
      /\ backlog' = [i \in DOMAIN backlog |->
                       IF backlog[i].peer = c
                       THEN Abandoned(backlog[i], <<>>) ELSE backlog[i]]
  BY <1>4, LeaveIs
<1>6. backlog' = <<>>
  BY <1>3, <1>5, Nothing DEF Holds
<1>7. Abandoned(sock[server.worker], <<>>) = Quit
  <2>1. PICK s \in Connections : s = sock[server.worker]
    BY <1>3, Types DEF Holds, SockOK
  <2>2. ~s.late /\ s.in = <<>>
    BY <1>3, <2>1 DEF Holds
  <2>3. /\ Abandoned(s, <<>>).peer = Nobody /\ Abandoned(s, <<>>).end = "closed"
        /\ Abandoned(s, <<>>).in = <<>> /\ ~Abandoned(s, <<>>).late
    BY <2>2, AbandonedFields
  <2>4. Abandoned(s, <<>>) \in Connections
    BY AbandonedType
  <2> QED
    BY <2>1, <2>3, <2>4, ConnectionIs DEF Quit
<1>8. Open' = Open /\ \A f \in Open : sock'[f] = Quit
  <2>1. Quit.peer # c
    BY NamesDiffer DEF Quit
  <2>2. \A f \in Open : f # server.worker => sock[f] = Quit
    BY DEF OrderlyOK, OthersQuit
  <2>3. server.worker \in Open /\ sock[server.worker].peer = c
    BY <1>3 DEF Holds
  <2> QED
    BY <1>5, <1>7, <2>1, <2>2, <2>3 DEF Open
<1>9. NoneIn'
  BY <1>1, <1>3, Types DEF NoneIn, OnlyIn, ClientType
<1> QED
  BY <1>1, <1>6, <1>8, <1>9 DEF OrderlyOK, OthersQuit, Empty, Up

LEMMA OrderlyPreserved ==
  TypeOK /\ ConnectsOK /\ PollSetMatches /\ OrderlyOK /\ [Next]_vars => OrderlyOK'
<1> SUFFICES ASSUME TypeOK, ConnectsOK, PollSetMatches, OrderlyOK, [Next]_vars PROVE OrderlyOK'
  OBVIOUS
<1>1. orderly' = orderly
  BY DEF Next, Poll, Accept, Read, Close, ReadFails, HangUp, handleMoveRover,
     Stop, Steer, Await, Drive, Told, Settle, Arriving, Arrive, ArriveEarly, vars, Client, Connect,
     ReadGreeting, Send, Receive, Leave
<1>2. CASE ~orderly
  BY <1>1, <1>2 DEF OrderlyOK
<1>3. CASE orderly
  <2>1. CASE handleMoveRover
    <3>1. UNCHANGED <<orderly, sock, backlog, client, mail>>
      BY <2>1 DEF handleMoveRover, Stop, Steer, Await, Drive, Told
    <3>2. server'.worker = server.worker /\ Up'
      BY <2>1, MoveIs DEF Up
    <3> QED
      BY <3>1, <3>2, SessionsKept
  <2>2. CASE Settle \/ UNCHANGED vars
    <3>1. UNCHANGED <<orderly, sock, backlog, client, mail, server>>
      BY <2>2 DEF Settle, vars
    <3>2. Up'
      BY <1>3, <3>1 DEF OrderlyOK, Up
    <3> QED
      BY <3>1, <3>2, SessionsKept
  <2> QED
    BY <1>3, <2>1, <2>2, OrderlyAccept, OrderlyRead, OrderlyClose, OrderlyNeverFails,
       OrderlyConnect, OrderlyReads, OrderlySend, OrderlyLeave DEF Next, Arriving, Poll, Client
<1> QED
  BY <1>2, <1>3
-----------------------------------------------------------------------------
IInv == TypeOK /\ ConnectsOK /\ DownOK /\ MoveOK /\ PollSetMatches /\ OrderlyOK

LEMMA InitHolds == Init => IInv
<1> SUFFICES ASSUME Init PROVE IInv
  OBVIOUS
<1>1. /\ orderly \in Worlds /\ sock = <<>> /\ backlog = <<>>
      /\ server = [pc |-> "poll", worker |-> 0, set |-> {Listener},
                   size |-> PollSetSize, max |-> Listener + 1, job |-> Nobody]
      /\ client = [c \in Clients |-> [st |-> "off", cmd |-> Nobody]]
      /\ mail = [c \in Clients |-> <<>>]
      /\ rover = [wheels |-> "init", steer |-> "init", done |-> FALSE]
  BY DEF Init
<1>2. Open = {} /\ Len(backlog) = 0 /\ Cardinality(Open) = 0
  BY <1>1, Nothing, FS_EmptySet DEF Open
<1>3. Listener \in Nat /\ Listener + 1 \in Nat /\ "poll" \in Pcs
  BY Bounds DEF Pcs
<1>4. server \in ServerType
  BY <1>1, <1>3, Bounds DEF ServerType
<1>5. client \in ClientType /\ rover \in RoverType
  BY <1>1, Bounds DEF ClientType, RoverType
<1>6. mail \in [Clients -> Seq(AllAnswers)] /\ backlog \in Seq(Connections)
  BY <1>1, EmptySeq
<1>7. orderly \in BOOLEAN
  BY <1>1, ControlServerAssumption
<1>8. TypeOK
  BY <1>2, <1>4, <1>5, <1>6, <1>7, Types DEF SockOK
<1>9. ConnectsOK /\ DownOK
  BY <1>1, <1>2, Bounds DEF ConnectsOK, DownOK
<1>10. MoveOK
  BY <1>1 DEF MoveOK
<1>11. PollSetMatches
  BY <1>1, <1>2, Bounds DEF PollSetMatches
<1>12. OrderlyOK
  <2>1. NoneIn /\ OthersQuit /\ Up
    BY <1>1, <1>2 DEF NoneIn, OthersQuit, Up
  <2> QED
    BY <1>1, <1>2, <2>1 DEF OrderlyOK, Empty
<1> QED
  BY <1>8, <1>9, <1>10, <1>11, <1>12 DEF IInv

LEMMA StepHolds == IInv /\ [Next]_vars => IInv'
BY TypePreserved, ConnectsPreserved, DownPreserved, MovePreserved, PollSetPreserved,
   OrderlyPreserved DEF IInv

(* Every state of server, clients and network satisfies the inductive      *)
(* invariant.                                                              *)
THEOREM InvariantHolds == Spec => []IInv
<1> QED
  BY InitHolds, StepHolds, PTL DEF Spec

(* Descriptors, poll set, connections and clients keep their types: there  *)
(* is a descriptor for every connection the server accepts, and it polls   *)
(* no other than these.                                                    *)
THEOREM TypeCorrect == Spec => []TypeOK
<1>1. IInv => TypeOK
  BY DEF IInv
<1> QED
  BY <1>1, InvariantHolds, PTL

(* Through every reuse of a descriptor the poll set is what is open, in    *)
(* the part of the array that poll looks at.                               *)
THEOREM PollSetFollows == Spec => []PollSetMatches
<1>1. IInv => PollSetMatches
  BY DEF IInv
<1> QED
  BY <1>1, InvariantHolds, PTL

(* Clients that come one at a time and read their answers never bring the  *)
(* server down, however many of them come.                                 *)
THEOREM ServerOutlives == Spec => []OutlivesOrderlyClients
<1>1. IInv => OutlivesOrderlyClients
  BY DEF IInv, OrderlyOK, OutlivesOrderlyClients
<1> QED
  BY <1>1, InvariantHolds, PTL

(* What such a client receives is one answer, to the command it sent.      *)
LEMMA ReceivesItsAnswer ==
  ASSUME IInv, NEW c \in Clients, orderly PROVE Answered(c)
<1> SUFFICES ASSUME Receive(c) PROVE Len(mail[c]) = 1 /\ mail[c][1] \in Answers(client[c].cmd)
  BY DEF Answered
<1>1. client[c].st = "waiting" /\ mail[c] # <<>>
  BY DEF Receive
<1>2. Session(c)
  <2>1. ~Empty
    BY <1>1 DEF Empty, NoneIn
  <2> QED
    BY <1>1, <2>1, SessionFacts DEF IInv, OrderlyOK
<1>3. PICK m \in Commands : \E a \in Answers(m) : OnlyIn(c, "waiting", m, <<a>>)
  BY <1>1, <1>2, SessionFacts DEF Delivered
<1>4. PICK a \in Answers(m) : OnlyIn(c, "waiting", m, <<a>>)
  BY <1>3
<1>5. client[c].cmd = m /\ mail[c] = <<a>>
  BY <1>4, OnlyInFacts
<1> QED
  BY <1>5, Texts2

(* In an orderly world a client receives one answer at a time, and one the *)
(* server gives to the command it sent; the server answers before it       *)
(* carries the command out.                                                *)
THEOREM AnswersMatch == Spec => OrderlyAnswers
<1>1. IInv /\ [Next]_vars => [\A c \in Clients : orderly => Answered(c)]_vars
  BY ReceivesItsAnswer
<1> QED
  BY <1>1, InvariantHolds, PTL DEF Spec, OrderlyAnswers

(* The rover starts to drive forwards or backwards only when it stands     *)
(* with its wheels steered straight, whichever clients sent what before.   *)
LEMMA DrivesStraight ==
  ASSUME IInv, [Next]_vars, rover'.wheels \in {"forward", "reverse"}, rover' # rover
  PROVE  rover = [wheels |-> "stopped", steer |-> "forward", done |-> TRUE]
<1>0. rover \in RoverType /\ MoveOK
  BY Types DEF IInv
<1>1. Stop \/ Steer \/ Await \/ Drive \/ Settle
  BY DEF Next, Poll, Accept, Read, Close, ReadFails, HangUp, handleMoveRover,
     Arriving, Arrive, ArriveEarly, Client, Connect, ReadGreeting, Send, Receive, Leave, vars
<1>2. CASE Drive
  <2>1. server.pc = "drive" /\ Gait(server.job) \in {"forward", "reverse"}
    BY <1>0, <1>2 DEF Drive, Told, RoverType
  <2>2. server.job \in Straight
    BY <2>1 DEF Gait, Straight
  <2>3. rover.wheels = "stopped" /\ rover.steer = "forward" /\ rover.done
    BY <1>0, <2>1, <2>2 DEF MoveOK
  <2> QED
    BY <1>0, <2>3 DEF RoverType
<1>3. CASE Stop
  BY <1>0, <1>3 DEF Stop, Told, RoverType
<1>4. CASE Steer
  <2>1. server.pc = "steer" /\ rover'.wheels = rover.wheels
    BY <1>0, <1>4 DEF Steer, Told, RoverType
  <2> QED
    BY <1>0, <2>1 DEF MoveOK
<1>5. CASE Await
  BY <1>5 DEF Await
<1>6. CASE Settle
  BY <1>0, <1>6 DEF Settle, RoverType
<1> QED
  BY <1>1, <1>2, <1>3, <1>4, <1>5, <1>6

(* The rover starts forwards or backwards only from a stop with its wheels *)
(* steered straight, whatever was sent before (handleMoveRover).           *)
THEOREM StraightStart == Spec => StartsStraight
<1>1. IInv /\ [Next]_vars =>
        [rover'.wheels \in {"forward", "reverse"} /\ rover' # rover =>
           rover = [wheels |-> "stopped", steer |-> "forward", done |-> TRUE]]_vars
  BY DrivesStraight
<1> QED
  BY <1>1, InvariantHolds, PTL DEF Spec, StartsStraight
================================================================================
