---------------------------- MODULE ControlServer ----------------------------
(***************************************************************************)
(* The control server (Control_Server/) and its clients, which use         *)
(* Mission_Control/remote.py, with TCP connections between them.           *)
(*                                                                         *)
(* The server is one thread: it polls, accepts a connection or receives a  *)
(* message, answers, and drives the rover before it polls again.  Polling, *)
(* receiving and answering are one step, since nothing the clients or the  *)
(* network do in between has another effect than if done before it.        *)
(*                                                                         *)
(* A message is 1024 bytes, of which the text, "SIMBA$<flag>$<payload>",   *)
(* are the first few and the rest is zero.  On its way it may come apart   *)
(* behind the text: two pieces, named here by the command and Padding.     *)
(***************************************************************************)
EXTENDS Naturals, Sequences, FiniteSets

CONSTANTS
  Clients,
  Commands,     \* the commands clients send
  Worlds,       \* what the server may meet: see orderly
  PollSetSize,  \* POLL_SET_SIZE, by which the poll set grows (10)
  MaxConnects,  \* bound: connections at a time
  MaxUnread     \* bound: see Roomy

Moves    == {"ArrowUp", "ArrowDown", "ArrowLeft", "ArrowRight", "Stop"}
Straight == {"ArrowUp", "ArrowDown"}
Padding  == "padding"
Nobody   == "nobody"    \* the peer of a connection whose client has left

ASSUME ControlServerAssumption ==
  /\ Commands \subseteq Moves \cup {"ping", "speed", "distance", "pickup", "picked"}
  /\ Worlds \subseteq BOOLEAN /\ Nobody \notin Clients
  /\ PollSetSize \in Nat /\ PollSetSize > 3
  /\ MaxConnects \in Nat /\ MaxUnread \in Nat

Listener == 3                          \* mainServerSocket
Fds      == 4 .. 3 + MaxConnects

VARIABLES
  orderly,  \* one client at a time, which reads the greeting and all answers
            \* before it leaves; no message comes apart; stdin stays open
  server,   \* the server's data
  sock,     \* descriptor -> connection, for those the server has open
  backlog,  \* connections it has not accepted yet
  client,   \* the clients
  mail,     \* what has been sent to each client and it has not read
  rover     \* what the drive API was last told, and whether it has done it

vars == <<orderly, server, sock, backlog, client, mail, rover>>

(* end: the client's end is open; has been closed; has been closed and has *)
(* answered something sent since by a reset; was closed with unread data,  *)
(* which resets the connection at once.  late: padding is on its way.      *)
Connections ==
  [peer : Clients \cup {Nobody}, end : {"open", "closed", "gone", "reset"},
   in : Seq(Commands \cup {Padding}), late : BOOLEAN]

Answers(command) ==
  CASE command = "ping"     -> {"ACK-1"}
    [] command \in Moves    -> {"ACK-2"}
    [] command = "speed"    -> {"ACK-3"}
    [] command = "distance" -> {"ACK-4"}
    [] command = "pickup"   -> {"ACK-5"}
    [] command = "picked"   -> {"True", "False"}

AllAnswers == {"ACK-0", "ACK-1", "ACK-2", "ACK-3", "ACK-4", "ACK-5", "True", "False"}

(* tcpServerSetup and setupPollSet have run.                               *)
Init ==
  /\ orderly \in Worlds
  /\ server = [pc |-> "poll", worker |-> 0, set |-> {Listener},
               size |-> PollSetSize, max |-> Listener + 1, job |-> Nobody]
  /\ sock = <<>> /\ backlog = <<>>
  /\ client = [c \in Clients |-> [st |-> "off", cmd |-> Nobody]]
  /\ mail = [c \in Clients |-> <<>>]
  /\ rover = [wheels |-> "init", steer |-> "init", done |-> FALSE]

Open == DOMAIN sock
Up   == server.pc # "down"

(* exit(-1), SIGPIPE or SIGSEGV: the kernel closes every socket.           *)
Fail ==
  /\ server' = [server EXCEPT !.pc = "down"]
  /\ sock' = <<>> /\ backlog' = <<>>
  /\ UNCHANGED mail
-----------------------------------------------------------------------------
(* The poll set: an array of size slots, of which poll sees the first max. *)
(* Mutants of addToPollSet: the array does not grow; max is one too small. *)
addToPollSet_NoGrow(s, f) ==
  [s EXCEPT !.set = @ \cup {f}, !.max = IF f + 1 >= @ THEN f + 1 ELSE @]

addToPollSet_MaxOffByOne(s, f) ==
  [s EXCEPT !.size = IF f >= @ THEN f + PollSetSize ELSE @,
            !.max  = IF f >= @ THEN f ELSE @,
            !.set  = @ \cup {f}]

addToPollSet(s, f) ==
  [s EXCEPT !.size = IF f >= @ THEN f + PollSetSize ELSE @,
            !.max  = IF f + 1 >= @ THEN f + 1 ELSE @,
            !.set  = @ \cup {f}]

(* Mutant of removeFromPollSet: descriptor 0 is polled in its place.       *)
removeFromPollSet_PollsZero(s, f) == [s EXCEPT !.set = (@ \ {f}) \cup {0}]

removeFromPollSet(s, f) == [s EXCEPT !.set = @ \ {f}]

Lowest(S) == CHOOSE f \in S : \A g \in S : f <= g

HasNews(f) ==
  \/ f = Listener /\ backlog # <<>>
  \/ f \in Open /\ \/ sock[f].in # <<>>
                   \/ sock[f].end # "open" /\ ~sock[f].late
  \/ f # Listener /\ f \notin Open         \* POLLNVAL

Ready == {f \in server.set : f < server.max /\ HasNews(f)}

pollCall(f) == server.pc = "poll" /\ f \in Ready /\ \A g \in Ready : f <= g
-----------------------------------------------------------------------------
(* A send on connection s succeeds unless s is known to be dead; the first *)
(* one after the client has closed it succeeds and is answered by a reset, *)
(* which may not have come back yet when the next one is made.             *)
CanSend(s) == s.end # "reset"
MayFail(s) == s.end \in {"gone", "reset"}

AfterSend(s) == [s EXCEPT !.end = IF @ = "closed" THEN "gone" ELSE @]

(* Mutant of Posted: case 2 runs into case 3.                              *)
Posted_FallsThrough(s, answer) ==
  IF s.peer \notin Clients THEN mail
  ELSE [mail EXCEPT ![s.peer] =
          @ \o (IF answer = "ACK-2" THEN <<answer, "ACK-3">> ELSE <<answer>>)]

Posted(s, answer) ==
  IF s.peer \in Clients THEN [mail EXCEPT ![s.peer] = Append(@, answer)] ELSE mail

NewFd == Lowest(Fds \ Open)

(* addNewSocket; in the mutant its workerSocket is a local variable.  The  *)
(* greeting is the first thing sent, so it never meets a dead connection.  *)
Accepted_Locally(f) == [addToPollSet(server, f) EXCEPT !.worker = IF @ = 0 THEN f ELSE @]

Accepted(f) == [addToPollSet(server, f) EXCEPT !.worker = f]

Accept ==
  /\ pollCall(Listener)
  /\ sock' = [f \in Open \cup {NewFd} |->
                IF f = NewFd THEN AfterSend(Head(backlog)) ELSE sock[f]]
  /\ server' = Accepted(NewFd)
  /\ mail' = Posted(Head(backlog), "ACK-0")
  /\ backlog' = Tail(backlog)
  /\ UNCHANGED <<orderly, client, rover>>

(* recvPDU: both pieces of a message, or the text alone when the timer's   *)
(* signal interrupts the wait for the padding.                             *)
Received(s) == IF s.in[1] # Padding /\ Len(s.in) > 1 THEN 2 ELSE 1

Taken(f) ==
  [sock EXCEPT ![f].in = SubSeq(@, Received(sock[f]) + 1, Len(@))]

(* The bytes behind a text that was received alone are what the stack held *)
(* before: the name of a move is then recognised or not.                   *)
Recognised(s) == IF Received(s) = 1 THEN BOOLEAN ELSE {TRUE}

(* processMsgFromClient, a command: it is answered, at the socket accepted *)
(* last, before it is carried out.                                         *)
Read(f) ==
  /\ pollCall(f) /\ f \in Open
  /\ sock[f].in # <<>> /\ Head(sock[f].in) # Padding
  /\ \E command \in {Head(sock[f].in)}, w \in {server.worker} :
       \/ /\ w \in Open /\ CanSend(sock[w])
          /\ \E answer \in Answers(command) : mail' = Posted(sock[w], answer)
          /\ sock' = [Taken(f) EXCEPT ![w] = AfterSend(@)]
          /\ \E recognised \in Recognised(sock[f]) :
               server' = IF command \in Moves /\ recognised
                         THEN [server EXCEPT !.job = command, !.pc = "stop"]
                         ELSE server
          /\ UNCHANGED backlog
       \/ (w \in Open => MayFail(sock[w])) /\ Fail
  /\ UNCHANGED <<orderly, client, rover>>

(* ... the end of the connection ...                                       *)
Close(f) ==
  /\ pollCall(f) /\ f \in Open
  /\ sock[f].in = <<>> /\ sock[f].end \in {"closed", "gone"}
  /\ sock' = [g \in Open \ {f} |-> sock[g]]
  /\ server' = removeFromPollSet(server, f)
  /\ UNCHANGED <<orderly, backlog, client, mail, rover>>

(* ... a message that begins with a zero, in which strtok finds nothing;   *)
(* or a receive that fails, on a reset connection or on no socket at all.  *)
ReadFails(f) ==
  /\ pollCall(f)
  /\ f \in Open => \/ sock[f].in # <<>> /\ Head(sock[f].in) = Padding
                   \/ sock[f].in = <<>> /\ sock[f].end = "reset"
  /\ Fail
  /\ UNCHANGED <<orderly, client, rover>>

(* An unused slot, slot 0 among them, holds descriptor 0 and no events,    *)
(* but poll reports a hang-up all the same: when the other end of the      *)
(* standard input goes, the server tries to receive from it.               *)
HangUp ==
  /\ server.pc = "poll" /\ ~orderly
  /\ Fail
  /\ UNCHANGED <<orderly, client, rover>>
-----------------------------------------------------------------------------
(* handleMoveRover, one step for each call of the drive API.               *)
Goto(pc) ==
  server' = [server EXCEPT !.pc = pc, !.job = IF pc = "poll" THEN Nobody ELSE @]

Told(changes) ==
  /\ rover' = changes
  /\ UNCHANGED <<orderly, sock, backlog, client, mail>>

Stop ==
  /\ server.pc = "stop"
  /\ Told([rover EXCEPT !.wheels = "stopped", !.done = FALSE])
  /\ Goto(IF server.job = "Stop" THEN "poll" ELSE "steer")

(* Mutant of Steer: the wait is left out, as the turns leave it out.       *)
Steer_NoWait ==
  /\ server.pc = "steer"
  /\ Told([rover EXCEPT !.steer = IF server.job \in Straight THEN "forward" ELSE "point",
                        !.done = FALSE])
  /\ Goto("drive")

Steer ==
  /\ server.pc = "steer"
  /\ Told([rover EXCEPT !.steer = IF server.job \in Straight THEN "forward" ELSE "point",
                        !.done = FALSE])
  /\ Goto(IF server.job \in Straight THEN "await" ELSE "drive")

(* while (check_rover_done() == 0) {}                                      *)
Await ==
  /\ server.pc = "await" /\ rover.done
  /\ Goto("drive")
  /\ UNCHANGED <<orderly, sock, backlog, client, mail, rover>>

Gait(command) ==
  CASE command = "ArrowUp"   -> "forward"
    [] command = "ArrowDown" -> "reverse"
    [] command = "ArrowLeft" -> "ccw"
    [] OTHER                 -> "cw"

Drive ==
  /\ server.pc = "drive"
  /\ Told([rover EXCEPT !.wheels = Gait(server.job), !.done = FALSE])
  /\ Goto("poll")

(* The rover has stopped and steered as it was told, if it ever does.      *)
Settle ==
  /\ Up /\ rover.wheels = "stopped" /\ ~rover.done
  /\ rover' = [rover EXCEPT !.done = TRUE]
  /\ UNCHANGED <<orderly, server, sock, backlog, client, mail>>
-----------------------------------------------------------------------------
(* The clients.  A connection is made without the server's doing, and what *)
(* a client sends may wait in it before the server accepts it.             *)
NewConnection(c) == [peer |-> c, end |-> "open", in |-> <<>>, late |-> FALSE]

(* Change the connection of client c, wherever it is.                      *)
OnConnection(c, Change(_)) ==
  /\ sock' = [f \in Open |-> IF sock[f].peer = c THEN Change(sock[f]) ELSE sock[f]]
  /\ backlog' = [i \in DOMAIN backlog |->
                   IF backlog[i].peer = c THEN Change(backlog[i]) ELSE backlog[i]]

Becomes(c, st, cmd) == client' = [client EXCEPT ![c] = [st |-> st, cmd |-> cmd]]

(* conn_to_rover                                                           *)
Connect(c) ==
  /\ Up /\ client[c].st = "off" /\ Cardinality(Open) + Len(backlog) < MaxConnects
  /\ orderly => \A d \in Clients : client[d].st = "off"
  /\ backlog' = Append(backlog, NewConnection(c))
  /\ Becomes(c, "new", Nobody)
  /\ mail' = [mail EXCEPT ![c] = <<>>]
  /\ UNCHANGED <<orderly, server, sock, rover>>

(* recv_from_rover, for the greeting                                       *)
ReadGreeting(c) ==
  /\ client[c].st = "new" /\ mail[c] # <<>>
  /\ Becomes(c, "ready", Nobody)
  /\ mail' = [mail EXCEPT ![c] = <<>>]
  /\ UNCHANGED <<orderly, server, sock, backlog, rover>>

InTransit(c) == \/ \E f \in Open : sock[f].peer = c /\ sock[f].late
                \/ \E i \in DOMAIN backlog : backlog[i].peer = c /\ backlog[i].late

(* Bound of Send: the texts in the client's own connection, and the answers *)
(* that any client, whoever they are for, has not read.                    *)
Roomy(c) ==
  /\ \A f \in Open : sock[f].peer = c => Len(sock[f].in) < 2 * MaxUnread
  /\ \A i \in DOMAIN backlog : backlog[i].peer = c => Len(backlog[i].in) < 2 * MaxUnread
  /\ \A d \in Clients : Len(mail[d]) < MaxUnread

(* send_to_rover, up to its receive                                        *)
Send(c, command) ==
  /\ Up /\ ~InTransit(c) /\ Roomy(c)
  /\ client[c].st = "ready" \/ (~orderly /\ client[c].st = "new")
  /\ \E apart \in (IF orderly THEN {FALSE} ELSE BOOLEAN) :
       OnConnection(c, LAMBDA s : [s EXCEPT
         !.in = @ \o (IF apart THEN <<command>> ELSE <<command, Padding>>),
         !.late = apart])
  /\ Becomes(c, "waiting", command)
  /\ UNCHANGED <<orderly, server, mail, rover>>

(* ... and its receive, which returns all there is                         *)
Receive(c) ==
  /\ client[c].st = "waiting" /\ mail[c] # <<>>
  /\ Becomes(c, "ready", Nobody)
  /\ mail' = [mail EXCEPT ![c] = <<>>]
  /\ UNCHANGED <<orderly, server, sock, backlog, rover>>

(* disconn_from_rover, or the end of the client's process                  *)
Leave(c) ==
  /\ client[c].st # "off" /\ (orderly => client[c].st = "ready")
  /\ OnConnection(c, LAMBDA s : [s EXCEPT !.peer = Nobody,
       !.end  = IF mail[c] # <<>> THEN "reset" ELSE "closed",
       !.late = mail[c] = <<>> /\ @])
  /\ Becomes(c, "off", Nobody)
  /\ mail' = [mail EXCEPT ![c] = <<>>]
  /\ UNCHANGED <<orderly, server, rover>>

(* The network delivers the padding that was late, to a connection the     *)
(* server has accepted and to one it has not.                              *)
Arrive(f) ==
  /\ f \in Open /\ sock[f].late
  /\ sock' = [sock EXCEPT ![f].late = FALSE, ![f].in = Append(@, Padding)]
  /\ UNCHANGED <<orderly, server, backlog, client, mail, rover>>

ArriveEarly(i) ==
  /\ i \in DOMAIN backlog /\ backlog[i].late
  /\ backlog' = [backlog EXCEPT ![i].late = FALSE, ![i].in = Append(@, Padding)]
  /\ UNCHANGED <<orderly, server, sock, client, mail, rover>>

-----------------------------------------------------------------------------
Poll == \/ Accept
        \/ \E f \in Fds : Read(f) \/ Close(f)
        \/ \E f \in Fds : ReadFails(f)

handleMoveRover == Stop \/ Steer \/ Await \/ Drive

Client(c) == \/ Connect(c) \/ ReadGreeting(c) \/ Receive(c) \/ Leave(c)
             \/ \E command \in Commands : Send(c, command)

Next == \/ Poll \/ handleMoveRover
        \/ Settle \/ HangUp
        \/ \E f \in Fds : Arrive(f)
        \/ \E i \in 1 .. MaxConnects : ArriveEarly(i)
        \/ \E c \in Clients : Client(c)

Spec == Init /\ [][Next]_vars

(* The server runs when it can, and what was sent arrives.  No client has  *)
(* to do anything, and nothing says that the rover gets done.              *)
FairSpec == /\ Spec /\ WF_vars(Poll \/ handleMoveRover)
            /\ \A f \in Fds : WF_vars(Arrive(f))
-----------------------------------------------------------------------------
TypeOK ==
  /\ orderly \in BOOLEAN
  /\ server \in [pc : {"poll", "stop", "steer", "await", "drive", "down"},
                 worker : Fds \cup {0}, set : SUBSET (Fds \cup {Listener}),
                 size : Nat, max : Nat, job : Commands \cup {Nobody}]
  /\ Open \subseteq Fds /\ \A f \in Open : sock[f] \in Connections
  /\ backlog \in Seq(Connections)
  /\ client \in [Clients -> [st : {"off", "new", "ready", "waiting"},
                             cmd : Commands \cup {Nobody}]]
  /\ mail \in [Clients -> Seq(AllAnswers)]
  /\ rover \in [wheels : {"init", "stopped", "forward", "reverse", "ccw", "cw"},
                steer : {"init", "forward", "point"}, done : BOOLEAN]

(* Through every reuse of a descriptor the server polls what it has open   *)
(* and nothing else, and every slot it uses is in the array and in the     *)
(* part of it that poll looks at.                                          *)
PollSetMatches ==
  Up => /\ server.set = Open \cup {Listener}
        /\ \A f \in server.set : f < server.max
        /\ server.max <= server.size

(* Clients that come one at a time, read what they are sent and leave when *)
(* they were answered never bring the server down, although it may accept  *)
(* the next one before it notices that the last has left.                  *)
OutlivesOrderlyClients == orderly => Up

(* What such a client receives is the answer to the command it sent.       *)
Answered(c) ==
  Receive(c) => Len(mail[c]) = 1 /\ mail[c][1] \in Answers(client[c].cmd)

OrderlyAnswers == [][\A c \in Clients : orderly => Answered(c)]_vars

(* A command is answered to the client that sent it: "Send command to      *)
(* rover and waits for ACK" (remote.py).                                   *)
AnswersGoToSender ==
  [][\A f \in Fds, c \in Clients :
       Read(f) /\ mail'[c] # mail[c] => sock[f].peer = c]_vars

(* The rover starts to drive forwards or backwards only when it has come   *)
(* to a stop with its wheels steered straight, whoever sent what before.   *)
StartsStraight ==
  [][rover'.wheels \in {"forward", "reverse"} /\ rover' # rover =>
       rover = [wheels |-> "stopped", steer |-> "forward", done |-> TRUE]]_vars

(* Polling answers the lowest descriptor that is ready, "which could cause *)
(* higher file descriptors to never be processed" (pollLib.c).  So a Stop  *)
(* that has arrived on descriptor g is carried out, even if its sender has *)
(* left, unless the server dies (as it does in the end when it does not    *)
(* recognise it), waits for ever for the rover to get done with a move, or *)
(* is kept busy: for ever it finds a lower descriptor ready as well as g.  *)
StopAt(g) == g \in Open /\ \E i \in DOMAIN sock[g].in : sock[g].in[i] = "Stop"

Overtakes(g) == g \in Ready /\ (\E f \in Ready : f < g) /\ Poll

StopsOrWaits ==
  \A g \in Fds :
    \/ StopAt(g) ~> server.job = "Stop" \/ ~Up
    \/ <>[](server.pc = "await")
    \/ []<><<Overtakes(g)>>_vars
=============================================================================
