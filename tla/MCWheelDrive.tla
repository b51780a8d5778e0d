---------------------------- MODULE MCWheelDrive ----------------------------
(* One or two wheels, and the programs the runs let drive them.            *)
EXTENDS WheelDrive

Call(o, s, d) == [op |-> o, speed |-> s, dist |-> d]

\* The gait functions address the right-hand wheels first.
RightFirst == [w \in Wheels |-> NumWheels + 1 - w]

\* Speeds above and below the limit rover_stop sets, forwards and backwards.
DriveProgram == {Call("forward", 200, 0), Call("ccw", 7, 0),
                 Call("move_x", 6, 1), Call("stop", 1, 0),
                 Call("check_done", 1, 0)}

StopProgram == {Call("reverse", 200, 0), Call("cw", 90, 0),
                Call("move_x", 200, 1), Call("stop", 1, 0)}
=============================================================================
