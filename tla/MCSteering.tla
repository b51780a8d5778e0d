----------------------------- MODULE MCSteering -----------------------------
(* The ring keeps two periods, of which a turning motor needs one for a    *)
(* count; the first two motors may need two to start or turn round, and    *)
(* the first is pushed back by its stops.  Every motor was switched on     *)
(* between its stops.                                                      *)
EXTENDS Steering

Left == Sides(3, 2, 1, 1)
Right == Sides(-2, -2, -2, -2)
Yielding == Sides(1, 0, 0, 0)
Sticking == Sides(2, 2, 1, 1)
SomeAngles == {4}
=============================================================================
