--------------------------- MODULE MCImuCorrection ---------------------------
(* Turns of one and of two units; an alarm needs more than one unit, so     *)
(* that it never comes with the first suspicion.  Two stalls, and a slide   *)
(* after a stall, fit into the duration.                                    *)
EXTENDS ImuCorrection, TLC

Turns == {1, 2}
=============================================================================
