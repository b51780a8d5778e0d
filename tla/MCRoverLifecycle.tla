-------------------------- MODULE MCRoverLifecycle --------------------------
(* Two motors, a watchdog that tolerates three quiet clocks, an interrupt  *)
(* due every one to four clocks: the longest gap the timeout allows.       *)
EXTENDS RoverLifecycle

AllPrograms == {"server", "test", "demo"}
=============================================================================
