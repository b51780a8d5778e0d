--------------------------- MODULE MCControlServer ---------------------------
(* Two clients, two connections at a time and three commands, as often as  *)
(* they like: enough for a descriptor that is used again, for a command on *)
(* a connection that has just been left, and for a client that sends for   *)
(* ever on descriptor 4 while another waits on 5.                          *)
EXTENDS ControlServer, TLC

Few == {"ArrowUp", "Stop", "ping"}
=============================================================================
