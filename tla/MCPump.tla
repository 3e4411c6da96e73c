------------------------------- MODULE MCPump -------------------------------
(* Ten bytes in two segments of three, over a connection that holds five,  *)
(* with buffers of four: one send may pass both boundaries, and there is a *)
(* third one that is not timed.                                            *)
EXTENDS Pump
=============================================================================
